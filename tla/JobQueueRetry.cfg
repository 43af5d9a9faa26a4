CONSTANTS
  Deliveries = {d1}
  Workers = {w1}
  MaxAttempts = 5
  MaxCrashes = 6
  MaxOverruns = 0
SPECIFICATION Spec
CHECK_DEADLOCK FALSE
INVARIANTS
  RetryingStops
