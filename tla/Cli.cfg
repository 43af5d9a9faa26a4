SPECIFICATION Spec
CONSTANTS
  Users = {ann, bob}
  Processes = {p1, p2}
  None = None
  Limit = 3
  MaxKeys = 1
  MaxFaults = 2
SYMMETRY Symmetry
INVARIANT QuotaKept
INVARIANT ConsentHeld
INVARIANT NothingLeftBehind
INVARIANT RevokedForGood
CHECK_DEADLOCK FALSE
