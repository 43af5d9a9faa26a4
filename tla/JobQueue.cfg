CONSTANTS
  Deliveries = {d1, d2}
  Workers = {w1, w2}
  MaxAttempts = 2
  MaxCrashes = 1
  MaxOverruns = 1
SPECIFICATION FairSpec
CHECK_DEADLOCK FALSE
INVARIANTS
  TypeOK
  SoleGeneration
  NewestClaimIsLive
  NoDeliveryLost
  RetriesAccounted
PROPERTIES
  EveryDeliverySettles
  QueueDrains
  ImplementsDelivery
