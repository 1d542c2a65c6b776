SPECIFICATION Spec
CONSTANTS
  Deliveries = {d1}
  Savers = {s1}
  Drainers = {r1}
  NoDelivery = NoDelivery
  NoTime = NoTime
  MaxAttempts = 2
  BackoffBase = 1
  BackoffCap = 2
  MaxShift = 2
  Lease = 2
  MaxAttemptTime = 1
  MaxSaves = 1
  MaxRequeues = 0
  MaxCrashes = 0
CHECK_DEADLOCK FALSE
INVARIANTS
  MirrorAgrees
