SPECIFICATION SafeSpec
CONSTANTS
  r1 = r1
  r2 = r2
  e1 = e1
  e2 = e2
  NoHolder = NoHolder
  Gone = Gone
  Replicas <- TwoReplicas
  Events <- TwoEvents
  MaxRows = 2
  BatchSize = 2
  LeaseTTL = 3
  RenewEvery = 1
  MaxStall = 1
  MaxCrashes = 0
SYMMETRY ReplicaSymmetry
INVARIANTS
  PublishesUnderLease
  NotifyNotLost
PROPERTIES
  NoOvertaking
CHECK_DEADLOCK FALSE
