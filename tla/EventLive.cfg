SPECIFICATION Spec
CONSTANTS
  r1 = r1
  r2 = r2
  e1 = e1
  e2 = e2
  NoHolder = NoHolder
  Gone = Gone
  Replicas <- OneReplica
  Events <- TwoEvents
  MaxRows = 2
  BatchSize = 1
  LeaseTTL = 2
  RenewEvery = 1
  MaxStall = 1
  MaxCrashes = 1
PROPERTIES
  Delivery
CHECK_DEADLOCK FALSE
