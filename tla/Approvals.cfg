SPECIFICATION Spec
CONSTANTS
  c1 = c1
  c2 = c2
  h1 = h1
  h2 = h2
  x1 = x1
  NoHuman = NoHuman
  NoCall = NoCall
  Calls <- TwoCalls
  Replicas <- OneReplica
  Home <- Together
  Humans <- TwoHumans
  MaxTTL = 3
  FreshFor = 3
  MaxAge = 2
  CacheTTL = 2
  MaxTime = 3
SYMMETRY Symmetry
INVARIANTS
  OneUse
  ReservationIsOwned
  ReceiptAgeIsBounded
  ApprovalCarriesContext
PROPERTIES
  DecisionIsFinal
  SpendNeedsLiveDecider
CHECK_DEADLOCK FALSE
