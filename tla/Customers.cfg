SPECIFICATION Spec
CONSTANTS
  p1 = p1
  p2 = p2
  c1 = c1
  c2 = c2
  NoOne = NoOne
  NoCall = NoCall
  Customers <- TwoCustomers
  Calls <- TwoCalls
  Slots = 2
  PublicFlow = TRUE
  MaxLost = 1
SYMMETRY Symmetry
INVARIANTS
  NothingLeftBehind
  FreezeFollowsManifest
  NameHeldUntilReleased
  OnlyApprovedIdentities
PROPERTIES
  DeletionIsFinal
CHECK_DEADLOCK FALSE
