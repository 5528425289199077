SPECIFICATION Spec
CONSTANTS
  c1 = c1
  c2 = c2
  Calls <- TwoCalls
  MaxToken = 3
  Lifetimes = {1, 3}
  Grace = 1
  Retention = 0
  MaxAttempts = 2
  MaxTime = 3
SYMMETRY CallSymmetry
INVARIANTS
  FamilyRevocationIsFinal
CHECK_DEADLOCK FALSE
