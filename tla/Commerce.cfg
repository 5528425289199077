SPECIFICATION Spec
CONSTANTS
  i1 = i1
  i2 = i2
  q1 = q1
  q2 = q2
  g1 = g1
  g2 = g2
  p1 = p1
  Reconciler = Reconciler
  NoPackage = NoPackage
  NoInvocation = NoInvocation
  Invocations <- TwoInvocations
  Quotes <- TwoQuotes
  Gateways <- TwoGateways
  Packages <- OnePackage
  Offers <- PricedAndFree
  Limits <- JustOne
  Units = {1}
  NamedPayments = {""}
  QuoteTTL = 1
  Window = 1
  Month = 2
  MaxTerms = 1
  MaxTime = 2
SYMMETRY Symmetry
INVARIANTS
  BudgetHolds
  HoldFollowsPhase
  UnitsAreConserved
  RailAgrees
PROPERTIES
  FinishedIsFinal
CHECK_DEADLOCK FALSE
