SPECIFICATION Spec
CONSTANTS
  i1 = i1
  i2 = i2
  q1 = q1
  q2 = q2
  g1 = g1
  g2 = g2
  p1 = p1
  Reconciler = Reconciler
  NoPackage = NoPackage
  NoInvocation = NoInvocation
  Invocations <- OneInvocation
  Quotes <- OneQuote
  Gateways <- OneGateway
  Packages <- NoPackages
  Offers <- OnSuccess
  Limits <- JustOne
  Units = {1}
  NamedPayments = {""}
  QuoteTTL = 1
  Window = 1
  Month = 2
  MaxTerms = 1
  MaxTime = 2
PROPERTIES
  ReconcilerSparesDispatched
CHECK_DEADLOCK FALSE
