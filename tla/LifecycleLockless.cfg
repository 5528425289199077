SPECIFICATION Spec
CONSTANTS
  a1 = a1
  a2 = a2
  c1 = c1
  c2 = c2
  NoActor = NoActor
  NoVersion = NoVersion
  DevLoopActors = {}
  Actors <- TwoActors
  Callers <- TwoCalls
  Versions = {}
  Correlated = {TRUE}
  AdvisoryLock = FALSE
  LivenessBound = 0
  ProgressBound = 0
  MaxTime = 1
  MaxEpoch = 2
SYMMETRY Symmetry
INVARIANTS
  ExclusiveToken
  TrailAgrees
  CorrelationNamesOwner
  MissAnswerIsHonest
  DangerousExactlyWhenTakeable
PROPERTIES
  DisplacementLicensed
  FinishedIsAbsorbing
CHECK_DEADLOCK FALSE
