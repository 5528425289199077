SPECIFICATION Spec
CONSTANTS
  c1 = c1
  c2 = c2
  s1 = s1
  u1 = u1
  w1 = w1
  t1 = t1
  t2 = t2
  k1 = k1
  NoKey = NoKey
  NoClaimant = NoClaimant
  Claimants <- OneClaimant
  Sweepers <- OneSweeper
  Runs <- OneOfEach
  TemporalRuns <- OneTemporal
  Submitters <- OneSubmit
  SubmittedRuns <- Workflow
  Keys <- OneKey
  Outcomes = {"Succeeded"}
  Asked = {"wait", "complete"}
  QueueWhileActive = TRUE
  Lease = 1
  MinAge = 1
  MaxVersion = 2
  MaxRequests = 1
  MaxClaims = 1
INVARIANTS
  ClosedRunsAreDead
  RetryCreatesOnce
PROPERTIES
  FinishedIsFinal
  QueuedIsClaimed
CHECK_DEADLOCK FALSE
