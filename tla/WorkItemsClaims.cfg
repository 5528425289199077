SPECIFICATION SafeSpec
CONSTANTS
  c1 = c1
  c2 = c2
  s1 = s1
  u1 = u1
  w1 = w1
  t1 = t1
  t2 = t2
  k1 = k1
  NoKey = NoKey
  NoClaimant = NoClaimant
  Claimants <- TwoClaimants
  Sweepers <- Nobody
  Runs <- TwoRuns
  TemporalRuns <- Nobody
  Submitters <- Nobody
  SubmittedRuns <- Nobody
  Keys <- Nobody
  Outcomes = {"Succeeded"}
  Asked = {"wait"}
  QueueWhileActive = TRUE
  Lease = 1
  MinAge = 1
  MaxVersion = 3
  MaxRequests = 2
  MaxClaims = 2
SYMMETRY Symmetry
INVARIANTS
  OneOpenOfEach
  FulfilmentIsFenced
  OneResumePerVersion
PROPERTIES
  ClaimIsExclusive
CHECK_DEADLOCK FALSE
