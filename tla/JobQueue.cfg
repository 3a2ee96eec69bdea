SPECIFICATION FairSpec
CONSTANTS
  w1 = w1
  w2 = w2
  j1 = j1
  j2 = j2
  Jobs = {j1, j2}
  Workers = {w1, w2}
  NoWorker = NoWorker
  NoJob = NoJob
  Allowed <- TwoLanes
  UnknownKind = {j2}
  NeverPruneDead = {j1}
  MaxAttempts = 2
  RetryDelays <- RetryAtOnce
  LeaseTicks = 1
  MaxDelay = 1
  MaxClaims = 3
INVARIANTS AttemptLedger OwnerHoldsLatestClaim
PROPERTIES StaleWorkerSettlesNothing EventuallySettled KeepsContract
CHECK_DEADLOCK FALSE
