SPECIFICATION FairSpec
CONSTANTS
  c1 = c1
  c2 = c2
  w1 = w1
  w2 = w2
  none = none
  Callers = {c1, c2}
  Workers = {w1, w2}
  NoWorker = none
  MaxAttempts = 1
  MaxIntents = 2
  MaxJobs = 2
  MaxFaults = 1
  MaxClaims = 2
INVARIANT StuckOnlyIfAbandonedOrEclipsed
PROPERTIES SucceedsOnItsOwnArtifacts ArtifactsNeverGoBack IngestEnds
CHECK_DEADLOCK FALSE
