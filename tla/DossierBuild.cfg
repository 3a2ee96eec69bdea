\* One build, two workers, one fault or collection that waits, two changes of
\* the subject, a dead job requeued.
SPECIFICATION FairSpec
CONSTANTS
  w1 = w1
  w2 = w2
  b1 = b1
  b2 = b2
  none = none
  noBuild = noBuild
  Builds = {b1}
  Workers = {w1, w2}
  NoWorker = none
  NoBuild = noBuild
  MaxAttempts = 2
  MaxChanges = 2
  MaxFaults = 1
  MaxClaims = 3
INVARIANTS BilledOnce TextAnswersManifest JobsMatchBuilds
PROPERTIES BuildSettles KeepsContract
CHECK_DEADLOCK FALSE
