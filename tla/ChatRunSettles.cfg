\* One worker, two turns, projections in two steps: runs and cancellations settle.
SPECIFICATION FairSpec
CONSTANTS
  w1 = w1
  w2 = w2
  j1 = j1
  none = none
  noJob = noJob
  Workers = {w1}
  NoWorker = none
  NoJob = noJob
  job = j1
  MaxAttempts = 2
  Turns = 2
  Tools = {"lookup", "write"}
  Windows = {"projection"}
  MaxClaims = 3
INVARIANT ProjectionMissesOnlyTheEnd
PROPERTY RunSettles
PROPERTY CancelSettles
CHECK_DEADLOCK FALSE
