\* A cancellation between its reads and its commit while the job dies.
SPECIFICATION Spec
CONSTANTS
  w1 = w1
  w2 = w2
  j1 = j1
  none = none
  noJob = noJob
  Workers = {w1}
  NoWorker = none
  NoJob = noJob
  job = j1
  MaxAttempts = 1
  Turns = 1
  Tools = {}
  Windows = {"cancel"}
  MaxClaims = 2
INVARIANT CancelledIsNotSuspended
CHECK_DEADLOCK FALSE
