\* Two turns, two workers, cancellations that take two steps.
SPECIFICATION Spec
CONSTANTS
  w1 = w1
  w2 = w2
  j1 = j1
  none = none
  noJob = noJob
  Workers = {w1, w2}
  NoWorker = none
  NoJob = noJob
  job = j1
  MaxAttempts = 2
  Turns = 2
  Tools = {"search", "write"}
  Windows = {"cancel"}
  MaxClaims = 3
INVARIANT BilledOnce
INVARIANT WrittenOnce
PROPERTY CompletedIsKept
 
 
 
SYMMETRY WorkerSymmetry
CHECK_DEADLOCK FALSE
