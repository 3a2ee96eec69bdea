\* One epoch of two generations, two runs, two workers, two faults
\* (or switches of auto_queue), a dead job requeued.
SPECIFICATION Spec
CONSTANTS
  e1 = e1
  e2 = e2
  r1 = r1
  r2 = r2
  w1 = w1
  w2 = w2
  none = none
  noJob = noJob
  Epochs = {e1}
  MaxGeneration <- Generations
  Runs = {r1, r2}
  Workers = {w1, w2}
  NoWorker = none
  NoJob = noJob
  MaxAttempts = 2
  MaxEpisodes = 1
  MaxFaults = 2
  MaxClaims = 3
INVARIANTS ActiveSyncHasJob RunsAgreeWithItems JoinedItemsMirror CountIsWhatWasIngested 
SYMMETRY Symmetry
CHECK_DEADLOCK FALSE
