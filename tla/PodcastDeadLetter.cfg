\* One generation, one run, two workers, two faults.
SPECIFICATION Spec
CONSTANTS
  e1 = e1
  e2 = e2
  r1 = r1
  r2 = r2
  w1 = w1
  w2 = w2
  none = none
  noJob = noJob
  Epochs = {e1}
  MaxGeneration <- FirstOnly
  Runs = {r1}
  Workers = {w1, w2}
  NoWorker = none
  NoJob = noJob
  MaxAttempts = 2
  MaxEpisodes = 1
  MaxFaults = 2
  MaxClaims = 2
INVARIANT DeadLetterEndsTheSync

CHECK_DEADLOCK FALSE
