\* Two writers one after the other, two reservations, one teardown, two workers.
SPECIFICATION Spec
CONSTANTS
  w1 = w1
  w2 = w2
  c1 = c1
  c2 = c2
  t1 = t1
  t2 = t2
  i1 = i1
  i2 = i2
  none = none
  noJob = noJob
  Workers = {w1, w2}
  NoWorker = none
  NoJob = noJob
  Cleanups = {c1, c2}
  Teardowns = {t1}
  Writers = {i1, i2}
  MaxAttempts = 1
  Window = 3
  PutTicks = 2
  Grace = 2
  Windows = {}
  MaxFaults = 1
  MaxClaims = 2
INVARIANTS  NoUnwatchedOrphan HoldIsExclusive IntentHasJob NothingComesBack
SYMMETRY Symmetry
CHECK_DEADLOCK FALSE
