SPECIFICATION FairSpec
CONSTANTS
  w1 = w1
  w2 = w2
  j1 = j1
  p1 = p1
  none = none
  noJob = noJob
  Jobs = {p1, j1}
  Workers = {w1, w2}
  NoWorker = none
  NoJob = noJob
  Allowed <- TwoLanes
  Periodic = {p1}
  MaxAttempts = 2
  RetryDelays <- RetryLater
  LeaseTicks = 1
  MaxDelay = 1
  MaxClaims = 2
  Interval = 1
  MaxIdle = 1
  MaxSlot = 1
  MaxFaults = 1
INVARIANTS  NoLostWakeup
PROPERTY EveryRowServed
CHECK_DEADLOCK FALSE
