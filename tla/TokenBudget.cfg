SPECIFICATION Spec
CONSTANTS
  Calls = {c1, c2, c3}
  NoCall = NoCall
  Est <- TwoEach
  Actuals = {1, 3}
  Limit = 5
  LastDay = 2
  TTL = 1
  MaxTicks = 1
  DbFails = TRUE
SYMMETRY CallSymmetry
INVARIANTS ExactUntilExpiry QuotaKept NoReservationLeaks SpentIsCharged
CHECK_DEADLOCK FALSE
