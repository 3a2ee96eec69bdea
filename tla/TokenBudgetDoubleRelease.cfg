SPECIFICATION Spec
CONSTANTS
  Calls = {c1, c2}
  NoCall = NoCall
  Est <- TwoEach
  Actuals = {1}
  Limit = 5
  LastDay = 1
  TTL = 1
  MaxTicks = 1
  DbFails = FALSE
SYMMETRY CallSymmetry
INVARIANTS ReservedIsExact
CHECK_DEADLOCK FALSE
