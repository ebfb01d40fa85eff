SPECIFICATION Spec
CONSTANTS
  Requests = {r1, r2, r3}
  i1 = i1
  i2 = i2
  None = None
  Ids <- MCIds
  Times <- MCTimes
  Assertions <- MCAssertions
  Skew = 1
  MaxTtl = 2
  Capacity = 1
INVARIANTS SecondUseIsLate ReplayedWasUsed
PROPERTY FailsClosed
CHECK_DEADLOCK FALSE
