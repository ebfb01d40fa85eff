SPECIFICATION FairSpec
CONSTANTS
  Limit = 1
  Buffer = 2
  MaxWritten = 1
  RemovalMayFail = FALSE
  None = None
PROPERTY EveryExecutionReturns
CHECK_DEADLOCK FALSE
