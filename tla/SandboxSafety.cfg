SPECIFICATION FairSpec
CONSTANTS
  Limit = 2
  Buffer = 2
  MaxWritten = 2
  RemovalMayFail = TRUE
  None = None
INVARIANTS CaptureAccounting VerdictReflectsProgram OutputLimitIsReal ClientGoneAtAnswer
PROPERTIES ImplementsExecutor RunningProgramIsStopped
CHECK_DEADLOCK FALSE
