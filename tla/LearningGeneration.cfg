SPECIFICATION FairSpec
CONSTANTS
  r1 = r1
  r2 = r2
  Requests = {r1, r2}
  KindsOf <- MCKindsOf
  LessonTopics <- MCTopics
  LessonDrafts <- MCDrafts
  Priors <- MCPriors
  Fitting <- MCFits
  Repeating <- MCAlike
  ModuleLength = 3
  MaxPriors = 4
  None = None
INVARIANTS ShownIsSound RetryDiscipline SavedIsStored CountsFollowRuns
PROPERTY EveryRequestIsAnswered
CHECK_DEADLOCK FALSE
