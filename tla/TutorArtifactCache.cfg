SPECIFICATION Spec
CONSTANTS
  Calls = {r1, r2}
  Contexts <- MCContexts
  Candidates <- MCCandidates
  Lessons = {"address", "request"}
  SourcesOf <- MCSources
  AnchorsOf <- MCAnchors
  LessonText <- MCText
  Checkpoint <- MCCheckpoint
  Modes = {"hint"}
  Version = "v1"
  Generic = {"overview"}
  MaxPrompt = 2
  MaxOutput = 2
  MaxAnswer = 3
  MaxEntries = 2
  Separator = "nul"
  None = None
  Rank <- MCRank
SYMMETRY Symmetry
INVARIANTS CacheIsSound
PROPERTIES AnswerIsCached FallbackYields
CHECK_DEADLOCK FALSE
