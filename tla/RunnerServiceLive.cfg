SPECIFICATION FairSpec
CONSTANTS
  Requests = {r1, r2}
  Droppable = {}
  Users = {u1, u2}
  Sources = {x}
  Ids = {s1, s2, s3}
  Capacity = 1
  MaxRetries = 1
  Outcomes = {"worker-lost"}
  None = None
INVARIANT DeduplicatedUntilFull
PROPERTY EverySubmissionResolves
CHECK_DEADLOCK FALSE
