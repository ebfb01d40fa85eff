SPECIFICATION Spec
CONSTANTS
  Requests = {r1, r2}
  Droppable = {r1, r2}
  Users = {u1, u2}
  Sources = {x}
  Ids = {s1, s2, s3}
  Capacity = 1
  MaxRetries = 1
  Outcomes = {"passed", "timeout", "worker-lost", "cancelled"}
  None = None
SYMMETRY Symmetry
INVARIANTS ResultAuthentic RetryDiscipline QueueIntegrity
PROPERTIES TerminalIsFinal ImplementsLifecycle
CHECK_DEADLOCK FALSE
