SPECIFICATION Spec
CONSTANTS
  Requests = {r1, r2}
  Droppable = {}
  Users = {u1}
  Sources = {x, y}
  Ids = {s1, s2, s3, s4}
  Capacity = 1
  MaxRetries = 1
  Outcomes = {"passed"}
  None = None
SYMMETRY Symmetry
INVARIANT OneActivePerKey
CHECK_DEADLOCK FALSE
