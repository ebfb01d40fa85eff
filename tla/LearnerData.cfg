SPECIFICATION SpecBoth
CONSTANTS
  Users = {u1}
  Modules = {m1}
  Requests = {r1}
  Calls = {q1, q2}
  MaxExchanges = 2
  None = None
INVARIANT DeletionReachesSessions
CHECK_DEADLOCK FALSE
