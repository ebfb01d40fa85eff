SPECIFICATION Spec
CONSTANTS
  Users = {u1, u2}
  Modules = {m1}
  Requests = {r1, r2, r3, r4}
  MaxExchanges = 2
  None = None
SYMMETRY Symmetry
INVARIANTS ExchangesAreKept ClosedStaysClosed SavedIsWritten
PROPERTIES OwnersOnly
CHECK_DEADLOCK FALSE
