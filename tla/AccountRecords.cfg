CONSTANTS
  Holders = {h1}
  Calls = {q1, q2, q3}
  None = None
SPECIFICATION Spec
INVARIANTS DeletionIsComplete OrphansAreOfRaces ExportIsExact
SYMMETRY Symmetry
CHECK_DEADLOCK FALSE
