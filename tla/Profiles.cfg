CONSTANTS
  Tasks = {s, t}
  UserPaths = {1, 2}
  Shipped = 3
  MaxCalls = 3
  MaxClock = 1
SPECIFICATION Spec
SYMMETRY Symmetry
INVARIANTS
  NothingSavedIsLost
  ApplyLoadsIt
CHECK_DEADLOCK FALSE
