SPECIFICATION Spec
CONSTANTS
  Procs = {p1, p2, p3}
  Released = {0, 1, 2, 3, 4, 5, 6}
  OverlapFrom = 4
  MaxStarts = 4
INVARIANTS VersionTellsSchema OneKey
PROPERTIES AppliedInOrder
CHECK_DEADLOCK FALSE
