SPECIFICATION Spec
CONSTANTS
  Procs = {p1, p2}
  Released = {3}
  OverlapFrom = 0
  MaxStarts = 2
PROPERTIES AppliedInOrder
CHECK_DEADLOCK FALSE
