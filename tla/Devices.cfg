SPECIFICATION Spec
CONSTANTS
  Ids = {d1, d2}
  Requests = {p1, p2}
  AccessTTL = 2
  None = None
  MaxKeys = 3
  MaxTime = 2
SYMMETRY Symmetry
INVARIANTS RotationEndsTokens CurrentTokensWork
PROPERTIES AuditedChangesHappened
CHECK_DEADLOCK FALSE
