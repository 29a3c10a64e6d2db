SPECIFICATION Spec
CONSTANTS
  Ids = {d1}
  Requests = {p1}
  AccessTTL = 1
  None = None
  MaxKeys = 3
  MaxTime = 1
INVARIANTS AcceptedTokensHaveTheKey
CHECK_DEADLOCK FALSE
