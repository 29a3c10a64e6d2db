SPECIFICATION Either
CONSTANTS
  one = one
  any = any
  Mock = Mock
  Models = {one, any}
  Unsized = {any}
  Takes <- SmallTakes
  Lengths = {1, 2}
  Requests = {p1, p2}
  TTL = 2
  MaxTime = 3
  Addresses = {a1, a2}
  Threads = {t1, t2}
  Capacity = 2
  Period = 2
  Second = 2
  Crowd = 1
  MaxWait = 1
  MaxClock = 7
INVARIANTS AnswersAreRecent AttemptsAreBounded
PROPERTY RetryAfterIsEnough
SYMMETRY Symmetry
