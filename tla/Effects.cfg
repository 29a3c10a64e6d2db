SPECIFICATION Either
CONSTANTS
  Users = {u1, u2}
  Requests = {p1, p2}
  Chats = {ch1}
  Items = {it1}
  Levels = {"sensors", "cmd", "$SYS"}
  Dollar = {"$SYS"}
  Settings <- SmallSettings
  MaxLevels = 2
  MaxCalls = 2
  Chars <- SmallChars
  Batches <- SmallBatches
  Asks <- SmallAsks
  Moments = {0, 2}
  Milli = 2
  Naive = Naive
  MaxFields = 2
INVARIANTS LogTellsWhatHappened AnswersAreTrue AnswersAreWhole
PROPERTIES DeniedIsNotSent
