SPECIFICATION Either
CONSTANTS
  Keys = {k1, k2}
  Requests = {r1, r2}
  Commands = 2
  KeepJobs = 1
  MaxJobs = 2
  Clients = {c1}
  MaxLines = 2
INVARIANTS NoTwins UnfinishedIsKept OutcomeIsComplete SuccessIsOfAll EndIsComplete
PROPERTIES EveryJobEnds ImplementsSerialJobs NobodyIsFollowed
