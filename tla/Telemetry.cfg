SPECIFICATION FairSpec
CONSTANTS
  Clients = {c1}
  Requests = {p1}
  QueueSize = 1
  MaxBatch = 2
  MaxReadings = 3
  MaxLosses = 1
INVARIANTS LossIsTold PublishedReachesStreams LiveReadingsAreStored
PROPERTIES Reconnects RequestsEnd
