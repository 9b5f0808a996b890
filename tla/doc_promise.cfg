SPECIFICATION FairSpec
CONSTANTS
  w1 = w1
  w2 = w2
  d1 = d1
  c1 = c1
  IndexWorkers = {w1, w2}
  DeleteWorkers = {d1}
  Clients = {c1}
  Ops = {"upload", "delete"}
  MaxCalls = 2
  MaxRetries = 1
  NumChunks = 2
  DeleteAfter = 2
  FaultKinds = {"store", "db", "publish", "crash"}
  MaxFaults = 2
PROPERTIES KeepsPromise DeleteEnds
CHECK_DEADLOCK FALSE
