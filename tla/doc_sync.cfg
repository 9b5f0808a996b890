SPECIFICATION FairSpec
CONSTANTS
  w1 = w1
  d1 = d1
  c1 = c1
  IndexWorkers = {w1}
  DeleteWorkers = {d1}
  Clients = {c1}
  Ops = {"upsert", "missing"}
  MaxCalls = 3
  MaxRetries = 1
  NumChunks = 1
  DeleteAfter = 2
  FaultKinds = {"store", "publish", "client"}
  MaxFaults = 1
PROPERTY DeindexEnds
CHECK_DEADLOCK FALSE
