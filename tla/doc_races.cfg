SPECIFICATION Spec
CONSTANTS
  w1 = w1
  w2 = w2
  d1 = d1
  c1 = c1
  c2 = c2
  IndexWorkers = {w1, w2}
  DeleteWorkers = {d1}
  Clients = {c1, c2}
  Ops = {"upload", "reindex", "delete"}
  MaxCalls = 3
  MaxRetries = 1
  NumChunks = 1
  DeleteAfter = 2
  FaultKinds = {"store", "late"}
  MaxFaults = 2
INVARIANT IndexingHasTask
PROPERTIES ConsumersKeepCompleted WithdrawnStays
SYMMETRY Symmetry
CHECK_DEADLOCK FALSE
