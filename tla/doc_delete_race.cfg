SPECIFICATION Spec
CONSTANTS
  w1 = w1
  d1 = d1
  c1 = c1
  IndexWorkers = {w1}
  DeleteWorkers = {d1}
  Clients = {c1}
  Ops = {"upload", "delete"}
  MaxCalls = 2
  MaxRetries = 1
  NumChunks = 1
  DeleteAfter = 2
  FaultKinds = {"store"}
  MaxFaults = 1
INVARIANT DeletedLeavesNothing
CHECK_DEADLOCK FALSE
