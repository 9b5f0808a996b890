SPECIFICATION Spec
CONSTANTS
  w1 = w1
  w2 = w2
  c1 = c1
  IndexWorkers = {w1, w2}
  DeleteWorkers = {}
  Clients = {c1}
  Ops = {"upload"}
  MaxCalls = 1
  MaxRetries = 1
  NumChunks = 2
  DeleteAfter = 2
  FaultKinds = {"store", "db", "lookup", "publish", "conn", "crash"}
  MaxFaults = 3
INVARIANTS TypeOK CompletedExact OneExecution AttemptsBounded
SYMMETRY Symmetry
CHECK_DEADLOCK FALSE
