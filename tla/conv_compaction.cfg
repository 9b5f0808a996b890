SPECIFICATION FairSpec
CONSTANTS
  r1 = r1
  r2 = r2
  w1 = w1
  w2 = w2
  p1 = p1
  Requests = {r1, r2}
  Plain = {p1}
  Workers = {w1, w2}
  Sizes = {1, 2}
  Trigger = 2
  Keep = 1
  MaxRetries = 1
  MaxLogs = 3
  MaxTasks = 4
  FaultKinds = {"db", "start", "model", "publish", "conn", "crash", "server", "late", "ttl"}
  MaxFaults = 1
INVARIANTS TypeOK SummaryExact TokensExact TurnSawAll LeaseProtects
PROPERTY CursorForward
SYMMETRY Symmetry
CHECK_DEADLOCK FALSE
