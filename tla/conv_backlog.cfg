SPECIFICATION FairSpec
CONSTANTS
  r1 = r1
  w1 = w1
  w2 = w2
  Requests = {r1}
  Plain = {}
  Workers = {w1, w2}
  Sizes = {1, 2}
  Trigger = 2
  Keep = 1
  MaxRetries = 1
  MaxLogs = 2
  MaxTasks = 4
  FaultKinds = {"db", "start", "model", "publish", "crash", "late"}
  MaxFaults = 2
PROPERTY BacklogWorkedOff
CHECK_DEADLOCK FALSE
