SPECIFICATION FairSpec
CONSTANTS
  k = k
  x = x
  d = d
  c1 = c1
  v1 = v1
  none = none
  p = p
  Consolidators = {k}
  Indexers = {x}
  Deleters = {d}
  Clients = {c1}
  Values = {v1}
  NoValue = none
  Conversations = {p}
  PromoteMin = 2
  BatchSize = 2
  MaxCandidates = 1
  Ops = {"turn", "remember", "confirm", "forget", "delete", "elapse"}
  MaxCalls = 2
  MaxLogs = 2
  MaxRows = 2
  MaxVersion = 2
  MaxJobs = 3
  MaxCopies = 1
  FaultKinds = {"db", "embed", "vector", "publish", "crash", "late"}
  MaxFaults = 1
PROPERTIES OnlyFailuresOrphan ForgetEnds IndexEnds SignalsWorkedOff
CHECK_DEADLOCK FALSE
