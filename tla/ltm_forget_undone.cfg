SPECIFICATION Spec
CONSTANTS
  k = k
  x = x
  d = d
  c1 = c1
  c2 = c2
  v1 = v1
  v2 = v2
  none = none
  p = p
  q = q
  Consolidators = {k}
  Indexers = {x}
  Deleters = {d}
  Clients = {c1, c2}
  Values = {v1}
  NoValue = none
  Conversations = {p}
  PromoteMin = 2
  BatchSize = 2
  MaxCandidates = 1
  Ops = {"remember", "update", "delete"}
  MaxCalls = 3
  MaxLogs = 3
  MaxRows = 2
  MaxVersion = 2
  MaxJobs = 4
  MaxCopies = 1
  FaultKinds = {}
  MaxFaults = 0
PROPERTIES ForgottenIsFinal
CHECK_DEADLOCK FALSE
