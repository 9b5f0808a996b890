SPECIFICATION Spec
CONSTANTS
  k = k
  x = x
  d = d
  c1 = c1
  c2 = c2
  v1 = v1
  v2 = v2
  none = none
  p = p
  q = q
  Consolidators = {k}
  Indexers = {x}
  Deleters = {d}
  Clients = {c1, c2}
  Values = {v1, v2}
  NoValue = none
  Conversations = {p, q}
  PromoteMin = 2
  BatchSize = 2
  MaxCandidates = 1
  Ops = {"turn", "remember", "update", "delete", "scope", "recall"}
  MaxCalls = 3
  MaxLogs = 2
  MaxRows = 2
  MaxVersion = 2
  MaxJobs = 3
  MaxCopies = 1
  FaultKinds = {}
  MaxFaults = 0
SYMMETRY Symmetry
INVARIANTS TypeOK PromotedByConversations RestsOnNewEvidence ForgottenLeavesNothing ReadyMeansVector ForgottenNotRecalled
CHECK_DEADLOCK FALSE
