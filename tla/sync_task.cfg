SPECIFICATION FairSpec
CONSTANTS
  w1 = w1
  w2 = w2
  u1 = u1
  s1 = s1
  Workers = {w1, w2}
  Users = {u1}
  Schedulers = {s1}
  MaxRetries = 1
  DeleteAfter = 2
  MaxCalls = 2
  MaxTasks = 3
  FaultKinds <- MCFaultKinds
  MaxFaults = 1
INVARIANTS TypeOK RetriesLeft OneSync NoTaskDeletesAlone
PROPERTIES FailedStays LateResultDropped SyncEnds
CHECK_DEADLOCK FALSE
