SPECIFICATION FairSpec
CONSTANTS
  Chunks <- MCChunks
  Parents <- MCParents
  Parent <- MCParent
  Tokens <- MCTokens
  Configs <- MCConfigs
  Kinds = {"agent", "chat", "stream"}
  Scores = {1, 2}
  Threshold = 2
  Budget = 3
  TopK = 1
  BM25TopK = 2
  RRFK = 60
  MaxQueries = 2
  CandidateLimit = 3
  RerankTopN = 2
  PipeCapacity = 2
  MaxPieces = 2
  MaxTurns = 2
INVARIANTS TypeOK ContextFits AnswerHasGround ShownIsStored
PROPERTIES KeepsPromise EndsClean
CHECK_DEADLOCK FALSE
