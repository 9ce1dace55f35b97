CONSTANTS
  NWorkers = 2
  NLayers = 3
  Steps = 2
  MaxSeq = 2
  INFER_MAX_RETRIES = 0
  RPC_MAX_RETRIES = 1
  MaxRestarts = 1
  MaxRejoins = 0
SPECIFICATION FairSpec
INVARIANTS FinalComplete
PROPERTIES RunEnds
CHECK_DEADLOCK FALSE
