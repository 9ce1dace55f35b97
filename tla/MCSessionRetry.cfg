CONSTANTS
  NWorkers = 1
  NLayers = 1
  Steps = 2
  MaxSeq = 1
  INFER_MAX_RETRIES = 1
  RPC_MAX_RETRIES = 2
  MaxRestarts = 0
  MaxRejoins = 1
SPECIFICATION FairSpec
INVARIANTS FinalComplete
CHECK_DEADLOCK FALSE
