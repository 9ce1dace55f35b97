CONSTANTS
  Sizes <- OneFile
  Transfers <- Mixed
  CHUNK_SIZE = 2
  MAX_RANGE = 2
  MAX_RETRANS = 2
  MAX_IDLE_RECVS = 2
  MaxSpins = 4
  RETRANS_STALL_LIMIT = 1
  MAX_RETRY_ROUNDS = 2
  MaxLosses = 1
  MaxDups = 0
  Prompt = FALSE
SPECIFICATION FairSpec
INVARIANTS WindowIntact
PROPERTIES ChunksEnd
CHECK_DEADLOCK FALSE
