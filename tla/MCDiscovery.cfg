CONSTANTS
  Workers = {w1, w2}
  NoWorker = NoWorker
  Master = Master
  MAX_WORKERS = 1
  SUSPECTED_TIMEOUT = 1
  EXPIRED_TIMEOUT = 2
  RPC_MAX_RETRIES = 2
  Nonces = {1}
  NetMax = 2
SPECIFICATION FairSpec
INVARIANTS ActiveMeansProbed
PROPERTIES DeadWorkerExpires EvictedComesBack
