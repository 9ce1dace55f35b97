\* Three slots, so that a worker can join before, between and behind the others,
\* and a fourth worker that competes for them. SUSPECTED_TIMEOUT and
\* EXPIRED_TIMEOUT are 2 and 4 heartbeat intervals in discovery.h; only their
\* order matters to the transitions.
CONSTANTS
  Workers = {w1, w2, w3, w4}
  NoWorker = NoWorker
  Master = Master
  MAX_WORKERS = 3
  SUSPECTED_TIMEOUT = 0
  EXPIRED_TIMEOUT = 1
  Nonces = {1}
SPECIFICATION ChurnSpec
SYMMETRY WorkerSymmetry
INVARIANTS OneSlotPerWorker JoinsKeepRing
PROPERTIES RestitchCloses ExpiredStaysOut
