\* MAX_WORKERS as in discovery.h; every number of layers up to 40, so that every
\* quotient and remainder of the models at hand (5 to 32 layers) occurs.
CONSTANTS
  MAX_WORKERS = 16
  MaxLayers = 40
  Procs = {1, 2, 3}
  FileChunks = {1, 2}
  MaxRuns = 4
  SLOTS = 3
  BURST = 2
  Peers = {"p", "q", "r"}
  MaxTime = 4
  TextTokens = {5}
  SEQ_LEN = 7
  StepsArgs <- MCStepsArgs
  Prompts <- MCPrompts
  Arrays <- MCArrays
  Keys = {0, 1, 2, 3, 4, 7, 12}
  MORE = 4
  LIMIT = 13
  Requests = {2, 3, 5}
  BLOCK = 6
  LENGTH = 2
  Bytes = {0, 128}
  MaxMessage = 8
  Items <- MCItems
  Size = 16
  MaxItems = 3
SPECIFICATION MCSpec
INVARIANTS CoversExactly RoundTrip CodecFaithful DigestOfMessage BlockAsStandard
  SortThenSearch TextKept SampleAllowed DialogKept ModelWhole BucketsFair HeapSound LineParsed
CHECK_DEADLOCK FALSE
