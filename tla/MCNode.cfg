SPECIFICATION MCSpec
CONSTANTS
  NumThreads = 3
  MaxRows = 7
  MaxJobs = 2
  Aligns = {1, 2}
  RPC_MAX_RETRIES = 3
  Drains = 2
  Stats = {"SUCCESS", "GARBAGE_ARGS"}
  MaxCalls = 2
  Few = 2
  NPROC = 10
  FSSIZE = 20
  PGSIZE = 4
  PHYS = 100
  NOFILE = 9
  NINODE = 20
  PIPESIZE = 2
  TEXT = 1
  SZ = 8
  Scenarios = {"quick", "orphans", "orphans2", "forks", "slots", "grindfiles", "grindprocs", "grindmany", "grindalone", "cow", "shm", "rr", "mlfq", "stress", "log", "pingpong", "zombie", "forktest", "file", "dir", "list", "pipe", "group", "back", "dirs"}
INVARIANTS ResultComplete TestsPass LinesRun AnswerIsOwn
PROPERTIES Ends
CHECK_DEADLOCK FALSE
