------------------------------- MODULE MCNode -------------------------------
(***************************************************************************)
(* What runs concurrently on one xv6 node, each on its own: the thread pool *)
(* of llama_core.c, and next to it the user programs on their system calls  *)
(* and rpc_call.  part says which of them this behaviour is about.          *)
(***************************************************************************)
EXTENDS ThreadPool, RpcCall

CONSTANTS Few, NPROC, FSSIZE, PGSIZE, PHYS, NOFILE, NINODE, PIPESIZE, TEXT, SZ, Scenarios   \* Userland

VARIABLES part,
          proc, file, inode, pipe, shm, nextpid, scenario

U == INSTANCE Userland

uvars == <<proc, file, inode, pipe, shm, nextpid, scenario>>
all == <<part, vars, uvars, callVars>>
-----------------------------------------------------------------------------
MCInit ==
  /\ part \in {"pool", "programs", "call"}
  /\ Init /\ CallInit
  /\ IF part = "programs" THEN U!Init
     ELSE scenario = "none" /\ proc = << >> /\ file = << >> /\ inode = << >> /\ pipe = << >> /\ shm = << >> /\ nextpid = 0

Pool == part = "pool" /\ Next /\ UNCHANGED <<part, uvars, callVars>>
Programs == part = "programs" /\ U!Next /\ UNCHANGED <<part, vars, callVars>>
Rpc == part = "call" /\ CallNext /\ UNCHANGED <<part, vars, uvars>>

MCNext == Pool \/ Programs \/ Rpc

\* The machine's fairness: as long as some process can run, one does.
MCSpec ==
  /\ MCInit /\ [][MCNext]_all
  /\ []<>(part # "programs" \/ U!Quiescent) \/ []<><<TRUE>>_uvars
-----------------------------------------------------------------------------
\* usertests.c, grind.c, cowtest.c, testshm.c, schedtest.c, stressfs.c, ...: no
\* test fails, in whatever order its processes run.
TestsPass == part = "programs" => U!TestsPass
\* sh.c: the prompt comes when the commands before it are over, and when all is
\* over the files hold what the lines put into them.
LinesRun == part = "programs" => U!PromptAlone /\ U!LinesDone
\* Every program ends and every process is reaped; of grind, which loops for ever
\* (grind.c go, main), every round ends.  forphan and dorphan never end.
Ends ==
  (part = "programs" /\ scenario \notin {"file", "dir"}) ~> IF scenario \in U!Grinds THEN U!RoundsOver ELSE U!Halted
=============================================================================
