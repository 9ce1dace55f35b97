---------------------------- MODULE SegmentCache ----------------------------
(***************************************************************************)
(* How the processes of one node share the model in user/llama.c: main      *)
(* fetches the weights, then the tokenizer, with fetch_if_not_cached, which *)
(* takes a shared-memory segment of that name or makes one and fills it     *)
(* from the server.  A segment outlives its processes (SHM_PERSIST).        *)
(***************************************************************************)
EXTENDS Integers, Sequences

CONSTANTS Procs, FileChunks,   \* the chunks of a file
          MaxRuns              \* bound: how often llama is started

VARIABLES
  seg,     \* segment -> the chunks in it; none: there is no such segment
  llama,   \* process -> [pc, k: the segment it is about, got: chunks received, how: of each segment]
  left,    \* segments whose fetch was given up
  runs

cacheVars == <<seg, llama, left, runs>>

Segments == <<"llm_weights", "llm_tokenizer">>
Name(p) == Segments[llama[p].k]
FromScratch == [pc |-> "get", k |-> 1, got |-> {}, how |-> << >>]
Exited == [FromScratch EXCEPT !.pc = "exited"]

CacheInit ==
  /\ seg = [s \in {} |-> {}]
  /\ llama = [p \in Procs |-> Exited]
  /\ left = {}
  /\ runs = 0

Run(p) ==
  /\ llama[p].pc = "exited" /\ runs < MaxRuns
  /\ llama' = [llama EXCEPT ![p] = FromScratch]
  /\ runs' = runs + 1
  /\ UNCHANGED <<seg, left>>

\* fetch_if_not_cached returned: on to the next segment, or to the model.
Got(p, how) ==
  llama' = [llama EXCEPT ![p] = [pc |-> IF @.k < Len(Segments) THEN "get" ELSE "run",
                                 k |-> @.k + 1, got |-> {}, how |-> Append(@.how, how)]]

Exit(p) == llama' = [llama EXCEPT ![p] = Exited]

Fetching(s) == \E p \in Procs : llama[p].pc = "fetch" /\ Name(p) = s

\* The segment is there: attached read-only, whatever is in it so far.
Hit(p) ==
  /\ llama[p].pc = "get" /\ Name(p) \in DOMAIN seg
  /\ \/ Got(p, IF Name(p) \in left \/ Fetching(Name(p)) THEN "early" ELSE "hit")
     \/ Exit(p)
  /\ UNCHANGED <<seg, left, runs>>

Miss(p) ==
  /\ llama[p].pc = "get" /\ Name(p) \notin DOMAIN seg
  /\ llama' = [llama EXCEPT ![p].pc = "create"]
  /\ UNCHANGED <<seg, left, runs>>

\* IPC_CREAT, which takes the segment another process has made meanwhile.
Create(p) ==
  /\ llama[p].pc = "create"
  /\ \/ /\ seg' = [s \in DOMAIN seg \cup {Name(p)} |-> IF s \in DOMAIN seg THEN seg[s] ELSE {}]
        /\ llama' = [llama EXCEPT ![p].pc = "fetch"]
     \/ Exit(p) /\ UNCHANGED seg
  /\ UNCHANGED <<left, runs>>

\* llm_fetch_file_into stores a chunk at its place.
ChunkArrives(p, c) ==
  /\ llama[p].pc = "fetch" /\ c \notin llama[p].got
  /\ llama' = [llama EXCEPT ![p].got = @ \cup {c}]
  /\ seg' = [seg EXCEPT ![Name(p)] = @ \cup {c}]
  /\ UNCHANGED <<left, runs>>

FetchDone(p) ==
  /\ llama[p].pc = "fetch" /\ llama[p].got = FileChunks
  /\ Got(p, "fetched")
  /\ UNCHANGED <<seg, left, runs>>

\* Mutant: the result of the fetch is not looked at.
GiveUpNot(p) ==
  /\ llama[p].pc = "fetch"
  /\ left' = left \cup {Name(p)}
  /\ Got(p, "fetched")
  /\ UNCHANGED <<seg, runs>>

\* The transfer fails, or the size is not the one expected; or the process is
\* killed.  The segment stays.
GiveUp(p) ==
  /\ llama[p].pc = "fetch"
  /\ left' = left \cup {Name(p)}
  /\ Exit(p)
  /\ UNCHANGED <<seg, runs>>

Done(p) ==
  /\ llama[p].pc = "run"
  /\ Exit(p)
  /\ UNCHANGED <<seg, left, runs>>

CacheNext == \E p \in Procs :
  \/ Run(p) \/ Hit(p) \/ Miss(p) \/ Create(p) \/ (\E c \in FileChunks : ChunkArrives(p, c)) \/ FetchDone(p) \/ GiveUp(p) \/ Done(p)
CacheSpec == CacheInit /\ [][CacheNext]_cacheVars
-----------------------------------------------------------------------------
Complete(s) == s \in DOMAIN seg /\ seg[s] = FileChunks

\* llama.c:93-95: the model a process runs is whole when it fetched it itself,
\* also into a segment that another fills at the same time, and when it found it
\* at rest, no fetch under way and none given up before.
ModelWhole ==
  \A p \in Procs : llama[p].pc = "run" =>
    \A k \in DOMAIN Segments : llama[p].how[k] \in {"fetched", "hit"} => Complete(Segments[k])

\* llama.c:94-95 "rather than handing back a partially-filled mapping": every
\* segment a process runs on is whole.  A hit during a fetch, or after one that
\* was given up, is not.
EveryHitWhole ==
  \A p \in Procs : llama[p].pc = "run" => \A k \in DOMAIN Segments : Complete(Segments[k])
=============================================================================
