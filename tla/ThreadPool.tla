----------------------------- MODULE ThreadPool -----------------------------
(***************************************************************************)
(* The thread pool of llama_core.c: matmul and multihead_attention split   *)
(* their rows or heads into one range per thread, hand each thread its     *)
(* range with two flags, work_ready and work_done, and wait for all of     *)
(* them.  Every store of a flag is a step of its own, in program order.    *)
(*                                                                         *)
(* A job stands for one call that is big enough to be dispatched; its      *)
(* results are abstracted to the number of the job that wrote each row.    *)
(***************************************************************************)
EXTENDS Integers

CONSTANTS
  NumThreads,    \* g_num_threads
  Aligns,        \* what ranges are rounded up to: 16 in matmul, 1 in attention
  MaxRows,       \* bound: the most rows or heads of a call
  MaxJobs        \* bound: the number of calls

ASSUME ThreadsAssumption == NumThreads \in Nat \ {0}
ASSUME JobsAssumption ==
  /\ MaxRows \in Nat /\ MaxJobs \in Nat
  /\ Aligns \subseteq Nat \ {0}

Threads == 0 .. NumThreads - 1
Rows == 0 .. MaxRows - 1

VARIABLES
  pc,          \* the calling thread
  k,           \* its loop counter t
  job,         \* the number of the call, and
  size, align, \* what it computes
  item,        \* thread -> [job, lo, hi], its work item
  work_ready, work_done,
  exit,        \* thread_pool_exit
  pcT,         \* the pool's threads
  out          \* row -> the job that wrote it last

vars == <<pc, k, job, size, align, item, work_ready, work_done, exit, pcT, out>>

-----------------------------------------------------------------------------
(* The partition.                                                          *)

CeilDiv(a, b) == (a + b - 1) \div b

\* rows_per_thread, heads_per_thread.
Chunk(d, a) == CeilDiv(CeilDiv(d, NumThreads), a) * a

\* num_active_threads.
Busy(d, a) == LET m == CeilDiv(d, Chunk(d, a))
              IN IF m > NumThreads THEN NumThreads ELSE m

Lo(d, a, t) == t * Chunk(d, a)
Hi(d, a, t) == LET e == Lo(d, a, t) + Chunk(d, a) IN IF e > d THEN d ELSE e

-----------------------------------------------------------------------------

Init ==
  /\ pc = "idle" /\ k = 0 /\ job = 0 /\ size = 0 /\ align = 1
  /\ item = [t \in Threads |-> [job |-> 0, lo |-> 0, hi |-> 0]]
  /\ work_ready = [t \in Threads |-> FALSE]
  /\ work_done = [t \in Threads |-> FALSE]
  /\ exit = FALSE
  /\ pcT = [t \in Threads |-> "spin"]
  /\ out = [r \in Rows |-> 0]

\* matmul or multihead_attention is called.
Call(d, a) ==
  /\ pc = "idle" /\ job < MaxJobs
  /\ job' = job + 1 /\ size' = d /\ align' = a
  /\ pc' = "fill" /\ k' = 0
  /\ UNCHANGED <<item, work_ready, work_done, exit, pcT, out>>

\* The item and the task type of thread k.
Fill ==
  /\ pc = "fill" /\ k < Busy(size, align)
  /\ item' = [item EXCEPT ![k] = [job |-> job, lo |-> Lo(size, align, k),
                                  hi |-> Hi(size, align, k)]]
  /\ pc' = "clear"
  /\ UNCHANGED <<k, job, size, align, work_ready, work_done, exit, pcT, out>>

\* Mutant: work_done keeps the value of the last call.
ClearDoneNot ==
  /\ pc = "clear"
  /\ pc' = "raise"
  /\ UNCHANGED <<k, job, size, align, item, work_ready, work_done, exit, pcT, out>>

ClearDone ==
  /\ pc = "clear"
  /\ work_done' = [work_done EXCEPT ![k] = FALSE]
  /\ pc' = "raise"
  /\ UNCHANGED <<k, job, size, align, item, work_ready, exit, pcT, out>>

RaiseReady ==
  /\ pc = "raise"
  /\ work_ready' = [work_ready EXCEPT ![k] = TRUE]
  /\ pc' = "fill" /\ k' = k + 1
  /\ UNCHANGED <<job, size, align, item, work_done, exit, pcT, out>>

Dispatched ==
  /\ pc = "fill" /\ k = Busy(size, align)
  /\ pc' = "wait" /\ k' = 0
  /\ UNCHANGED <<job, size, align, item, work_ready, work_done, exit, pcT, out>>

Await ==
  /\ pc = "wait" /\ k < Busy(size, align)
  /\ work_done[k]
  /\ k' = k + 1
  /\ UNCHANGED <<pc, job, size, align, item, work_ready, work_done, exit, pcT, out>>

Return ==
  /\ pc = "wait" /\ k = Busy(size, align)
  /\ pc' = "idle"
  /\ UNCHANGED <<k, job, size, align, item, work_ready, work_done, exit, pcT, out>>

\* shutdown_thread_pool: raise the exit flag, join every thread.
Shutdown ==
  /\ pc = "idle"
  /\ exit' = TRUE /\ pc' = "join"
  /\ UNCHANGED <<k, job, size, align, item, work_ready, work_done, pcT, out>>

Join ==
  /\ pc = "join" /\ \A t \in Threads : pcT[t] = "gone"
  /\ pc' = "stopped"
  /\ UNCHANGED <<k, job, size, align, item, work_ready, work_done, exit, pcT, out>>

Caller == \/ (\E d \in 1 .. MaxRows, a \in Aligns : Call(d, a)) \/ Fill \/ ClearDone \/ RaiseReady \/ Dispatched
          \/ Await \/ Return \/ Shutdown \/ Join

-----------------------------------------------------------------------------
(* universal_worker_thread.                                                *)

\* Both waits end: there is work.
Wake(t) ==
  /\ pcT[t] = "spin" /\ work_ready[t] /\ ~exit
  /\ pcT' = [pcT EXCEPT ![t] = "work"]
  /\ UNCHANGED <<pc, k, job, size, align, item, work_ready, work_done, exit, out>>

Leave(t) ==
  /\ pcT[t] = "spin" /\ exit
  /\ pcT' = [pcT EXCEPT ![t] = "gone"]
  /\ UNCHANGED <<pc, k, job, size, align, item, work_ready, work_done, exit, out>>

Compute(t) ==
  /\ pcT[t] = "work"
  /\ out' = [r \in Rows |-> IF item[t].lo <= r /\ r < item[t].hi THEN item[t].job
                            ELSE out[r]]
  /\ pcT' = [pcT EXCEPT ![t] = "signal"]
  /\ UNCHANGED <<pc, k, job, size, align, item, work_ready, work_done, exit>>

SignalDone(t) ==
  /\ pcT[t] = "signal"
  /\ work_done' = [work_done EXCEPT ![t] = TRUE]
  /\ pcT' = [pcT EXCEPT ![t] = "lower"]
  /\ UNCHANGED <<pc, k, job, size, align, item, work_ready, exit, out>>

LowerReady(t) ==
  /\ pcT[t] = "lower"
  /\ work_ready' = [work_ready EXCEPT ![t] = FALSE]
  /\ pcT' = [pcT EXCEPT ![t] = "spin"]
  /\ UNCHANGED <<pc, k, job, size, align, item, work_done, exit, out>>

Worker(t) == Wake(t) \/ Leave(t) \/ Compute(t) \/ SignalDone(t) \/ LowerReady(t)

Next == Caller \/ \E t \in Threads : Worker(t)

Spec == Init /\ [][Next]_vars

\* The scheduler runs every thread; calls and the shutdown come from outside.
FairSpec ==
  /\ Spec
  /\ WF_vars(Fill \/ ClearDone \/ RaiseReady \/ Dispatched \/ Await \/ Return \/ Join)
  /\ \A t \in Threads : WF_vars(Worker(t))

-----------------------------------------------------------------------------

Pcs == {"idle", "fill", "clear", "raise", "wait", "join", "stopped"}

TypeInv ==
  /\ pc \in Pcs
  /\ k \in Nat /\ job \in Nat /\ size \in 0 .. MaxRows /\ align \in Nat \ {0}
  /\ item \in [Threads -> [job : Nat, lo : Nat, hi : Nat]]
  /\ work_ready \in [Threads -> BOOLEAN] /\ work_done \in [Threads -> BOOLEAN]
  /\ exit \in BOOLEAN
  /\ pcT \in [Threads -> {"spin", "work", "signal", "lower", "gone"}]
  /\ out \in [Rows -> Nat]

\* llama_core.c:301-329, 583-613: when a call returns, every row was computed
\* by this call, although the threads of the last call may still be lowering
\* their flags when the next call raises them.
ResultComplete == pc = "idle" => \A r \in 0 .. size - 1 : out[r] = job

\* llama_core.c:156-159: "Waits for signal, checks task type, executes, signals
\* done": a call that hands out its work returns.
CallReturns == (pc = "fill") ~> (pc = "idle")
=============================================================================
