------------------------------- MODULE Mailbox -------------------------------
(***************************************************************************)
(* The two mailboxes of distinf.c between a worker's listen thread and its *)
(* inference thread, at the grain of single loads and stores: the          *)
(* assignment, handed over with a flag alone, and the activation, handed   *)
(* over under a mutex.  Session takes both hand-overs as one step.         *)
(*                                                                         *)
(* An assignment is abstracted to its session id and a hop to a pair       *)
(* <<session, seq>>; what a thread copies is copied word by word.          *)
(***************************************************************************)
EXTENDS Integers, Sequences

CONSTANTS Words,         \* words in an assignment or an activation
          MaxSeq,        \* bound: sequence numbers of a session
          MaxAssigns     \* bound: assignments received

ASSUME WordsAssumption == Words \in Nat \ {0}
ASSUME SeqAssumption == MaxSeq \in Nat
ASSUME AssignsAssumption == MaxAssigns \in Nat

Word == 1 .. Words
Sessions == 1 .. MaxAssigns
Hops == Sessions \X (1 .. MaxSeq)

VARIABLES
  have_assignment, assignment,        \* the assignment mailbox
  have_hop, activation, mutex,        \* the activation mailbox
  session, ready,                     \* what the inference thread publishes
  shard,                              \* is a shard resident
  last_seq,                           \* g_last_seq
  lpc, lval, lw,                      \* listen: place, message, words copied
  ipc, as, compute, iw,               \* inference: place, copies, words copied
  acked, taken,                       \* history: assignment acknowledged, copied
  committed, served                   \* history: hops parked, hops computed on

assignVars == <<have_assignment, assignment>>
hopVars == <<have_hop, activation, mutex>>
listenVars == <<last_seq, lpc, lval, lw, acked, committed>>
inferVars == <<session, shard, ipc, as, compute, iw, taken, served>>
mailboxVars == <<assignVars, hopVars, listenVars, inferVars, ready>>

MailboxInit ==
  /\ have_assignment = 0 /\ assignment = [w \in Word |-> 0]
  /\ have_hop = 0 /\ activation = [w \in Word |-> << >>] /\ mutex = 0
  /\ session = 0 /\ ready = 0 /\ shard = FALSE /\ last_seq = 0
  /\ lpc = "idle" /\ lval = 0 /\ lw = 0
  /\ ipc = "idle" /\ as = [w \in Word |-> 0] /\ compute = [w \in Word |-> << >>] /\ iw = 0
  /\ acked = 0 /\ taken = [w \in Word |-> 0]
  /\ committed = << >> /\ served = << >>

-----------------------------------------------------------------------------
\* The listen thread: worker_inference_hook.

\* PROC_ASSIGN_LAYERS from the master, for its next session.
AssignArrives ==
  /\ lpc = "idle" /\ acked < MaxAssigns
  /\ lval' = acked + 1 /\ lw' = 0 /\ lpc' = "assign"
  /\ UNCHANGED <<assignVars, hopVars, inferVars, ready, last_seq, acked, committed>>

AssignWord ==
  /\ lpc = "assign" /\ lw < Words
  /\ assignment' = [assignment EXCEPT ![lw + 1] = lval]
  /\ lw' = lw + 1
  /\ UNCHANGED <<hopVars, inferVars, have_assignment, ready, last_seq, lpc, lval, acked, committed>>

Refuse ==
  /\ lpc = "assign" /\ lw = Words
  /\ ready' = 0 /\ last_seq' = 0 /\ lpc' = "post"
  /\ UNCHANGED <<assignVars, hopVars, inferVars, lval, lw, acked, committed>>

Post ==
  /\ lpc = "post"
  /\ have_assignment' = 1 /\ lpc' = "reply"
  /\ UNCHANGED <<hopVars, inferVars, assignment, ready, last_seq, lval, lw, acked, committed>>

Reply ==
  /\ lpc = "reply"
  /\ acked' = lval /\ lpc' = "idle"
  /\ UNCHANGED <<assignVars, hopVars, inferVars, ready, last_seq, lval, lw, committed>>

\* PROC_INFER_REQ that decodes: a hop of our session, or of any while none was
\* loaded yet.  The number of floats, checked against dim if ready is set at that
\* moment, is taken to be right.  Any other hop is dropped.
HopArrives(h) ==
  /\ lpc = "idle" /\ session \in {0, h[1]}
  /\ lval' = h /\ lw' = 0 /\ lpc' = "check"
  /\ UNCHANGED <<assignVars, hopVars, inferVars, ready, last_seq, acked, committed>>

\* ready is looked at only now; the source is taken to be a neighbour or the
\* master.
CheckSeq ==
  /\ lpc = "check"
  /\ lpc' = IF ready = 1 /\ lval[2] > last_seq THEN "lock" ELSE "idle"
  /\ UNCHANGED <<assignVars, hopVars, inferVars, ready, last_seq, lval, lw, acked, committed>>

\* A mailbox still occupied: the newer hop is dropped.
ListenLock ==
  /\ lpc = "lock" /\ mutex = 0
  /\ mutex' = 1
  /\ lpc' = IF have_hop = 1 THEN "unlock" ELSE "fill"
  /\ UNCHANGED <<assignVars, inferVars, have_hop, activation, ready,
                 last_seq, lval, lw, acked, committed>>

FillWord ==
  /\ lpc = "fill" /\ lw < Words
  /\ activation' = [activation EXCEPT ![lw + 1] = lval]
  /\ lw' = lw + 1
  /\ UNCHANGED <<assignVars, inferVars, have_hop, mutex, ready,
                 last_seq, lpc, lval, acked, committed>>

Commit ==
  /\ lpc = "fill" /\ lw = Words
  /\ last_seq' = lval[2] /\ have_hop' = 1
  /\ committed' = Append(committed, lval)
  /\ lpc' = "unlock"
  /\ UNCHANGED <<assignVars, inferVars, activation, mutex, ready, lval, lw, acked>>

ListenUnlock ==
  /\ lpc = "unlock"
  /\ mutex' = 0 /\ lpc' = "idle"
  /\ UNCHANGED <<assignVars, inferVars, have_hop, activation, ready,
                 last_seq, lval, lw, acked, committed>>

-----------------------------------------------------------------------------
\* The inference thread: inference_thread.

SeeAssignment ==
  /\ ipc = "idle" /\ have_assignment = 1
  /\ ipc' = "copy" /\ iw' = 0
  /\ UNCHANGED <<assignVars, hopVars, listenVars, ready,
                 session, shard, as, compute, taken, served>>

CopyWord ==
  /\ ipc = "copy" /\ iw < Words
  /\ as' = [as EXCEPT ![iw + 1] = assignment[iw + 1]]
  /\ iw' = iw + 1
  /\ UNCHANGED <<assignVars, hopVars, listenVars, ready,
                 session, shard, ipc, compute, taken, served>>

ClearFlag ==
  /\ ipc = "copy" /\ iw = Words
  /\ have_assignment' = 0 /\ taken' = as
  /\ ipc' = "release"
  /\ UNCHANGED <<hopVars, listenVars, assignment, ready, session, shard, as, compute, iw, served>>

\* Mutant: the inference thread does not refuse hops itself.
ReleaseReady ==
  /\ ipc = "release"
  /\ shard' = FALSE /\ ipc' = "load"
  /\ UNCHANGED <<assignVars, hopVars, listenVars, session, as, compute, iw, taken, served, ready>>

\* Stop serving, then shard_release.
ReleaseShard ==
  /\ ipc = "release"
  /\ ready' = 0 /\ shard' = FALSE /\ ipc' = "load"
  /\ UNCHANGED <<assignVars, hopVars, listenVars, session, as, compute, iw, taken, served>>

LoadFails ==
  /\ ipc = "load"
  /\ ipc' = "idle"
  /\ UNCHANGED <<assignVars, hopVars, listenVars, ready,
                 session, shard, as, compute, iw, taken, served>>

Load ==
  /\ ipc = "load"
  /\ session' = as[1] /\ shard' = TRUE /\ ipc' = "ready"
  /\ UNCHANGED <<assignVars, hopVars, listenVars, ready, as, compute, iw, taken, served>>

SetReady ==
  /\ ipc = "ready"
  /\ ready' = 1 /\ ipc' = "idle"
  /\ UNCHANGED <<assignVars, hopVars, listenVars, session, shard, as, compute, iw, taken, served>>

SeeHop ==
  /\ ipc = "idle" /\ have_assignment = 0 /\ have_hop = 1 /\ ready = 1
  /\ ipc' = "lock"
  /\ UNCHANGED <<assignVars, hopVars, listenVars, ready,
                 session, shard, as, compute, iw, taken, served>>

\* The flag is looked at again under the lock.
InferLock ==
  /\ ipc = "lock" /\ mutex = 0
  /\ mutex' = 1 /\ iw' = 0
  /\ ipc' = IF have_hop = 1 THEN "drain" ELSE "unlock"
  /\ UNCHANGED <<assignVars, listenVars, have_hop, activation, ready,
                 session, shard, as, compute, taken, served>>

\* Mutant: the mailbox is given up before it is copied.
DrainWordEarly ==
  /\ ipc = "drain" /\ iw < Words
  /\ compute' = [compute EXCEPT ![iw + 1] = activation[iw + 1]]
  /\ iw' = iw + 1
  /\ have_hop' = 0 /\ mutex' = 0
  /\ UNCHANGED <<assignVars, listenVars, activation, ready, session, shard, as, ipc, taken, served>>

DrainWord ==
  /\ ipc = "drain" /\ iw < Words
  /\ compute' = [compute EXCEPT ![iw + 1] = activation[iw + 1]]
  /\ iw' = iw + 1
  /\ UNCHANGED <<assignVars, hopVars, listenVars, ready, session, shard, as, ipc, taken, served>>

Drained ==
  /\ ipc = "drain" /\ iw = Words
  /\ have_hop' = 0 /\ ipc' = "unlock"
  /\ UNCHANGED <<assignVars, listenVars, activation, mutex, ready,
                 session, shard, as, compute, iw, taken, served>>

InferUnlock ==
  /\ ipc = "unlock"
  /\ mutex' = 0
  /\ ipc' = IF iw = Words THEN "forward" ELSE "idle"
  /\ UNCHANGED <<assignVars, listenVars, have_hop, activation, ready,
                 session, shard, as, compute, iw, taken, served>>

\* shard_forward on the private copy; if it succeeds the hop goes to the next node.
Forward ==
  /\ ipc = "forward"
  /\ served' = Append(served, compute)
  /\ ipc' = "idle"
  /\ UNCHANGED <<assignVars, hopVars, listenVars, ready, session, shard, as, compute, iw, taken>>

-----------------------------------------------------------------------------

MailboxListen ==
  \/ AssignArrives \/ AssignWord \/ Refuse \/ Post \/ Reply
  \/ (\E h \in Hops : HopArrives(h))
  \/ CheckSeq \/ ListenLock \/ FillWord \/ Commit \/ ListenUnlock

Infer ==
  \/ SeeAssignment \/ CopyWord \/ ClearFlag \/ ReleaseShard \/ LoadFails \/ Load \/ SetReady
  \/ SeeHop \/ InferLock \/ DrainWord \/ Drained \/ InferUnlock \/ Forward

MailboxNext == MailboxListen \/ Infer

MailboxSpec == MailboxInit /\ [][MailboxNext]_mailboxVars

-----------------------------------------------------------------------------

Flag == {0, 1}
Value == Hops \cup {<< >>}

MailboxTypeInv ==
  /\ have_hop \in Flag /\ mutex \in Flag
  /\ activation \in [Word -> Value] /\ compute \in [Word -> Value]
  /\ lw \in 0 .. Words /\ iw \in 0 .. Words
  /\ committed \in Seq(Hops) /\ served \in Seq([Word -> Value])
  /\ lpc \in {"idle", "assign", "post", "reply", "check", "lock", "fill", "unlock"}
  /\ ipc \in {"idle", "copy", "release", "load", "ready", "lock", "drain", "unlock", "forward"}
  /\ lpc \in {"check", "lock", "fill"} => lval \in Hops

Filled(h) == [w \in Word |-> h]

\* distinf.c:311-314: "a hop arriving mid-computation can never overwrite the
\* buffer being read": the hops computed on are the hops parked, whole, in their
\* order, each once.
ServedAsCommitted ==
  /\ Len(served) <= Len(committed)
  /\ \A i \in 1 .. Len(served) : served[i] = Filled(committed[i])

\* distinf.c:438-440: a worker whose load failed "stays out of the ring rather
\* than serving a partial shard", although the listen thread writes ready too.
ServesLoaded == ipc \in {"lock", "drain", "unlock", "forward"} => shard

\* distinf.c:457-459 and 625-626: no lock is needed for the assignment, and the
\* reply "acknowledges the assignment": once both threads are done with it, the
\* acknowledged assignment is the one the inference thread took.
AckedIsTaken ==
  lpc = "idle" /\ ipc = "idle" /\ have_assignment = 0 => taken = [w \in Word |-> acked]
=============================================================================
