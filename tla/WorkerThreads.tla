---------------------------- MODULE WorkerThreads ----------------------------
(***************************************************************************)
(* The two threads of a DistInf worker that may call rpc_recv on the       *)
(* worker's one UDP port: the listen thread (discovery_listen_thread) and  *)
(* the heartbeat thread (heartbeat_thread), which re-registers after an    *)
(* eviction and then has to own the port alone.  They coordinate by three  *)
(* volatile flags of run_worker and no lock.                               *)
(*                                                                         *)
(* A datagram is abstracted to what a receiver does with it.  "evict" is   *)
(* the master's PROC_EVICT and a member of Rings its PROC_SET_NEIGHBOR     *)
(* announcing these pointers; "ok" and "err" are REPLYs to the rpc_call in *)
(* progress; "stale" is a REPLY to an earlier one (its xid no longer       *)
(* matches).  Each load and store of a flag is a step of its own.          *)
(***************************************************************************)
EXTENDS Naturals, FiniteSets

CONSTANTS RPC_MAX_RETRIES,   \* transmissions per rpc_call
          Rings,             \* the neighbour pairs the master may announce
          InboxMax           \* datagrams the port holds before it drops

ASSUME RetriesAssumption == RPC_MAX_RETRIES \in Nat \ {0}
ASSUME InboxAssumption == InboxMax \in Nat
ASSUME RingsAssumption == Rings \cap {"evict", "ok", "err", "stale"} = {}

VARIABLES
  needs_reregister,   \* set by the listen thread on PROC_EVICT
  reregistering,      \* set by the heartbeat thread to claim the port
  listen_suspended,   \* set by the listen thread once it is parked
  ring,               \* cur_prev_*, cur_next_*
  pcL,                \* where the listen thread is
  pcH,                \* where the heartbeat thread is
  attempt,            \* rpc_call's loop counter
  asked,              \* the master holds a CALL of the rpc_call in progress
  inbox,              \* datagrams queued on the port
  unanswered          \* history: an eviction was taken in since the last
                      \* registration began

vars == <<needs_reregister, reregistering, listen_suspended, ring, pcL, pcH,
          attempt, asked, inbox, unanswered>>

Datagrams == {"evict", "ok", "err", "stale"} \cup Rings

\* The heartbeat thread is inside rpc_call, waiting in rpc_recv.
Calling == pcH \in {"hello", "ack"}

\* The heartbeat thread is between the end of the wait for the listen
\* thread and the store that gives the port back.
Owning == Calling \/ pcH \in {"adopt", "release"}

TypeInv ==
  /\ needs_reregister \in BOOLEAN
  /\ reregistering \in BOOLEAN
  /\ listen_suspended \in BOOLEAN
  /\ ring \in Rings
  /\ pcL \in {"top", "park", "spin", "resume", "recv"}
  /\ pcH \in {"sleep", "check", "raise", "handoff", "hello", "ack", "adopt",
              "release", "recheck", "beat"}
  /\ attempt \in 0 .. RPC_MAX_RETRIES
  /\ asked \in BOOLEAN
  /\ inbox \subseteq Datagrams
  /\ unanswered \in BOOLEAN

Init ==
  /\ needs_reregister = FALSE
  /\ reregistering = FALSE
  /\ listen_suspended = FALSE
  /\ ring \in Rings
  /\ pcL = "top"
  /\ pcH = "sleep"
  /\ attempt = 0
  /\ asked = FALSE
  /\ inbox = {}
  /\ unanswered = FALSE

-----------------------------------------------------------------------------
(* The listen thread.                                                      *)

\* Mutant: the listen thread receives without looking at the claim.
ListenTopBlind ==
  /\ pcL = "top"
  /\ pcL' = "recv"
  /\ UNCHANGED <<needs_reregister, reregistering, listen_suspended, ring, pcH,
                 attempt, asked, inbox, unanswered>>

\* "if (*a->reregistering)", the check before every receive.
ListenTop ==
  /\ pcL = "top"
  /\ pcL' = IF reregistering THEN "park" ELSE "recv"
  /\ UNCHANGED <<needs_reregister, reregistering, listen_suspended, ring, pcH,
                 attempt, asked, inbox, unanswered>>

ListenPark ==
  /\ pcL = "park"
  /\ listen_suspended' = TRUE
  /\ pcL' = "spin"
  /\ UNCHANGED <<needs_reregister, reregistering, ring, pcH, attempt, asked,
                 inbox, unanswered>>

\* The exit of "while (*a->reregistering) yield()".
ListenLeaveSpin ==
  /\ pcL = "spin"
  /\ ~reregistering
  /\ pcL' = "resume"
  /\ UNCHANGED <<needs_reregister, reregistering, listen_suspended, ring, pcH,
                 attempt, asked, inbox, unanswered>>

ListenResume ==
  /\ pcL = "resume"
  /\ listen_suspended' = FALSE
  /\ pcL' = "top"
  /\ UNCHANGED <<needs_reregister, reregistering, ring, pcH, attempt, asked,
                 inbox, unanswered>>

\* rpc_recv returned RPC_ERR_TIMEOUT (or an undecodable datagram).
ListenTimeout ==
  /\ pcL = "recv"
  /\ pcL' = "top"
  /\ UNCHANGED <<needs_reregister, reregistering, listen_suspended, ring, pcH,
                 attempt, asked, inbox, unanswered>>

\* rpc_recv returned d: an EVICT raises the flag, a SET_NEIGHBOR replaces the
\* ring pointers, a REPLY is thrown away.
ListenRecv(d) ==
  /\ pcL = "recv"
  /\ d \in inbox
  /\ inbox' = inbox \ {d}
  /\ needs_reregister' = (needs_reregister \/ d = "evict")
  /\ unanswered' = (unanswered \/ d = "evict")
  /\ ring' = IF d \in Rings THEN d ELSE ring
  /\ pcL' = "top"
  /\ UNCHANGED <<reregistering, listen_suspended, pcH, attempt, asked>>

-----------------------------------------------------------------------------
(* The heartbeat thread.                                                   *)

\* tick_wait(HEARTBEAT_INTERVAL_TICKS) returned.
HeartbeatWake ==
  /\ pcH = "sleep"
  /\ pcH' = "check"
  /\ UNCHANGED <<needs_reregister, reregistering, listen_suspended, ring, pcL,
                 attempt, asked, inbox, unanswered>>

\* "if (*a->needs_reregister)".
HeartbeatCheck ==
  /\ pcH = "check"
  /\ pcH' = IF needs_reregister THEN "raise" ELSE "beat"
  /\ UNCHANGED <<needs_reregister, reregistering, listen_suspended, ring, pcL,
                 attempt, asked, inbox, unanswered>>

HeartbeatRaise ==
  /\ pcH = "raise"
  /\ reregistering' = TRUE
  /\ pcH' = "handoff"
  /\ UNCHANGED <<needs_reregister, listen_suspended, ring, pcL, attempt, asked,
                 inbox, unanswered>>

\* A fresh xid makes every reply still queued one to an earlier call.
Outdated(box) == IF box \cap {"ok", "err"} = {} THEN box
                 ELSE (box \ {"ok", "err"}) \cup {"stale"}

\* Mutant: the heartbeat thread does not wait for the listen thread to park.
HeartbeatTakeSocketAtOnce ==
  /\ pcH = "handoff"
  /\ pcH' = "hello"
  /\ attempt' = 1
  /\ asked' = TRUE
  /\ inbox' = Outdated(inbox)
  /\ unanswered' = FALSE
  /\ UNCHANGED <<needs_reregister, reregistering, listen_suspended, ring, pcL>>

\* The exit of "while (!*a->listen_suspended) yield()", then discovery_register
\* up to the first transmission of PROC_AUTH_HELLO.
HeartbeatTakeSocket ==
  /\ pcH = "handoff"
  /\ listen_suspended
  /\ pcH' = "hello"
  /\ attempt' = 1
  /\ asked' = TRUE
  /\ inbox' = Outdated(inbox)
  /\ unanswered' = FALSE
  /\ UNCHANGED <<needs_reregister, reregistering, listen_suspended, ring, pcL>>

\* rpc_recv inside rpc_call returned something that cannot answer it: a CALL,
\* or a REPLY with another xid.  Both are drained.
CallDrain(d) ==
  /\ Calling
  /\ d \in inbox \ {"ok", "err"}
  /\ inbox' = inbox \ {d}
  /\ UNCHANGED <<needs_reregister, reregistering, listen_suspended, ring, pcL,
                 pcH, attempt, asked, unanswered>>

\* The attempt's RPC_TIMEOUT_MS ran out: retransmit, or give up.
CallTimeout ==
  /\ Calling
  /\ IF attempt < RPC_MAX_RETRIES
     THEN /\ attempt' = attempt + 1
          /\ UNCHANGED <<pcH, asked>>
     ELSE /\ attempt' = 0
          /\ pcH' = "release"
          /\ asked' = FALSE
  /\ UNCHANGED <<needs_reregister, reregistering, listen_suspended, ring, pcL,
                 inbox, unanswered>>

\* The matching REPLY carries an error, or the capability probe that follows
\* AUTH_HELLO cannot be allocated: discovery_register fails.
CallFail ==
  /\ \/ Calling /\ "err" \in inbox /\ inbox' = inbox \ {"err"}
     \/ pcH = "hello" /\ "ok" \in inbox /\ inbox' = inbox \ {"ok"}
  /\ pcH' = "release"
  /\ attempt' = 0
  /\ asked' = FALSE
  /\ UNCHANGED <<needs_reregister, reregistering, listen_suspended, ring, pcL,
                 unanswered>>

\* AUTH_HELLO was answered and the probe earned: PROC_CAP_ACK goes out.
HelloAnswered ==
  /\ pcH = "hello"
  /\ "ok" \in inbox
  /\ inbox' = Outdated(inbox \ {"ok"})
  /\ pcH' = "ack"
  /\ attempt' = 1
  /\ asked' = TRUE
  /\ UNCHANGED <<needs_reregister, reregistering, listen_suspended, ring, pcL,
                 unanswered>>

\* CAP_ACK was answered: the reply's ring pointers are stored.
AckAnswered ==
  /\ pcH = "ack"
  /\ "ok" \in inbox
  /\ inbox' = inbox \ {"ok"}
  /\ ring' \in Rings
  /\ pcH' = "adopt"
  /\ attempt' = 0
  /\ asked' = FALSE
  /\ UNCHANGED <<needs_reregister, reregistering, listen_suspended, pcL,
                 unanswered>>

HeartbeatAdopt ==
  /\ pcH = "adopt"
  /\ needs_reregister' = FALSE
  /\ pcH' = "release"
  /\ UNCHANGED <<reregistering, listen_suspended, ring, pcL, attempt, asked,
                 inbox, unanswered>>

\* Mutant: the claim on the port is not taken back.
HeartbeatReleaseForgotten ==
  /\ pcH = "release"
  /\ pcH' = "recheck"
  /\ UNCHANGED <<needs_reregister, reregistering, listen_suspended, ring, pcL,
                 attempt, asked, inbox, unanswered>>

HeartbeatRelease ==
  /\ pcH = "release"
  /\ reregistering' = FALSE
  /\ pcH' = "recheck"
  /\ UNCHANGED <<needs_reregister, listen_suspended, ring, pcL, attempt, asked,
                 inbox, unanswered>>

\* Mutant: needs_reregister is cleared once more after the port was given
\* back.
HeartbeatRecheckLateClear ==
  /\ pcH = "recheck"
  /\ needs_reregister' = FALSE
  /\ pcH' = IF needs_reregister THEN "sleep" ELSE "beat"
  /\ UNCHANGED <<reregistering, listen_suspended, ring, pcL, attempt, asked,
                 inbox, unanswered>>

\* "if (*a->needs_reregister) continue".
HeartbeatRecheck ==
  /\ pcH = "recheck"
  /\ pcH' = IF needs_reregister THEN "sleep" ELSE "beat"
  /\ UNCHANGED <<needs_reregister, reregistering, listen_suspended, ring, pcL,
                 attempt, asked, inbox, unanswered>>

\* discovery_heartbeat: one PROC_HEARTBEAT, no reply awaited.
HeartbeatSend ==
  /\ pcH = "beat"
  /\ pcH' = "sleep"
  /\ UNCHANGED <<needs_reregister, reregistering, listen_suspended, ring, pcL,
                 attempt, asked, inbox, unanswered>>

-----------------------------------------------------------------------------
(* The master and the network, as far as this port can tell.  A reply in   *)
(* time answers the call in progress; a late or repeated one is "stale".   *)

Deliver(d) ==
  /\ d \in {"ok", "err"} => asked
  /\ Cardinality(inbox) < InboxMax
  /\ inbox' = inbox \cup {d}
  /\ UNCHANGED <<needs_reregister, reregistering, listen_suspended, ring, pcL,
                 pcH, attempt, asked, unanswered>>

-----------------------------------------------------------------------------

Listen == \/ ListenTop \/ ListenPark \/ ListenLeaveSpin \/ ListenResume
          \/ ListenTimeout \/ (\E d \in Datagrams : ListenRecv(d))

Call == \/ (\E d \in Datagrams : CallDrain(d)) \/ CallTimeout \/ CallFail
        \/ HelloAnswered \/ AckAnswered

Heartbeat == \/ HeartbeatWake \/ HeartbeatCheck \/ HeartbeatRaise
             \/ HeartbeatTakeSocket \/ Call \/ HeartbeatAdopt
             \/ HeartbeatRelease \/ HeartbeatRecheck \/ HeartbeatSend

Next == Listen \/ Heartbeat \/ (\E d \in Datagrams : Deliver(d))

Spec == Init /\ [][Next]_vars

\* Both threads are runnable kernel threads and yield in their spin loops, so
\* each gets to run, and every receive has a timeout.  An rpc_call that drains
\* traffic burns its budget at each datagram, so its timeout cannot be put off
\* for ever.
Fairness == WF_vars(Listen) /\ WF_vars(Heartbeat) /\ WF_vars(CallTimeout)

FairSpec == Spec /\ Fairness

-----------------------------------------------------------------------------
(* What the handshake promises.                                            *)

\* discovery.c:383-390, rpc.c:83-87: a node has exactly one recv-owner.  The
\* listen thread is never in rpc_recv while the heartbeat thread is between
\* taking the port and giving it back, so neither takes the other's datagram
\* and neither writes ring pointers while the other does.
SingleRecvOwner == ~(Owning /\ pcL = "recv")

\* distinf.c:259-274: an eviction is never forgotten.  Once the listen thread
\* has taken an EVICT in, needs_reregister stays set until a registration that
\* began after it.
EvictionNotLost == unanswered => needs_reregister

\* distinf.c:234-237: an eviction leads to a registration attempt; the pause
\* handshake cannot leave both threads waiting for each other.
EvictionLeadsToRegistration == (needs_reregister /\ unanswered) ~> (pcH = "hello")

\* distinf.c:273-274: a parked listen thread gets the port back, once the
\* evictions it reported have been answered by a registration.
ListenerResumes ==
  <>[](~needs_reregister) => ((pcL = "spin") ~> (pcL = "recv"))

-----------------------------------------------------------------------------
(* The inductive invariant behind SingleRecvOwner and EvictionNotLost.     *)

\* reregistering is up exactly from the heartbeat thread's claim to its
\* release.
ClaimedInv == reregistering <=> (Owning \/ pcH = "handoff")

\* listen_suspended is up exactly while the listen thread is parked.
ParkedInv == listen_suspended <=> pcL \in {"spin", "resume"}

\* No eviction is taken in while the heartbeat thread owns the port, so the
\* store that clears needs_reregister clears no eviction it did not answer.
OwnedInv == Owning => ~unanswered

IInv == /\ TypeInv
        /\ ClaimedInv
        /\ ParkedInv
        /\ OwnedInv
        /\ SingleRecvOwner
        /\ EvictionNotLost
=============================================================================
