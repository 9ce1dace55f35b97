----------------------------- MODULE Discovery ------------------------------
(***************************************************************************)
(* Worker discovery end to end: the registry of module Ring, the workers   *)
(* that register, heartbeat, are evicted and come back (distinf.c,         *)
(* discovery.c), and the UDP network between them, which loses and         *)
(* reorders datagrams; retransmission duplicates calls.                    *)
(*                                                                         *)
(* A reply matters only to the rpc_call in progress (rpc_call drains every *)
(* other xid), so a CALL carries a flag cur instead of its xid: TRUE while *)
(* the worker that sent it still waits for this xid.  A datagram is        *)
(* delivered or lost before the next Tick.  The rpc_calls the master makes *)
(* inside a handler drain what arrives meanwhile; to its sender that is a  *)
(* lost datagram.  So is a call the rate limiter denies.                   *)
(***************************************************************************)
EXTENDS Ring

CONSTANTS RPC_MAX_RETRIES,   \* transmissions per rpc_call
          NetMax             \* bound: datagrams in flight when a worker sends

ASSUME RetryAssumption == RPC_MAX_RETRIES \in Nat \ {0}
ASSUME NetAssumption == NetMax \in Nat

VARIABLES
  workers,   \* worker -> what its process knows
  net,       \* datagrams in flight
  proven,    \* history: slots whose CAP_ACK was accepted since AUTH_HELLO
  issued     \* history: slots whose nonce was drawn for this registration

vars == <<registry, calm, workers, net, proven, issued>>

Phases == {"down", "hello", "ack", "up", "evicted"}

Processes == [phase : Phases, initial : BOOLEAN, nonce : Nonces \cup {0},
              tries : 0 .. RPC_MAX_RETRIES]

Datagrams ==
  [proc : {"AUTH_HELLO"}, src : Workers, cur : BOOLEAN]
    \cup [proc : {"CAP_ACK"}, src : Workers, cur : BOOLEAN, nonce : Nonces]
    \cup [proc : {"HEARTBEAT"}, src : Workers]
    \cup [proc : {"EVICT"}, dst : Workers]
    \cup [proc : {"HELLO_REPLY"}, dst : Workers, ok : BOOLEAN,
          nonce : Nonces \cup {0}]
    \cup [proc : {"ACK_REPLY"}, dst : Workers, ok : BOOLEAN]

TypeInv ==
  /\ RingTypeInv
  /\ workers \in [Workers -> Processes]
  /\ net \subseteq Datagrams
  /\ proven \subseteq Slots
  /\ issued \subseteq Slots

Init ==
  /\ RingInit
  /\ workers = [w \in Workers |-> [phase |-> "down", initial |-> TRUE,
                                   nonce |-> 0, tries |-> 0]]
  /\ net = {}
  /\ proven = {}
  /\ issued = {}

-----------------------------------------------------------------------------
(* The master: the handlers of module Ring with what they take from the    *)
(* network and send.                                                       *)

\* master_send_evict, for every worker the expiry pass of this step expired.
Evictions ==
  {[proc |-> "EVICT", dst |-> registry[s].id] :
     s \in {t \in Slots : registry[t].state # "EXPIRED"
                          /\ registry'[t].state = "EXPIRED"}}

Exchange(m, reply) ==
  net' = (net \ {m}) \cup (IF m.cur THEN {reply} ELSE {}) \cup Evictions

HelloReply(w, ok, n) ==
  [proc |-> "HELLO_REPLY", dst |-> w, ok |-> ok, nonce |-> n]

AckReply(w, ok) == [proc |-> "ACK_REPLY", dst |-> w, ok |-> ok]

RecvHelloAgain(m) ==
  /\ m.proc = "AUTH_HELLO"
  /\ HelloAgain(m.src)
  /\ \E s \in Holding(registry, m.src) :
       Exchange(m, HelloReply(m.src, TRUE, registry[s].nonce))
  /\ UNCHANGED <<workers, proven, issued>>

RecvHelloRefused(m) ==
  /\ m.proc = "AUTH_HELLO"
  /\ HelloRefused(m.src)
  /\ Exchange(m, HelloReply(m.src, FALSE, 0))
  /\ UNCHANGED <<workers, proven, issued>>

RecvHelloNew(m, n) ==
  /\ m.proc = "AUTH_HELLO"
  /\ HelloNew(m.src, n)
  /\ Exchange(m, HelloReply(m.src, n # 0, n))
  /\ proven' = proven \ SlotsFor(registry, m.src)
  /\ issued' = IF n = 0 THEN issued \ SlotsFor(registry, m.src)
               ELSE issued \cup SlotsFor(registry, m.src)
  /\ UNCHANGED workers

RecvAckRefused(m) ==
  /\ m.proc = "CAP_ACK"
  /\ AckRefused(m.src, m.nonce)
  /\ Exchange(m, AckReply(m.src, FALSE))
  /\ UNCHANGED <<workers, proven, issued>>

RecvAck(m) ==
  /\ m.proc = "CAP_ACK"
  /\ AckFirst(m.src, m.nonce) \/ AckLinked(m.src, m.nonce)
  /\ Exchange(m, AckReply(m.src, TRUE))
  /\ proven' = proven \cup Acked(m.src, m.nonce)
  /\ UNCHANGED <<workers, issued>>

\* The reply to a heartbeat is left out: the worker's listen thread throws
\* every REPLY away.
RecvHeartbeat(m) ==
  /\ m.proc = "HEARTBEAT"
  /\ Heartbeat(m.src)
  /\ net' = (net \ {m}) \cup Evictions
  /\ UNCHANGED <<workers, proven, issued>>

MasterIdle ==
  /\ PumpIdle
  /\ net' = net \cup Evictions
  /\ UNCHANGED <<workers, proven, issued>>

MasterRestitch ==
  /\ Restitch
  /\ UNCHANGED <<workers, net, proven, issued>>

MasterRecv(m) ==
  \/ RecvHelloAgain(m) \/ RecvHelloRefused(m)
  \/ (\E n \in Nonces \cup {0} : RecvHelloNew(m, n))
  \/ RecvAckRefused(m) \/ RecvAck(m) \/ RecvHeartbeat(m)

-----------------------------------------------------------------------------
(* A worker.                                                               *)

IsCall(m, w) == m.proc \in {"AUTH_HELLO", "CAP_ACK"} /\ m.src = w
IsReply(m, w) == m.proc \in {"HELLO_REPLY", "ACK_REPLY"} /\ m.dst = w

\* w waits for a new xid, or for none: what was sent before is out of date.
Retire(w) ==
  {m \in net : ~IsReply(m, w) /\ ~IsCall(m, w)}
    \cup {[m EXCEPT !.cur = FALSE] : m \in {d \in net : IsCall(d, w)}}

Room == Cardinality(net) < NetMax

Hello(w) == [proc |-> "AUTH_HELLO", src |-> w, cur |-> TRUE]
Ack(w, n) == [proc |-> "CAP_ACK", src |-> w, cur |-> TRUE, nonce |-> n]

\* Mutant: the heartbeat thread never looks at needs_reregister.
RegisterAtStart(w) ==
  /\ workers[w].phase = "down"
  /\ Room
  /\ workers' = [workers EXCEPT ![w].phase = "hello", ![w].tries = 1]
  /\ net' = Retire(w) \cup {Hello(w)}
  /\ UNCHANGED <<registry, calm, proven, issued>>

\* discovery_register, up to the first AUTH_HELLO: at the start of run_worker,
\* or from the heartbeat thread of an evicted worker.
Register(w) ==
  /\ workers[w].phase \in {"down", "evicted"}
  /\ Room
  /\ workers' = [workers EXCEPT ![w].phase = "hello", ![w].tries = 1]
  /\ net' = Retire(w) \cup {Hello(w)}
  /\ UNCHANGED <<registry, calm, proven, issued>>

\* rpc_call's attempt timed out and there is another.
Retransmit(w) ==
  /\ workers[w].phase \in {"hello", "ack"}
  /\ workers[w].tries < RPC_MAX_RETRIES
  /\ Room
  /\ workers' = [workers EXCEPT ![w].tries = @ + 1]
  /\ net' = net \cup {IF workers[w].phase = "hello" THEN Hello(w)
                      ELSE Ack(w, workers[w].nonce)}
  /\ UNCHANGED <<registry, calm, proven, issued>>

\* discovery_register failed: run_worker returns and the process ends, but the
\* heartbeat thread of a running worker tries again at the next interval.
Failed(w) ==
  /\ workers' = [workers EXCEPT ![w].phase = IF workers[w].initial THEN "down"
                                             ELSE "evicted",
                                ![w].tries = 0, ![w].nonce = 0]
  /\ net' = Retire(w)
  /\ UNCHANGED <<registry, calm, proven, issued>>

GiveUp(w) ==
  /\ workers[w].phase \in {"hello", "ack"}
  /\ workers[w].tries = RPC_MAX_RETRIES
  /\ Failed(w)

\* The reply is an error, or cap_probe_run cannot back the claim.
Refused(w, m) ==
  /\ IsReply(m, w)
  /\ m.ok => m.proc = "HELLO_REPLY"
  /\ Failed(w)

\* The probe is answered: PROC_CAP_ACK.  A probe of 0 pages, as in a slot that
\* never had one, is refused by cap_probe_run.
SendAck(w, m) ==
  /\ m.proc = "HELLO_REPLY" /\ m.dst = w /\ m.ok
  /\ m.nonce # 0
  /\ workers' = [workers EXCEPT ![w].phase = "ack", ![w].tries = 1,
                                ![w].nonce = m.nonce]
  /\ net' = Retire(w) \cup {Ack(w, m.nonce)}
  /\ UNCHANGED <<registry, calm, proven, issued>>

Registered(w, m) ==
  /\ m.proc = "ACK_REPLY" /\ m.dst = w /\ m.ok
  /\ workers' = [workers EXCEPT ![w].phase = "up", ![w].initial = FALSE,
                                ![w].tries = 0, ![w].nonce = 0]
  /\ net' = Retire(w)
  /\ UNCHANGED <<registry, calm, proven, issued>>

\* Mutant: an evicted worker goes on heartbeating.
SendHeartbeatAlways(w) ==
  /\ workers[w].phase \in {"up", "evicted"}
  /\ Room
  /\ net' = net \cup {[proc |-> "HEARTBEAT", src |-> w]}
  /\ UNCHANGED <<registry, calm, workers, proven, issued>>

\* heartbeat_thread sends a PROC_HEARTBEAT unless it has to re-register.
SendHeartbeat(w) ==
  /\ workers[w].phase = "up"
  /\ Room
  /\ net' = net \cup {[proc |-> "HEARTBEAT", src |-> w]}
  /\ UNCHANGED <<registry, calm, workers, proven, issued>>

\* The listen thread takes an EVICT; while the worker is inside rpc_call the
\* listen thread is parked and rpc_call drains it.
RecvEvict(w, m) ==
  /\ m.proc = "EVICT" /\ m.dst = w
  /\ workers[w].phase # "down"
  /\ workers' = [workers EXCEPT ![w].phase = IF @ = "up" THEN "evicted" ELSE @]
  /\ net' = net \ {m}
  /\ UNCHANGED <<registry, calm, proven, issued>>

WorkerRecv(w, m) ==
  Refused(w, m) \/ SendAck(w, m) \/ Registered(w, m) \/ RecvEvict(w, m)

-----------------------------------------------------------------------------
(* Faults and time.                                                        *)

Lose(m) ==
  /\ net' = net \ {m}
  /\ UNCHANGED <<registry, calm, workers, proven, issued>>

Crash(w) ==
  /\ workers[w].phase # "down"
  /\ workers' = [workers EXCEPT ![w].phase = "down", ![w].initial = TRUE,
                                ![w].tries = 0, ![w].nonce = 0]
  /\ net' = Retire(w)
  /\ UNCHANGED <<registry, calm, proven, issued>>

TimePasses ==
  /\ Tick
  /\ net' = {}
  /\ UNCHANGED <<workers, proven, issued>>

-----------------------------------------------------------------------------

Next ==
  \/ \E m \in net : MasterRecv(m) \/ Lose(m)
  \/ MasterIdle \/ MasterRestitch \/ TimePasses
  \/ \E w \in Workers : \/ Register(w) \/ Retransmit(w) \/ GiveUp(w)
                        \/ SendHeartbeat(w) \/ Crash(w)
                        \/ (\E m \in net : WorkerRecv(w, m))

Spec == Init /\ [][Next]_vars

\* The master's loop always pumps and takes what has arrived, time passes, and
\* a running worker's threads run: it heartbeats, takes what has arrived,
\* registers at the next interval once evicted, and its rpc_calls end.
Fairness ==
  /\ WF_vars(TimePasses) /\ WF_vars(MasterIdle)
  /\ \A w \in Workers :
       /\ WF_vars(\E m \in net : IsCall(m, w) /\ m.cur /\ MasterRecv(m))
       /\ WF_vars(\E m \in net : IsCall(m, w) /\ ~m.cur /\ MasterRecv(m))
       /\ WF_vars(\E m \in net : RecvHeartbeat(m))
       /\ WF_vars(\E m \in net : IsReply(m, w) /\ WorkerRecv(w, m))
       /\ WF_vars(\E m \in net : RecvEvict(w, m))
       /\ WF_vars(SendHeartbeat(w)) /\ WF_vars(Retransmit(w)) /\ WF_vars(GiveUp(w))
       /\ WF_vars(workers[w].phase = "evicted" /\ Register(w))

FairSpec == Spec /\ Fairness

-----------------------------------------------------------------------------

\* discovery.h:13-14, discovery.c:550-581: only a worker whose CAP_ACK was
\* accepted since its last AUTH_HELLO is ever ACTIVE, even through the
\* SUSPECTED -> ACTIVE edge a heartbeat takes and across crashes, restarts and
\* slots that change hands.
ActiveMeansProbed == Active(registry) \subseteq proven

\* discovery.c:754-801: soft state goes away by itself.  A worker that is gone
\* for good, also one the master believes registered because the reply to its
\* CAP_ACK was lost, ends up EXPIRED or without a slot.
DeadWorkerExpires ==
  \A w \in Workers :
    <>[](workers[w].phase = "down")
      => <>[](\A s \in Holding(registry, w) : registry[s].state = "EXPIRED")

\* What can keep a registration from going through: a loss, a timeout of
\* either side while an answer is under way, no entropy, a failed probe.
Disturbed ==
  \/ \E m \in net : Lose(m) /\ (m.proc \in {"AUTH_HELLO", "CAP_ACK"} => m.cur)
                    /\ (m.proc = "EVICT" => workers[m.dst].phase = "up")
  \/ net # {} /\ (TimePasses \/ \E w \in Workers : Retransmit(w) \/ GiveUp(w))
  \/ TimePasses /\ \E w \in Workers : workers[w].phase \in {"hello", "ack"}
  \/ \E m \in net : RecvHelloNew(m, 0)
  \/ \E w \in Workers, m \in net : m.proc = "HELLO_REPLY" /\ m.ok /\ Refused(w, m)

\* distinf.c:248-279: whatever was lost or late before, once the network and
\* the clock behave, an evicted worker gets back in (or dies, or finds its slot
\* taken), although the master refuses it as long as the old entry has not expired.
EvictedComesBack ==
  <>[][~Disturbed]_vars =>
    \A w \in Workers :
      (workers[w].phase = "evicted")
        ~> (workers[w].phase \in {"up", "down"} \/ SlotsFor(registry, w) = {})

\* discovery.c:512-514: a registration is refused rather than completed with a
\* nonce that was not drawn for it ("fail the registration rather than issue a
\* predictable nonce").
NonceDrawnForThis == Active(registry) \subseteq issued

\* distinf.c:227-232: a running worker that the master has expired is told so
\* and re-registers.
ExpiredComesBack ==
  \A w \in Workers :
    (workers[w].phase = "up"
       /\ \E s \in Holding(registry, w) : registry[s].state = "EXPIRED")
      ~> (\/ workers[w].phase = "down"
          \/ \E s \in Holding(registry, w) : registry[s].state = "ACTIVE")
=============================================================================
