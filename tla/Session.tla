------------------------------- MODULE Session -------------------------------
(***************************************************************************)
(* A generation session of the master over the ring, and its restarts      *)
(* (run_generation_session, master_run_token, run_master), with the        *)
(* workers' side of it: ring pointers, layer assignments, shards and       *)
(* activation hops.                                                        *)
(*                                                                         *)
(* A datagram stays in net until it is received; one that never is was     *)
(* lost, so nothing here assumes delivery.  Control datagrams carry the    *)
(* number of their transmission: a retransmitted call can be received      *)
(* twice.  Epochs are drawn at random in the code; here they are numbered. *)
(* An activation is abstracted to the layer it is due to enter next, which *)
(* is Spoilt once a worker computed on the wrong input or without the      *)
(* keys and values of the earlier positions.                               *)
(***************************************************************************)
EXTENDS Layers, FiniteSets, Sequences

CONSTANTS
  NWorkers,            \* registered workers, numbered by registry slot
  NLayers,             \* n_layers_total
  Steps,               \* tokens to generate
  MaxSeq,              \* positions a shard's KV cache holds
  INFER_MAX_RETRIES,
  RPC_MAX_RETRIES,
  MaxRestarts,         \* max_restarts in run_master
  MaxRejoins           \* bound: re-registrations while a session runs

Workers == 1 .. NWorkers
Master == 0
Spoilt == -1

ASSUME WorkersAssumption == NWorkers \in Nat \ {0}
ASSUME StepsAssumption == Steps \in Nat \ {0} /\ NLayers \in Nat /\ MaxSeq \in Nat
ASSUME BudgetAssumption ==
  /\ INFER_MAX_RETRIES \in Nat /\ MaxRestarts \in Nat /\ MaxRejoins \in Nat
  /\ RPC_MAX_RETRIES \in Nat \ {0}

VARIABLES
  master,    \* the master's driving thread
  reg,       \* the registry: worker -> [state, prev, next]
  worker,    \* worker -> its process
  net,       \* datagrams in flight
  disturbed, \* history: in this session a SET_NEIGHBOR went unanswered or an
             \* old one was applied, an ASSIGN_LAYERS late or twice, or a
             \* worker registered again
  final,     \* history: the activation last committed in this session
  rejoins    \* counts up to MaxRejoins

vars == <<master, reg, worker, net, disturbed, final, rejoins>>

-----------------------------------------------------------------------------

Active == {w \in Workers : reg[w].state = "ACTIVE"}
Below(S, w) == {v \in S : v < w}
Above(S, w) == {v \in S : v > w}
Lowest(S) == CHOOSE v \in S : \A u \in S : v <= u
Highest(S) == CHOOSE v \in S : \A u \in S : u <= v

\* The ring over the workers of S: slot order, both ends at the master.
Before(S, w) == IF Below(S, w) = {} THEN Master ELSE Highest(Below(S, w))
After(S, w) == IF Above(S, w) = {} THEN Master ELSE Lowest(Above(S, w))

\* discovery_restitch_ring.
Relinked ==
  [w \in Workers |->
     IF w \notin Active THEN reg[w]
     ELSE [reg[w] EXCEPT !.prev = Before(Active, w), !.next = After(Active, w)]]

\* find_prev_active_worker: the nearest one below w, wrapping around.
Behind(S, w) == IF Below(S, w) # {} THEN Highest(Below(S, w)) ELSE Highest(S)

\* The slot order of a set of workers.
InOrder(S) == [i \in 1 .. Cardinality(S) |->
                 CHOOSE w \in S : Cardinality(Below(S, w)) = i - 1]

\* master_ring_tail.
Tails == {w \in Active : reg[w].next = Master}

Neighbours(w, r, sess, try) ==
  [proc |-> "SET_NEIGHBOR", dst |-> w, prev |-> r[w].prev, next |-> r[w].next,
   sess |-> sess, try |-> try]

\* Mutant: the end of a range is taken as inclusive.
AssignmentInclusive(w, k, n, sess, try) ==
  [proc |-> "ASSIGN", dst |-> w, sess |-> sess, try |-> try,
   lo |-> Start(NLayers, n, k - 1),
   hi |-> Start(NLayers, n, k - 1) + Count(NLayers, n, k - 1) - 1]

\* discovery_assign_one for the k-th of n workers (k counts from 1 here).
Assignment(w, k, n, sess, try) ==
  [proc |-> "ASSIGN", dst |-> w, sess |-> sess, try |-> try,
   lo |-> Start(NLayers, n, k - 1),
   hi |-> Start(NLayers, n, k - 1) + Count(NLayers, n, k - 1)]

\* The pointers a worker has after registration, when worker late joined last
\* and its predecessor's SET_NEIGHBOR was lost (late = Master: nothing was).
Joined(late, w) ==
  LET S == Workers \ {late}
  IN IF w # late THEN [prev |-> Before(S, w), next |-> After(S, w)]
     ELSE IF S = {} THEN [prev |-> Master, next |-> Master]
     ELSE [prev |-> Behind(S, w), next |-> After(S, Behind(S, w))]

NoFinal == [pos |-> 0, data |-> NLayers]

Init ==
  /\ master = [pc |-> "idle", sess |-> 0, order |-> << >>, k |-> 0, try |-> 0,
               ready |-> 0, failed |-> FALSE, pos |-> 0, attempt |-> 0,
               seq |-> 0, restarts |-> 0]
  /\ reg = [w \in Workers |-> [state |-> "ACTIVE", prev |-> Master, next |-> Master]]
  /\ \E late \in Workers \cup {Master} :
       worker = [w \in Workers |->
                   [prev |-> Joined(late, w).prev, next |-> Joined(late, w).next,
                    asg |-> << >>, load |-> << >>, ready |-> FALSE, session |-> 0,
                    lo |-> 0, hi |-> 0, kv |-> {}, hop |-> << >>, last |-> 0]]
  /\ net = {}
  /\ disturbed = FALSE
  /\ final = NoFinal
  /\ rejoins = 0

-----------------------------------------------------------------------------
(* Setting a session up: run_generation_session down to the wait.          *)

N == Len(master.order)
Current == master.order[master.k]

\* discovery_restitch_ring, a fresh epoch, and the first SET_NEIGHBOR.
Begin ==
  /\ master.pc = "idle"
  /\ IF Active = {}
     THEN /\ master' = [master EXCEPT !.pc = "aborted"]
          /\ UNCHANGED <<reg, net, disturbed, final>>
     ELSE /\ reg' = Relinked
          /\ disturbed' = FALSE
          /\ final' = NoFinal
          /\ master' = [master EXCEPT !.pc = "notify", !.sess = @ + 1,
                          !.order = InOrder(Active), !.k = 1, !.try = 1]
          /\ net' = net \cup {Neighbours(Lowest(Active), Relinked, master.sess + 1, 1)}
  /\ UNCHANGED <<worker, rejoins>>

\* rpc_call's timeout with an attempt left.
Resend ==
  /\ master.pc \in {"notify", "assign"}
  /\ master.try < RPC_MAX_RETRIES
  /\ master' = [master EXCEPT !.try = @ + 1]
  /\ net' = net \cup {IF master.pc = "notify"
                      THEN Neighbours(Current, reg, master.sess, master.try + 1)
                      ELSE Assignment(Current, master.k, N, master.sess, master.try + 1)}
  /\ UNCHANGED <<reg, worker, disturbed, final, rejoins>>

Answer(proc) == [proc |-> proc, src |-> Current, sess |-> master.sess]

\* On to the next worker, or from the neighbours to the assignments.
Notified ==
  IF master.k < N
  THEN /\ master' = [master EXCEPT !.k = @ + 1, !.try = 1]
       /\ net' = net \cup {Neighbours(master.order[master.k + 1], reg, master.sess, 1)}
  ELSE IF Splittable(NLayers, N)
  THEN /\ master' = [master EXCEPT !.pc = "assign", !.k = 1, !.try = 1,
                       !.ready = 0, !.failed = FALSE]
       /\ net' = net \cup {Assignment(master.order[1], 1, N, master.sess, 1)}
  ELSE /\ master' = [master EXCEPT !.pc = "aborted"]
       /\ UNCHANGED net

\* discovery_notify_neighbor returned; its result is not looked at.
NotifyAnswered ==
  /\ master.pc = "notify"
  /\ Answer("NEIGHBOR_OK") \in net
  /\ Notified
  /\ UNCHANGED <<reg, worker, disturbed, final, rejoins>>

NotifyGivenUp ==
  /\ master.pc = "notify"
  /\ master.try = RPC_MAX_RETRIES
  /\ Notified
  /\ disturbed' = TRUE
  /\ UNCHANGED <<reg, worker, final, rejoins>>

\* discovery_assign_one succeeded.
AssignAnswered ==
  /\ master.pc = "assign"
  /\ Answer("ASSIGN_OK") \in net
  /\ IF master.k < N
     THEN /\ master' = [master EXCEPT !.k = @ + 1, !.try = 1]
          /\ net' = net \cup {Assignment(master.order[master.k + 1], master.k + 1, N,
                                         master.sess, 1)}
     ELSE /\ master' = [master EXCEPT !.pc = "wait"]
          /\ UNCHANGED net
  /\ UNCHANGED <<reg, worker, disturbed, final, rejoins>>

AssignGivenUp ==
  /\ master.pc = "assign"
  /\ master.try = RPC_MAX_RETRIES
  /\ master' = [master EXCEPT !.pc = "aborted"]
  /\ UNCHANGED <<reg, worker, net, disturbed, final, rejoins>>

-----------------------------------------------------------------------------
(* Waiting for the shards.                                                 *)

Waiting == master.pc = "wait" /\ master.ready < N /\ ~master.failed

\* master_handle_shard_ready.
ShardReady(m) ==
  /\ Waiting
  /\ m \in net /\ m.proc = "SHARD_READY"
  /\ net' = net \ {m}
  /\ master' = IF m.sess # master.sess THEN master
               ELSE IF m.ok THEN [master EXCEPT !.ready = @ + 1]
               ELSE [master EXCEPT !.failed = TRUE]
  /\ UNCHANGED <<reg, worker, disturbed, final, rejoins>>

\* Mutant: the wait has no deadline.
WaitFailedUntimed ==
  /\ master.pc = "wait"
  /\ master.failed
  /\ master' = [master EXCEPT !.pc = "aborted"]
  /\ UNCHANGED <<reg, worker, net, disturbed, final, rejoins>>

\* A shard failed to load, or SHARD_LOAD_TIMEOUT_TICKS passed.
WaitFailed ==
  /\ master.pc = "wait"
  /\ master.failed \/ master.ready < N
  /\ master' = [master EXCEPT !.pc = "aborted"]
  /\ UNCHANGED <<reg, worker, net, disturbed, final, rejoins>>

Hop(seq, pos) ==
  [proc |-> "INFER", src |-> Master, dst |-> master.order[1], sess |-> master.sess,
   seq |-> seq, pos |-> pos, final |-> FALSE, data |-> 0]

\* All shards are resident: the first token's first attempt.
StartGeneration ==
  /\ master.pc = "wait"
  /\ master.ready >= N /\ ~master.failed
  /\ master' = [master EXCEPT !.pc = "token", !.pos = 0, !.attempt = 0, !.seq = @ + 1]
  /\ net' = net \cup {Hop(master.seq + 1, 0)}
  /\ UNCHANGED <<reg, worker, disturbed, final, rejoins>>

-----------------------------------------------------------------------------
(* Generating.                                                             *)

\* Mutant: any final of this session will do.
FinalArrivesAnySeq(m) ==
  /\ master.pc = "token"
  /\ m \in net /\ m.proc = "INFER" /\ m.dst = Master
  /\ m.sess = master.sess /\ m.final
  /\ Tails # {} /\ m.src = Lowest(Tails)
  /\ final' = [pos |-> master.pos, data |-> IF m.pos = master.pos THEN m.data ELSE Spoilt]
  /\ \/ /\ master' = [master EXCEPT !.pc = "done", !.pos = @ + 1]
        /\ net' = net \ {m}
     \/ /\ master.pos + 1 < Steps
        /\ master' = [master EXCEPT !.pos = @ + 1, !.attempt = 0, !.seq = @ + 1]
        /\ net' = (net \ {m}) \cup {Hop(master.seq + 1, master.pos + 1)}
  /\ UNCHANGED <<reg, worker, disturbed, rejoins>>

\* master_handle_final accepts the activation; the token is classified, and the
\* next one is sent unless this was the last or the model ended the text.
FinalArrives(m) ==
  /\ master.pc = "token"
  /\ m \in net /\ m.proc = "INFER" /\ m.dst = Master
  /\ m.sess = master.sess /\ m.final /\ m.seq = master.seq
  /\ Tails # {} /\ m.src = Lowest(Tails)
  /\ final' = [pos |-> master.pos, data |-> IF m.pos = master.pos THEN m.data ELSE Spoilt]
  /\ \/ /\ master' = [master EXCEPT !.pc = "done", !.pos = @ + 1]
        /\ net' = net \ {m}
     \/ /\ master.pos + 1 < Steps
        /\ master' = [master EXCEPT !.pos = @ + 1, !.attempt = 0, !.seq = @ + 1]
        /\ net' = (net \ {m}) \cup {Hop(master.seq + 1, master.pos + 1)}
  /\ UNCHANGED <<reg, worker, disturbed, rejoins>>

\* INFER_TOKEN_TIMEOUT_MS passed: another attempt with a fresh seq.
TokenRetry ==
  /\ master.pc = "token"
  /\ master.attempt < INFER_MAX_RETRIES
  /\ master' = [master EXCEPT !.attempt = @ + 1, !.seq = @ + 1]
  /\ net' = net \cup {Hop(master.seq + 1, master.pos)}
  /\ UNCHANGED <<reg, worker, disturbed, final, rejoins>>

\* The token is lost: restart over the survivors, or stop after max_restarts.
TokenLost ==
  /\ master.pc = "token"
  /\ master.attempt = INFER_MAX_RETRIES
  /\ master' = IF master.restarts < MaxRestarts
               THEN [master EXCEPT !.pc = "idle", !.restarts = @ + 1]
               ELSE [master EXCEPT !.pc = "exhausted"]
  /\ UNCHANGED <<reg, worker, net, disturbed, final, rejoins>>

-----------------------------------------------------------------------------
(* The registry while the master pumps (module Ring has it in full).       *)

Pumping == master.pc \in {"wait", "token"}

Ageing == {<<"ACTIVE", "SUSPECTED">>, <<"SUSPECTED", "ACTIVE">>, <<"SUSPECTED", "EXPIRED">>}

\* Heartbeats stay away and come back.
Age(w) ==
  /\ Pumping
  /\ \E e \in Ageing : reg[w].state = e[1] /\ reg' = [reg EXCEPT ![w].state = e[2]]
  /\ UNCHANGED <<master, worker, net, disturbed, final, rejoins>>

\* An expired worker registers again (module Discovery has the handshake):
\* handle_cap_ack links it in behind an active one, which is told.  The worker
\* adopts the pointers in the reply if it hears it.  A worker that was
\* restarted has lost its shard.
Rejoin(w, heard, restarted) ==
  /\ Pumping
  /\ reg[w].state = "EXPIRED"
  /\ restarted => heard
  /\ rejoins < MaxRejoins
  /\ rejoins' = rejoins + 1
  /\ disturbed' = TRUE
  /\ IF Active = {}
     THEN /\ reg' = [reg EXCEPT ![w] = [state |-> "ACTIVE", prev |-> Master, next |-> Master]]
          /\ UNCHANGED net
     ELSE LET p == Behind(Active, w)
          IN /\ reg' = [reg EXCEPT ![p].next = w,
                                   ![w] = [state |-> "ACTIVE", prev |-> p,
                                           next |-> reg[p].next]]
             /\ net' = net \cup {Neighbours(p, reg', 0, 1)}
  /\ LET p == worker[w]
         x == [p EXCEPT !.prev = IF heard THEN reg'[w].prev ELSE @,
                        !.next = IF heard THEN reg'[w].next ELSE @,
                        !.asg = IF restarted THEN << >> ELSE @,
                        !.load = IF restarted THEN << >> ELSE @,
                        !.ready = @ /\ ~restarted,
                        !.session = IF restarted THEN 0 ELSE @,
                        !.kv = IF restarted THEN {} ELSE @,
                        !.hop = IF restarted THEN << >> ELSE @,
                        !.last = IF restarted THEN 0 ELSE @]
     IN worker' = [worker EXCEPT ![w] = x]
  /\ UNCHANGED <<master, final>>

-----------------------------------------------------------------------------
(* A worker: the listen thread.                                            *)

\* PROC_SET_NEIGHBOR.
RecvNeighbor(m) ==
  /\ m \in net /\ m.proc = "SET_NEIGHBOR"
  /\ worker' = [worker EXCEPT ![m.dst].prev = m.prev, ![m.dst].next = m.next]
  /\ net' = (net \ {m}) \cup
            (IF m.sess = 0 THEN {}
             ELSE {[proc |-> "NEIGHBOR_OK", src |-> m.dst, sess |-> m.sess]})
  /\ disturbed' = (disturbed \/ m.sess # master.sess)
  /\ UNCHANGED <<master, reg, final, rejoins>>

\* The process has already been given its layers of the session.
Holds(p, sess) == \/ p.session = sess
                  \/ p.load # << >> /\ p.load.sess = sess
                  \/ p.asg # << >> /\ p.asg.sess = sess

\* worker_inference_hook, PROC_ASSIGN_LAYERS.
RecvAssign(m) ==
  /\ m \in net /\ m.proc = "ASSIGN"
  /\ worker' = [worker EXCEPT ![m.dst].asg = [sess |-> m.sess, lo |-> m.lo, hi |-> m.hi],
                              ![m.dst].ready = FALSE, ![m.dst].last = 0]
  /\ net' = (net \ {m}) \cup {[proc |-> "ASSIGN_OK", src |-> m.dst, sess |-> m.sess]}
  /\ disturbed' = (disturbed \/ m.sess # master.sess \/ Holds(worker[m.dst], m.sess))
  /\ UNCHANGED <<master, reg, final, rejoins>>

\* The checks of worker_inference_hook on an activation.
Accepts(w, m) ==
  /\ w.session # 0 => m.sess = w.session
  /\ w.ready
  /\ m.src \in {w.prev, Master}
  /\ m.seq > w.last
  /\ w.hop = << >>

\* worker_inference_hook, PROC_INFER_REQ: into the mailbox.
RecvHop(m) ==
  /\ m \in net /\ m.proc = "INFER" /\ m.dst # Master
  /\ Accepts(worker[m.dst], m)
  /\ worker' = [worker EXCEPT ![m.dst].hop = m, ![m.dst].last = m.seq]
  /\ net' = net \ {m}
  /\ UNCHANGED <<master, reg, disturbed, final, rejoins>>

-----------------------------------------------------------------------------
(* A worker: the inference thread.                                         *)

\* An assignment is taken: stop serving and release the old shard.
TakeAssignment(w) ==
  /\ worker[w].load = << >> /\ worker[w].asg # << >>
  /\ worker' = [worker EXCEPT ![w].asg = << >>, ![w].load = worker[w].asg,
                              ![w].ready = FALSE, ![w].lo = 0, ![w].hi = 0,
                              ![w].kv = {}]
  /\ UNCHANGED <<master, reg, net, disturbed, final, rejoins>>

\* The shard is loaded, or could not be.
Loaded(w, ok) ==
  /\ worker[w].load # << >>
  /\ LET a == worker[w].load
     IN /\ worker' = IF ok
                     THEN [worker EXCEPT ![w].load = << >>, ![w].lo = a.lo, ![w].hi = a.hi,
                                         ![w].session = a.sess, ![w].ready = TRUE]
                     ELSE [worker EXCEPT ![w].load = << >>]
        /\ net' = net \cup {[proc |-> "SHARD_READY", src |-> w, sess |-> a.sess, ok |-> ok]}
  /\ UNCHANGED <<master, reg, disturbed, final, rejoins>>

\* What the shard of process p makes of hop h: correct only on the input that
\* is due, in this session, with every earlier position cached.
Result(p, h) == IF h.data = p.lo /\ h.sess = p.session /\ 0 .. h.pos - 1 \subseteq p.kv
                THEN p.hi ELSE Spoilt

\* A hop is taken from the mailbox, computed and passed on; shard_forward
\* refuses a position beyond the cache, and nothing is passed on.
Serve(w) ==
  /\ worker[w].load = << >> /\ worker[w].asg = << >>
  /\ worker[w].hop # << >> /\ worker[w].ready
  /\ LET p == worker[w]
         h == p.hop
         x == Result(p, h)
     IN IF h.pos >= MaxSeq
        THEN /\ worker' = [worker EXCEPT ![w].hop = << >>]
             /\ UNCHANGED net
        ELSE /\ worker' = [worker EXCEPT ![w].hop = << >>,
                             ![w].kv = IF x = Spoilt THEN @ \ {h.pos} ELSE @ \cup {h.pos}]
             /\ net' = net \cup {[h EXCEPT !.src = w, !.dst = p.next, !.data = x,
                                           !.final = (p.next = Master)]}
  /\ UNCHANGED <<master, reg, disturbed, final, rejoins>>

-----------------------------------------------------------------------------

Setup == \/ Begin \/ Resend \/ NotifyAnswered \/ NotifyGivenUp
         \/ AssignAnswered \/ AssignGivenUp

Generate == \/ WaitFailed \/ StartGeneration \/ TokenRetry \/ TokenLost
            \/ \E m \in net : ShardReady(m) \/ FinalArrives(m)

Listen == \E m \in net : RecvNeighbor(m) \/ RecvAssign(m) \/ RecvHop(m)

Infer == \E w \in Workers : \/ TakeAssignment(w) \/ Serve(w)
                            \/ (\E ok \in BOOLEAN : Loaded(w, ok))

Registry == \E w \in Workers : \/ Age(w)
                               \/ (\E heard, restarted \in BOOLEAN : Rejoin(w, heard, restarted))

Next == Setup \/ Generate \/ Listen \/ Infer \/ Registry

Spec == Init /\ [][Next]_vars

\* The master's thread runs and all its waits are timed.
Fairness == WF_vars(Setup) /\ WF_vars(TokenRetry) /\ WF_vars(TokenLost)
            /\ WF_vars(WaitFailed) /\ WF_vars(StartGeneration)

FairSpec == Spec /\ Fairness

-----------------------------------------------------------------------------

TypeInv ==
  /\ master.pc \in {"idle", "notify", "assign", "wait", "token", "done",
                    "aborted", "exhausted"}
  /\ master.sess \in 0 .. MaxRestarts + 1
  /\ \A w \in Workers : {worker[w].prev, worker[w].next} \subseteq Workers \cup {Master}

\* distinf.c:951-959, 1144-1159: unless a SET_NEIGHBOR of the session went
\* unanswered or the ring was changed under it, an activation the master
\* commits for a position went through every layer once and in order, each
\* worker having computed all earlier positions of this session.
FinalComplete == ~disturbed => final.data = NLayers

\* distinf.c:957-958: "so a mid-ring activation cannot be mistaken for a
\* completed pass".
MidRingNotFinal == final.data = NLayers

\* distinf.c:1157-1159: "a failure or a timeout aborts as -2 rather than
\* generating against a ring that is only partly loaded".
StartsResident ==
  [][master.pc = "wait" /\ master'.pc = "token" =>
       \A k \in 1 .. N : worker[master.order[k]].session = master.sess]_vars

\* distinf.c:1150-1151: "Every survivor is told its neighbours before it is told
\* its layers, so no worker can receive a hop for a ring it has not been
\* informed of".
InformedOfRing ==
  [][\A m \in net : RecvHop(m) /\ m.sess = master.sess =>
       \E k \in 1 .. N :
         /\ master.order[k] = m.dst
         /\ worker[m.dst].prev = IF k = 1 THEN Master ELSE master.order[k - 1]
         /\ worker[m.dst].next = IF k = N THEN Master ELSE master.order[k + 1]]_vars

\* distinf.c:419-421: an assignment "must leave no trace of the range it is
\* replacing": a shard serves only hops of the session it was loaded for.
ServesOwnSession ==
  [][\A w \in Workers : Serve(w) => worker[w].hop.sess = worker[w].session]_vars

\* distinf.c:1137-1140: generation "always restarts ... at the prompt's first
\* token (pos 0) rather than replaying to rebuild worker KV-cache state": within
\* a session no shard computes a position whose predecessors it has not cached.
ServesWithCache ==
  [][\A w \in Workers :
       Serve(w) /\ worker[w].hop.sess = worker[w].session
         => 0 .. worker[w].hop.pos - 1 \subseteq worker[w].kv]_vars

\* README.md:126, distinf.c:1347-1366: whatever is lost, the run comes to an
\* end: it completes, aborts or has used its restarts up.
RunEnds == <>(master.pc \in {"done", "aborted", "exhausted"})
=============================================================================
