-------------------------------- MODULE Ring --------------------------------
(***************************************************************************)
(* The master's worker registry (discovery.c): two-phase registration,     *)
(* soft-state ageing, and the ring pointers that registration stitches     *)
(* incrementally and a generation session re-stitches from scratch.        *)
(*                                                                         *)
(* The master is single-threaded: master_pump takes one datagram, runs its *)
(* handler and then the expiry pass, and that is one step here.  Which     *)
(* call arrives next is left open: any worker may send any call at any     *)
(* time.  Module Discovery adds the workers and the network that decide.   *)
(* A worker's address (ip, port) is identified with its id.                *)
(***************************************************************************)
EXTENDS Integers, FiniteSets

CONSTANTS Workers,             \* worker ids
          NoWorker,            \* worker_id 0: the slot is empty
          Master,              \* the ring's sentinel: the master's address
          MAX_WORKERS,
          SUSPECTED_TIMEOUT,
          EXPIRED_TIMEOUT,
          Nonces               \* what create_probe_data may draw

ASSUME SentinelAssumption ==
  Master # NoWorker /\ {Master, NoWorker} \cap Workers = {}
ASSUME SlotsAssumption == MAX_WORKERS \in Nat \ {0}
ASSUME TimeoutAssumption ==
  /\ SUSPECTED_TIMEOUT \in Nat
  /\ EXPIRED_TIMEOUT \in Nat
  /\ SUSPECTED_TIMEOUT < EXPIRED_TIMEOUT
ASSUME NonceAssumption == Nonces \subseteq Nat \ {0}

Slots == 0 .. MAX_WORKERS - 1
States == {"PENDING", "ACTIVE", "SUSPECTED", "EXPIRED"}
Addresses == Workers \cup {Master, NoWorker}
MaxAge == EXPIRED_TIMEOUT + 1

VARIABLES
  registry,   \* slot -> worker_entry_t; age is now - last_seen_ms
  calm        \* history: no worker was ever suspected or expired

ringVars == <<registry, calm>>

Entries == [id : Workers \cup {NoWorker}, state : States,
            nonce : Nonces \cup {0}, prev : Addresses, next : Addresses,
            age : 0 .. MaxAge]

RingTypeInv == registry \in [Slots -> Entries] /\ calm \in BOOLEAN

RingInit ==
  /\ registry = [s \in Slots |-> [id |-> NoWorker, state |-> "PENDING",
                                  nonce |-> 0, prev |-> NoWorker,
                                  next |-> NoWorker, age |-> 0]]
  /\ calm = TRUE

-----------------------------------------------------------------------------
(* Looking the registry up.                                                *)

Lowest(S) == CHOOSE i \in S : \A j \in S : i <= j
Highest(S) == CHOOSE i \in S : \A j \in S : j <= i

\* registry_find and registry_find_ip_port.
Holding(r, w) == {s \in Slots : r[s].id = w}

\* registry_free_slot.
Free(r) == {s \in Slots : r[s].state = "EXPIRED" \/ r[s].id = NoWorker}

\* The slots discovery_ring_order lists, lowest first.
Active(r) == {s \in Slots : r[s].id # NoWorker /\ r[s].state = "ACTIVE"}

\* find_prev_active_worker walks backwards from slot s and wraps around.
PrevOffsets(r, s) ==
  {o \in 1 .. MAX_WORKERS - 1 :
     (s - o + MAX_WORKERS) % MAX_WORKERS \in Active(r)}
PrevActive(r, s) ==
  (s - Lowest(PrevOffsets(r, s)) + MAX_WORKERS) % MAX_WORKERS

\* Mutant: a suspected worker is not looked at again.
AgedOnce(e) ==
  IF e.id = NoWorker \/ e.state \in {"EXPIRED", "SUSPECTED"} THEN e
  ELSE IF e.age > SUSPECTED_TIMEOUT THEN [e EXCEPT !.state = "SUSPECTED"]
  ELSE e

\* One pass of discovery_expire_workers.
Aged(e) ==
  IF e.id = NoWorker \/ e.state = "EXPIRED" THEN e
  ELSE IF e.age > EXPIRED_TIMEOUT THEN [e EXCEPT !.state = "EXPIRED"]
  ELSE IF e.age > SUSPECTED_TIMEOUT THEN [e EXCEPT !.state = "SUSPECTED"]
  ELSE e

Expired(r) == [s \in Slots |-> Aged(r[s])]

\* discovery_restitch_ring: link the active slots in slot order, both ends to
\* the master.
Below(r, s) == {t \in Active(r) : t < s}
Above(r, s) == {t \in Active(r) : t > s}

\* Mutant: the tail keeps its old next.
RestitchedOpenTail(r) ==
  [s \in Slots |->
     IF s \notin Active(r) THEN r[s]
     ELSE [r[s] EXCEPT
             !.prev = IF Below(r, s) = {} THEN Master
                      ELSE r[Highest(Below(r, s))].id,
             !.next = IF Above(r, s) = {} THEN @
                      ELSE r[Lowest(Above(r, s))].id]]

Restitched(r) ==
  [s \in Slots |->
     IF s \notin Active(r) THEN r[s]
     ELSE [r[s] EXCEPT
             !.prev = IF Below(r, s) = {} THEN Master
                      ELSE r[Highest(Below(r, s))].id,
             !.next = IF Above(r, s) = {} THEN Master
                      ELSE r[Lowest(Above(r, s))].id]]

-----------------------------------------------------------------------------
(* The handlers.  Each ends with the expiry pass over what it left in r.   *)

Pump(r) ==
  /\ registry' = Expired(r)
  /\ calm' = (calm /\ Expired(r) = r)

\* handle_auth_hello, a worker already registered and not expired: the stored
\* probe is sent again.
HelloAgain(w) ==
  /\ \E s \in Holding(registry, w) : registry[s].state # "EXPIRED"
  /\ Pump(registry)

\* Mutant: a returning worker is treated like a new one.
SlotsForNew(r, w) == IF Free(r) # {} THEN {Lowest(Free(r))} ELSE {}

\* The slot of a new or returning worker.
SlotsFor(r, w) == IF Holding(r, w) # {} THEN Holding(r, w)
                  ELSE IF Free(r) # {} THEN {Lowest(Free(r))} ELSE {}

\* handle_auth_hello, a new worker and no slot for it.
HelloRefused(w) ==
  /\ SlotsFor(registry, w) = {}
  /\ Pump(registry)

\* handle_auth_hello, a new or expired worker: its slot becomes PENDING, then a
\* probe is drawn; without entropy (n = 0) the slot keeps its old probe.  The
\* ring pointers are not touched.
HelloNew(w, n) ==
  /\ \A s \in Holding(registry, w) : registry[s].state = "EXPIRED"
  /\ \E s \in SlotsFor(registry, w) :
       Pump([registry EXCEPT ![s].id = w, ![s].age = 0, ![s].state = "PENDING",
                             ![s].nonce = IF n = 0 THEN @ ELSE n])

\* The slot handle_cap_ack accepts n for.
Acked(w, n) == {s \in Holding(registry, w) :
                  registry[s].state = "PENDING" /\ registry[s].nonce = n}

\* handle_cap_ack for an unknown or not PENDING worker, or the wrong nonce.
AckRefused(w, n) ==
  /\ Acked(w, n) = {}
  /\ Pump(registry)

\* handle_cap_ack, first active worker: both neighbours are the master.
AckFirst(w, n) ==
  \E s \in Acked(w, n) :
    /\ PrevOffsets(registry, s) = {}
    /\ Pump([registry EXCEPT ![s].age = 0, ![s].state = "ACTIVE",
                             ![s].prev = Master, ![s].next = Master])

\* Mutant: the predecessor keeps its old next.
AckLinkedOneWay(w, n) ==
  \E s \in Acked(w, n) :
    /\ PrevOffsets(registry, s) # {}
    /\ LET p == PrevActive(registry, s)
       IN Pump([registry EXCEPT ![s].age = 0, ![s].state = "ACTIVE",
                                ![s].prev = registry[p].id,
                                ![s].next = registry[p].next])

\* handle_cap_ack, otherwise: link the worker in behind the nearest active
\* slot p below it.  The successor's prev is not touched.
AckLinked(w, n) ==
  \E s \in Acked(w, n) :
    /\ PrevOffsets(registry, s) # {}
    /\ LET p == PrevActive(registry, s)
       IN Pump([registry EXCEPT ![p].next = w,
                                ![s].age = 0, ![s].state = "ACTIVE",
                                ![s].prev = registry[p].id,
                                ![s].next = registry[p].next])

\* Mutant: a heartbeat revives an expired worker too.
HeartbeatRevivesAll(w) ==
  Pump([s \in Slots |->
          IF s \notin Holding(registry, w) THEN registry[s]
          ELSE [registry[s] EXCEPT
                  !.age = 0,
                  !.state = IF @ = "PENDING" THEN @ ELSE "ACTIVE"]])

\* handle_heartbeat: refresh the age; revive a suspected worker.
Heartbeat(w) ==
  Pump([s \in Slots |->
          IF s \notin Holding(registry, w) THEN registry[s]
          ELSE [registry[s] EXCEPT
                  !.age = 0,
                  !.state = IF @ = "SUSPECTED" THEN "ACTIVE" ELSE @]])

\* master_pump timed out: only the expiry pass.
PumpIdle == Pump(registry)

\* The head of run_generation_session: re-link the ring over the active
\* workers.
Restitch ==
  /\ registry' = Restitched(registry)
  /\ calm' = calm

\* One unit of time passes.  The age of an empty or expired slot is never
\* read, and beyond MaxAge ages are not told apart.
Tick ==
  /\ registry' = [s \in Slots |->
                    IF \/ registry[s].id = NoWorker
                       \/ registry[s].state = "EXPIRED"
                       \/ registry[s].age = MaxAge
                    THEN registry[s]
                    ELSE [registry[s] EXCEPT !.age = @ + 1]]
  /\ calm' = calm

-----------------------------------------------------------------------------

Handler(w) ==
  \/ HelloAgain(w) \/ HelloRefused(w) \/ Heartbeat(w)
  \/ \E n \in Nonces \cup {0} : HelloNew(w, n)
  \/ \E n \in Nonces : AckRefused(w, n) \/ AckFirst(w, n) \/ AckLinked(w, n)

RingNext ==
  \/ \E w \in Workers : Handler(w)
  \/ PumpIdle \/ Restitch \/ Tick

RingSpec == RingInit /\ [][RingNext]_ringVars

-----------------------------------------------------------------------------
(* What the registry promises.                                             *)

\* discovery.c:480-502: a worker holds at most one slot, however often it
\* registers, expires, loses its slot to another worker and comes back.
OneSlotPerWorker ==
  \A s, t \in Slots :
    (registry[s].id = registry[t].id /\ registry[s].id # NoWorker) => s = t

\* The active slots in the given order, linked by next, end at the master.
Chain(order, r) ==
  LET n == Cardinality(Active(r))
  IN /\ {order[i] : i \in 1 .. n} = Active(r)
     /\ \A i \in 1 .. n : r[order[i]].next =
          IF i = n THEN Master ELSE r[order[i + 1]].id

Orders(r) == [1 .. Cardinality(Active(r)) -> Slots]

\* discovery.c:586-630: as long as nobody was lost, joining in any order, with
\* calls repeated and with sessions starting in between, keeps every active
\* worker on one path of next pointers that ends at the master.
JoinsKeepRing == calm => \E order \in Orders(registry) : Chain(order, registry)

\* next and prev are inverse to each other and the ring closes on the master
\* at exactly one slot on either side.
Closed(r) ==
  /\ \A s, t \in Active(r) : r[s].next = r[t].id <=> r[t].prev = r[s].id
  /\ \E head \in Active(r) : \A s \in Active(r) : r[s].prev = Master <=> s = head
  /\ \E tail \in Active(r) : \A s \in Active(r) : r[s].next = Master <=> s = tail

\* discovery.h:251-275: whatever joins, losses and re-registrations did to the
\* pointers before, a session starts on a closed ring.
RestitchCloses ==
  [][registry' = Restitched(registry) /\ Active(registry) # {}
       => Closed(registry')]_ringVars

\* discovery.c:754-801, 660: an expired worker comes back only through
\* AUTH_HELLO: no heartbeat, however late, makes it ACTIVE or SUSPECTED again.
ExpiredStaysOut ==
  [][\A s \in Slots : registry[s].state = "EXPIRED"
       => registry'[s].state \in {"EXPIRED", "PENDING"}]_ringVars

\* discovery.h:272-274: "The order matches registration's incremental stitch".
StitchesAgree ==
  calm => \A s \in Active(registry) :
            registry[s].next = Restitched(registry)[s].next

\* README.md:126: "ring topology stitching that stays consistent across joins
\* and losses".  No active worker is told to forward to itself.
NoSelfLoop == \A s \in Active(registry) : registry[s].next # registry[s].id
=============================================================================
