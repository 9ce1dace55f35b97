-------------------------- MODULE DiscoveryProofs --------------------------
(***************************************************************************)
(* The registry of module Ring and worker discovery over it (Discovery) for *)
(* any workers, slots, timeouts and nonces.                                 *)
(***************************************************************************)
EXTENDS Discovery, Lemmas

-----------------------------------------------------------------------------
(* Ring: the expiry pass.                                                  *)

\* One entry in the expiry pass: only its state changes, never to ACTIVE or
\* PENDING, and never when it is fresh.
LEMMA AgedEntry ==
  ASSUME NEW e \in Entries
  PROVE /\ Aged(e) \in Entries
        /\ Aged(e).id = e.id /\ Aged(e).age = e.age /\ Aged(e).nonce = e.nonce
        /\ Aged(e).prev = e.prev /\ Aged(e).next = e.next
        /\ Aged(e).state \in {e.state, "SUSPECTED", "EXPIRED"}
        /\ e.state = "EXPIRED" \/ e.age = 0 \/ e.id = NoWorker => Aged(e) = e
  BY TimeoutAssumption DEF Aged, Entries, States

\* An entry with a field stored into is an entry.
LEMMA StoredField ==
  ASSUME NEW e \in Entries
  PROVE /\ \A w \in Workers : [e EXCEPT !.id = w] \in Entries
        /\ \A state \in States : [e EXCEPT !.state = state] \in Entries
        /\ \A n \in Nonces \cup {0} : [e EXCEPT !.nonce = n] \in Entries
        /\ \A a \in Addresses : [e EXCEPT !.prev = a] \in Entries /\ [e EXCEPT !.next = a] \in Entries
        /\ [e EXCEPT !.age = 0] \in Entries
  BY TimeoutAssumption DEF Entries, MaxAge

\* The expiry pass over a registry.
LEMMA ExpiredEntries ==
  ASSUME NEW r \in [Slots -> Entries]
  PROVE /\ Expired(r) \in [Slots -> Entries]
        /\ \A s \in Slots :
             /\ Expired(r)[s].id = r[s].id /\ Expired(r)[s].age = r[s].age
             /\ Expired(r)[s].state \in {r[s].state, "SUSPECTED", "EXPIRED"}
             /\ r[s].state = "EXPIRED" \/ r[s].age = 0 \/ r[s].id = NoWorker => Expired(r)[s] = r[s]
  BY AgedEntry DEF Expired

\* A registry that is pumped keeps its type.
LEMMA PumpType ==
  ASSUME RingTypeInv, NEW r \in [Slots -> Entries], Pump(r)
  PROVE RingTypeInv'
  BY ExpiredEntries DEF Pump, RingTypeInv

\* A nonempty set of slots has a least and a greatest element.
LEMMA LowestOf ==
  ASSUME NEW S, S \subseteq Nat, S # {}
  PROVE Lowest(S) \in S /\ \A j \in S : Lowest(S) <= j
  BY LeastNatural, Zenon DEF Lowest

LEMMA HighestOf ==
  ASSUME NEW S, S \subseteq Slots, S # {}
  PROVE Highest(S) \in S /\ \A j \in S : j <= Highest(S)
<1> DEFINE T == {MAX_WORKERS - s : s \in S}
<1>0. \A s \in S : MAX_WORKERS - s \in Nat
  BY SlotsAssumption DEF Slots
<1>1. T \subseteq Nat /\ T # {}
  BY <1>0
<1>2. PICK n \in T : \A m \in T : n <= m
  BY <1>1, LeastNatural, Zenon
<1>3. PICK i \in S : n = MAX_WORKERS - i
  BY <1>2
<1>4. \A j \in S : n <= MAX_WORKERS - j
  BY <1>2
<1>5. \A j \in S : j <= i
  BY <1>3, <1>4, SlotsAssumption DEF Slots
<1> QED BY <1>5 DEF Highest
-----------------------------------------------------------------------------
(* Ring: the handlers.  Each pumps a registry that is the old one but for a *)
(* slot or two.                                                             *)

\* The slot AUTH_HELLO gives a worker is its own, or a free one if it has none.
LEMMA SlotForNew ==
  ASSUME NEW w, NEW s \in SlotsFor(registry, w)
  PROVE /\ s \in Slots
        /\ s \notin Holding(registry, w) => Holding(registry, w) = {} /\ s \in Free(registry)
<1>1. Free(registry) \subseteq Nat /\ Free(registry) \subseteq Slots
  BY SlotsAssumption DEF Free, Slots
<1> QED BY <1>1, LowestOf DEF SlotsFor, Holding

\* What handle_auth_hello makes of the registry.
Helloed(w, n, s) ==
  [registry EXCEPT ![s].id = w, ![s].age = 0, ![s].state = "PENDING", ![s].nonce = IF n = 0 THEN @ ELSE n]

LEMMA HelloedEntries ==
  ASSUME RingTypeInv, NEW w \in Workers, NEW n \in Nonces \cup {0}, NEW s \in Slots
  PROVE /\ Helloed(w, n, s) \in [Slots -> Entries]
        /\ Helloed(w, n, s)[s].id = w /\ Helloed(w, n, s)[s].state = "PENDING" /\ Helloed(w, n, s)[s].age = 0
        /\ \A t \in Slots \ {s} : Helloed(w, n, s)[t] = registry[t]
<1> DEFINE e == registry[s]
           k == IF n = 0 THEN e.nonce ELSE n
           f == [e EXCEPT !.id = w, !.age = 0, !.state = "PENDING", !.nonce = k]
<1>1. e \in Entries /\ k \in Nonces \cup {0} /\ "PENDING" \in States
  BY DEF RingTypeInv, Entries, States
<1>2. f \in Entries
  <2> HIDE DEF e, k
  <2> QED BY <1>1, StoredField, Zenon
<1>3. f.id = w /\ f.state = "PENDING" /\ f.age = 0
  BY <1>1 DEF Entries
<1>4. Helloed(w, n, s) = [registry EXCEPT ![s] = f]
  BY Zenon DEF Helloed, RingTypeInv
<1> HIDE DEF f
<1> QED BY <1>2, <1>3, <1>4 DEF RingTypeInv

\* The nearest active slot below.
LEMMA PrevActiveSlot ==
  ASSUME NEW s \in Slots, PrevOffsets(registry, s) # {}
  PROVE PrevActive(registry, s) \in Active(registry)
<1>1. PrevOffsets(registry, s) \subseteq Nat
  BY SlotsAssumption DEF PrevOffsets
<1>2. Lowest(PrevOffsets(registry, s)) \in PrevOffsets(registry, s)
  BY <1>1, LowestOf
<1> QED BY <1>2, Zenon DEF PrevActive, PrevOffsets

\* What handle_cap_ack makes of the registry: slot s becomes active, and
\* entries other than it change in next at most.
LEMMA AckedEntries ==
  ASSUME RingTypeInv, NEW w \in Workers, NEW n \in Nonces, AckFirst(w, n) \/ AckLinked(w, n)
  PROVE \E r \in [Slots -> Entries], s \in Acked(w, n) :
          /\ Pump(r)
          /\ r[s].id = w /\ r[s].state = "ACTIVE" /\ r[s].age = 0
          /\ \A t \in Slots \ {s} : r[t].id = registry[t].id /\ r[t].state = registry[t].state /\ r[t].age = registry[t].age
<1>1. CASE AckFirst(w, n)
  <2>1. PICK s \in Acked(w, n) :
          Pump([registry EXCEPT ![s].age = 0, ![s].state = "ACTIVE", ![s].prev = Master, ![s].next = Master])
    BY <1>1, Zenon DEF AckFirst
  <2> DEFINE r == [registry EXCEPT ![s].age = 0, ![s].state = "ACTIVE", ![s].prev = Master, ![s].next = Master]
  <2>2. s \in Slots /\ registry[s].id = w
    BY DEF Acked, Holding
  <2> DEFINE e == registry[s]
             f == [e EXCEPT !.age = 0, !.state = "ACTIVE", !.prev = Master, !.next = Master]
  <2>3. e \in Entries /\ "ACTIVE" \in States /\ Master \in Addresses
    BY <2>2 DEF RingTypeInv, States, Addresses
  <2>4. f \in Entries
    <3> HIDE DEF e
    <3> QED BY <2>3, StoredField, Zenon
  <2>5. f.id = w /\ f.state = "ACTIVE" /\ f.age = 0
    BY <2>2, <2>3 DEF Entries
  <2>6. r = [registry EXCEPT ![s] = f]
    BY <2>2, Zenon DEF RingTypeInv
  <2>7. Pump(r)
    BY <2>1
  <2> HIDE DEF f, r
  <2>8. r \in [Slots -> Entries] /\ r[s] = f /\ \A t \in Slots \ {s} : r[t] = registry[t]
    BY <2>2, <2>4, <2>6 DEF RingTypeInv
  <2> QED BY <2>5, <2>7, <2>8
<1>2. CASE AckLinked(w, n)
  <2>1. PICK s \in Acked(w, n) :
          /\ PrevOffsets(registry, s) # {}
          /\ LET p == PrevActive(registry, s)
             IN Pump([registry EXCEPT ![p].next = w, ![s].age = 0, ![s].state = "ACTIVE",
                                      ![s].prev = registry[p].id, ![s].next = registry[p].next])
    BY <1>2, Zenon DEF AckLinked
  <2> DEFINE p == PrevActive(registry, s)
             r == [registry EXCEPT ![p].next = w, ![s].age = 0, ![s].state = "ACTIVE",
                                   ![s].prev = registry[p].id, ![s].next = registry[p].next]
  <2>2. s \in Slots /\ registry[s].id = w
    BY DEF Acked, Holding
  <2>3. p \in Slots
    BY <2>1, <2>2, PrevActiveSlot DEF Active
  <2> HIDE DEF p
  <2> DEFINE f == [registry[p] EXCEPT !.next = w]
             e == registry[s]
             g == [e EXCEPT !.age = 0, !.state = "ACTIVE", !.prev = registry[p].id, !.next = registry[p].next]
  <2>4. p # s
    BY <2>1, <2>2, PrevActiveSlot DEF p, Active, Acked
  <2>5. /\ registry[p] \in Entries /\ e \in Entries /\ "ACTIVE" \in States
        /\ w \in Addresses /\ registry[p].id \in Addresses /\ registry[p].next \in Addresses
    BY <2>2, <2>3 DEF RingTypeInv, Entries, States, Addresses
  <2>6. f \in Entries /\ f.id = registry[p].id /\ f.state = registry[p].state /\ f.age = registry[p].age
    BY <2>5 DEF Entries
  <2>7. g \in Entries
    <3> HIDE DEF e
    <3> QED BY <2>5, StoredField, Zenon
  <2>8. g.id = w /\ g.state = "ACTIVE" /\ g.age = 0
    BY <2>2, <2>5 DEF Entries
  <2>9. r = [registry EXCEPT ![p] = f, ![s] = g]
    BY <2>2, <2>3, <2>4, Zenon DEF RingTypeInv
  <2>10. Pump(r)
    BY <2>1 DEF p
  <2> HIDE DEF f, g, r
  <2>11. /\ r \in [Slots -> Entries] /\ r[s] = g
         /\ \A t \in Slots \ {s} : r[t].id = registry[t].id /\ r[t].state = registry[t].state /\ r[t].age = registry[t].age
    BY <2>2, <2>3, <2>4, <2>6, <2>7, <2>9 DEF RingTypeInv
  <2> QED BY <2>8, <2>10, <2>11, Zenon
<1> QED BY <1>1, <1>2
-----------------------------------------------------------------------------
(* Ring: a step, slot by slot.                                             *)

\* A slot that the step leaves to the expiry pass.
Ages(s) ==
  /\ registry'[s].id = registry[s].id /\ registry'[s].age = registry[s].age
  /\ registry'[s].state \in {registry[s].state, "SUSPECTED", "EXPIRED"}
  /\ registry[s].state = "EXPIRED" \/ registry[s].age = 0 \/ registry[s].id = NoWorker
       => registry'[s].state = registry[s].state

\* A slot whose age is reset.
Fresh(s, w, state) == registry'[s].id = w /\ registry'[s].state = state /\ registry'[s].age = 0

LEMMA IdleStep ==
  ASSUME RingTypeInv, Pump(registry)
  PROVE RingTypeInv' /\ \A s \in Slots : Ages(s)
<1>1. registry \in [Slots -> Entries] /\ registry' = Expired(registry)
  BY DEF RingTypeInv, Pump
<1> QED BY <1>1, PumpType, ExpiredEntries DEF Ages

LEMMA HelloNewStep ==
  ASSUME RingTypeInv, NEW w \in Workers, NEW n \in Nonces \cup {0}, HelloNew(w, n)
  PROVE /\ RingTypeInv'
        /\ \E s \in SlotsFor(registry, w) : Fresh(s, w, "PENDING") /\ \A t \in Slots \ {s} : Ages(t)
<1>1. PICK s \in SlotsFor(registry, w) : Pump(Helloed(w, n, s))
  BY Zenon DEF HelloNew, Helloed
<1>2. s \in Slots
  BY SlotForNew
<1> DEFINE r == Helloed(w, n, s)
<1>3. /\ r \in [Slots -> Entries] /\ r[s].id = w /\ r[s].state = "PENDING" /\ r[s].age = 0
      /\ \A t \in Slots \ {s} : r[t] = registry[t]
  BY <1>2, HelloedEntries, ZenonT(60)
<1>4. registry' = Expired(r)
  BY <1>1 DEF Pump
<1> HIDE DEF r
<1>5. Fresh(s, w, "PENDING") /\ \A t \in Slots \ {s} : Ages(t)
  BY <1>2, <1>3, <1>4, ExpiredEntries DEF Fresh, Ages
<1>6. RingTypeInv'
  BY <1>1, <1>3, PumpType, Zenon DEF r
<1> QED BY <1>5, <1>6, Zenon

LEMMA AckStep ==
  ASSUME RingTypeInv, NEW w \in Workers, NEW n \in Nonces, AckFirst(w, n) \/ AckLinked(w, n)
  PROVE /\ RingTypeInv'
        /\ \E s \in Acked(w, n) : Fresh(s, w, "ACTIVE") /\ \A t \in Slots \ {s} : Ages(t)
<1>1. PICK r \in [Slots -> Entries], s \in Acked(w, n) :
        /\ Pump(r)
        /\ r[s].id = w /\ r[s].state = "ACTIVE" /\ r[s].age = 0
        /\ \A t \in Slots \ {s} : r[t].id = registry[t].id /\ r[t].state = registry[t].state /\ r[t].age = registry[t].age
  BY AckedEntries
<1>2. s \in Slots
  BY DEF Acked, Holding
<1>3. registry' = Expired(r)
  BY <1>1 DEF Pump
<1>4. Fresh(s, w, "ACTIVE") /\ \A t \in Slots \ {s} : Ages(t)
  BY <1>1, <1>2, <1>3, ExpiredEntries DEF Fresh, Ages
<1> QED BY <1>1, <1>4, PumpType

LEMMA HeartbeatStep ==
  ASSUME RingTypeInv, NEW w \in Workers, Heartbeat(w)
  PROVE /\ RingTypeInv'
        /\ \A s \in Slots \ Holding(registry, w) : Ages(s)
        /\ \A s \in Holding(registry, w) :
             Fresh(s, w, IF registry[s].state = "SUSPECTED" THEN "ACTIVE" ELSE registry[s].state)
<1> DEFINE beat(s) == [registry[s] EXCEPT !.age = 0, !.state = IF @ = "SUSPECTED" THEN "ACTIVE" ELSE @]
           r == [s \in Slots |-> IF s \notin Holding(registry, w) THEN registry[s] ELSE beat(s)]
<1>1. ASSUME NEW s \in Holding(registry, w)
      PROVE /\ beat(s) \in Entries /\ beat(s).id = w /\ beat(s).age = 0
            /\ beat(s).state = IF registry[s].state = "SUSPECTED" THEN "ACTIVE" ELSE registry[s].state
  <2> DEFINE state == IF registry[s].state = "SUSPECTED" THEN "ACTIVE" ELSE registry[s].state
  <2>1. registry[s] \in Entries /\ registry[s].id = w /\ state \in States
    BY <1>1 DEF RingTypeInv, Holding, Entries, States
  <2>2. beat(s) = [[registry[s] EXCEPT !.age = 0] EXCEPT !.state = state]
    BY <2>1 DEF Entries
  <2>3. beat(s) \in Entries
    <3> HIDE DEF state
    <3> QED BY <2>1, <2>2, StoredField, Zenon
  <2> QED BY <2>1, <2>2, <2>3 DEF Entries
<1>2. Pump(r)
  BY Zenon DEF Heartbeat
<1> HIDE DEF beat
<1>3. r \in [Slots -> Entries]
  BY <1>1 DEF RingTypeInv
<1>4. /\ \A s \in Slots \ Holding(registry, w) : r[s] = registry[s]
      /\ \A s \in Holding(registry, w) : s \in Slots /\ r[s] = beat(s)
  BY DEF Holding
<1>5. registry' = Expired(r)
  BY <1>2 DEF Pump
<1> HIDE DEF r
<1>6. \A s \in Slots \ Holding(registry, w) : Ages(s)
  BY <1>3, <1>4, <1>5, ExpiredEntries DEF Ages
<1>7. \A s \in Holding(registry, w) :
         Fresh(s, w, IF registry[s].state = "SUSPECTED" THEN "ACTIVE" ELSE registry[s].state)
  BY <1>1, <1>3, <1>4, <1>5, ExpiredEntries DEF Fresh
<1> QED BY <1>2, <1>3, <1>6, <1>7, PumpType

LEMMA TickStep ==
  ASSUME RingTypeInv, Tick
  PROVE /\ RingTypeInv'
        /\ \A s \in Slots : registry'[s].id = registry[s].id /\ registry'[s].state = registry[s].state
<1>1. ASSUME NEW e \in Entries, e.age # MaxAge
      PROVE [e EXCEPT !.age = @ + 1] \in Entries /\ [e EXCEPT !.age = @ + 1].id = e.id /\ [e EXCEPT !.age = @ + 1].state = e.state
  BY <1>1, TimeoutAssumption DEF Entries, MaxAge
<1>2. ASSUME NEW s \in Slots
      PROVE registry'[s] \in Entries /\ registry'[s].id = registry[s].id /\ registry'[s].state = registry[s].state
  <2>1. registry[s] \in Entries
    BY DEF RingTypeInv
  <2>2. registry'[s] = registry[s] \/ (registry[s].age # MaxAge /\ registry'[s] = [registry[s] EXCEPT !.age = @ + 1])
    BY DEF Tick
  <2> QED BY <1>1, <2>1, <2>2, Zenon
<1> QED BY <1>2 DEF Tick, RingTypeInv

\* An active slot's neighbours in the re-stitched ring.
LEMMA Linked ==
  ASSUME RingTypeInv, NEW s \in Active(registry)
  PROVE LET e == Restitched(registry)[s]
        IN /\ e \in Entries /\ e.id = registry[s].id /\ e.state = registry[s].state /\ e.age = registry[s].age
           /\ e.prev = IF Below(registry, s) = {} THEN Master ELSE registry[Highest(Below(registry, s))].id
           /\ e.next = IF Above(registry, s) = {} THEN Master ELSE registry[Lowest(Above(registry, s))].id
<1> DEFINE prev == IF Below(registry, s) = {} THEN Master ELSE registry[Highest(Below(registry, s))].id
           next == IF Above(registry, s) = {} THEN Master ELSE registry[Lowest(Above(registry, s))].id
<1>1. s \in Slots /\ registry[s] \in Entries
  BY DEF Active, RingTypeInv
<1>2. Below(registry, s) \subseteq Slots /\ Above(registry, s) \subseteq Slots /\ Slots \subseteq Nat
  BY SlotsAssumption DEF Below, Above, Active, Slots
<1>3. prev \in Addresses /\ next \in Addresses
  BY <1>2, HighestOf, LowestOf, Zenon DEF RingTypeInv, Entries, Addresses
<1>4. Restitched(registry)[s] = [registry[s] EXCEPT !.prev = prev, !.next = next]
  BY <1>1 DEF Restitched
<1> HIDE DEF prev, next
<1>5. [registry[s] EXCEPT !.prev = prev, !.next = next] \in Entries
  BY <1>1, <1>3, StoredField, Zenon
<1> QED BY <1>1, <1>4, <1>5 DEF Entries, prev, next

LEMMA RestitchStep ==
  ASSUME RingTypeInv, Restitch
  PROVE /\ RingTypeInv'
        /\ \A s \in Slots : /\ registry'[s].id = registry[s].id /\ registry'[s].state = registry[s].state
                            /\ registry'[s].age = registry[s].age
<1>1. registry' = Restitched(registry) /\ calm' = calm
  BY DEF Restitch
<1>2. ASSUME NEW s \in Slots
      PROVE /\ registry'[s] \in Entries /\ registry'[s].id = registry[s].id
            /\ registry'[s].state = registry[s].state /\ registry'[s].age = registry[s].age
  <2>1. CASE s \in Active(registry)
    BY <1>1, <2>1, Linked
  <2>2. CASE s \notin Active(registry)
    BY <1>1, <2>2, Zenon DEF Restitched, RingTypeInv
  <2> QED BY <2>1, <2>2
<1>3. registry' = [s \in Slots |-> registry'[s]]
  BY <1>1, Zenon DEF Restitched
<1> QED BY <1>1, <1>2, <1>3 DEF RingTypeInv
-----------------------------------------------------------------------------
(* Ring: the theorems.                                                     *)

RingInv == RingTypeInv /\ OneSlotPerWorker

LEMMA RingInvInit == RingInit => RingInv
  BY TimeoutAssumption, SlotsAssumption DEF RingInit, RingInv, RingTypeInv, OneSlotPerWorker, Entries, States, Addresses, MaxAge

\* Slots that keep their worker.
LEMMA SameIds ==
  ASSUME OneSlotPerWorker, \A s \in Slots : registry'[s].id = registry[s].id
  PROVE OneSlotPerWorker'
  BY DEF OneSlotPerWorker

\* One call of a worker, and what it does to the slots.
LEMMA HandlerStep ==
  ASSUME RingTypeInv, NEW w \in Workers, Handler(w)
  PROVE /\ RingTypeInv'
        /\ \/ \A s \in Slots : Ages(s)
           \/ \A s \in Slots :
                \/ Ages(s)
                \/ Fresh(s, registry[s].id, IF registry[s].state = "SUSPECTED" THEN "ACTIVE" ELSE registry[s].state)
           \/ \E s \in SlotsFor(registry, w) :
                /\ \A t \in Holding(registry, w) : registry[t].state = "EXPIRED"
                /\ Fresh(s, w, "PENDING") /\ \A t \in Slots \ {s} : Ages(t)
           \/ \E s \in Holding(registry, w) :
                registry[s].state = "PENDING" /\ Fresh(s, w, "ACTIVE") /\ \A t \in Slots \ {s} : Ages(t)
<1>1. CASE HelloAgain(w) \/ HelloRefused(w) \/ \E n \in Nonces : AckRefused(w, n)
  <2>1. Pump(registry)
    BY <1>1 DEF HelloAgain, HelloRefused, AckRefused
  <2> QED BY <2>1, IdleStep
<1>2. CASE Heartbeat(w)
  <2>1. \A s \in Holding(registry, w) : registry[s].id = w
    BY DEF Holding
  <2> QED BY <1>2, <2>1, HeartbeatStep
<1>3. ASSUME NEW n \in Nonces \cup {0}, HelloNew(w, n)
      PROVE /\ RingTypeInv'
            /\ \E s \in SlotsFor(registry, w) :
                 /\ \A t \in Holding(registry, w) : registry[t].state = "EXPIRED"
                 /\ Fresh(s, w, "PENDING") /\ \A t \in Slots \ {s} : Ages(t)
  <2>1. \A t \in Holding(registry, w) : registry[t].state = "EXPIRED"
    BY <1>3 DEF HelloNew
  <2> QED BY <1>3, <2>1, HelloNewStep
<1>4. ASSUME NEW n \in Nonces, AckFirst(w, n) \/ AckLinked(w, n)
      PROVE /\ RingTypeInv'
            /\ \E s \in Holding(registry, w) :
                 registry[s].state = "PENDING" /\ Fresh(s, w, "ACTIVE") /\ \A t \in Slots \ {s} : Ages(t)
  <2>1. Acked(w, n) \subseteq Holding(registry, w) /\ \A s \in Acked(w, n) : registry[s].state = "PENDING"
    BY DEF Acked
  <2> QED BY <1>4, <2>1, AckStep
<1>5. \/ HelloAgain(w) \/ HelloRefused(w) \/ \E n \in Nonces : AckRefused(w, n)
      \/ Heartbeat(w)
      \/ \E n \in Nonces \cup {0} : HelloNew(w, n)
      \/ \E n \in Nonces : AckFirst(w, n) \/ AckLinked(w, n)
  BY DEF Handler
<1> QED BY <1>1, <1>2, <1>3, <1>4, <1>5

\* A slot that is given away leaves every worker with one slot.
LEMMA GivenAway ==
  ASSUME OneSlotPerWorker, NEW w \in Workers, NEW s \in SlotsFor(registry, w),
         registry'[s].id = w, \A t \in Slots \ {s} : registry'[t].id = registry[t].id
  PROVE OneSlotPerWorker'
<1>1. s \in Slots /\ \A t \in Slots \ {s} : registry[t].id # w
  <2>1. w # NoWorker
    BY SentinelAssumption
  <2> QED BY <2>1, SlotForNew DEF Holding, OneSlotPerWorker
<1> QED BY <1>1 DEF OneSlotPerWorker

LEMMA RingInvStep ==
  ASSUME RingInv, [RingNext]_ringVars
  PROVE RingInv'
<1>1. ASSUME NEW w \in Workers, Handler(w) PROVE RingInv'
  <2>1. CASE \E s \in SlotsFor(registry, w) : Fresh(s, w, "PENDING") /\ \A t \in Slots \ {s} : Ages(t)
    BY <1>1, <2>1, HandlerStep, GivenAway DEF RingInv, Fresh, Ages
  <2>2. CASE \A s \in Slots : registry'[s].id = registry[s].id
    BY <1>1, <2>2, HandlerStep, SameIds DEF RingInv
  <2>3. ASSUME NEW s \in Holding(registry, w), Fresh(s, w, "ACTIVE"), \A t \in Slots \ {s} : Ages(t)
        PROVE \A t \in Slots : registry'[t].id = registry[t].id
    BY <2>3 DEF Holding, Fresh, Ages
  <2> QED BY <1>1, <2>1, <2>2, <2>3, HandlerStep DEF RingInv, Ages, Fresh
<1>2. CASE PumpIdle
  BY <1>2, IdleStep, SameIds DEF PumpIdle, RingInv, Ages
<1>3. CASE Restitch
  BY <1>3, RestitchStep, SameIds DEF RingInv
<1>4. CASE Tick
  BY <1>4, TickStep, SameIds DEF RingInv
<1>5. CASE UNCHANGED ringVars
  BY <1>5 DEF RingInv, RingTypeInv, OneSlotPerWorker, ringVars
<1> QED BY <1>1, <1>2, <1>3, <1>4, <1>5, ZenonT(30) DEF RingNext

LEMMA RingInvariant == RingSpec => []RingInv
  BY RingInvInit, RingInvStep, PTL DEF RingSpec

\* discovery.c:480-502: however often workers register, expire, lose their slots
\* to others and come back, none ever holds two.
THEOREM WorkersHoldOneSlot == RingSpec => []OneSlotPerWorker
<1>1. RingInv => OneSlotPerWorker
  BY DEF RingInv
<1> QED BY <1>1, RingInvariant, PTL

\* discovery.c:660, 754-801: an expired worker is out until it registers again,
\* whatever else arrives.
THEOREM ExpiredUntilHello == RingSpec => ExpiredStaysOut
<1> DEFINE Out == \A s \in Slots : registry[s].state = "EXPIRED" => registry'[s].state \in {"EXPIRED", "PENDING"}
<1>1. RingInv /\ [RingNext]_ringVars => [Out]_ringVars
  <2> SUFFICES ASSUME RingInv, RingNext, NEW s \in Slots, registry[s].state = "EXPIRED"
               PROVE registry'[s].state \in {"EXPIRED", "PENDING"}
    OBVIOUS
  <2>0. Ages(s) => registry'[s].state = "EXPIRED"
    BY DEF Ages
  <2>1. ASSUME NEW w \in Workers, Handler(w) PROVE registry'[s].state \in {"EXPIRED", "PENDING"}
    <3>1. CASE Fresh(s, registry[s].id, IF registry[s].state = "SUSPECTED" THEN "ACTIVE" ELSE registry[s].state)
      BY <3>1 DEF Fresh
    <3>2. CASE \E t \in SlotsFor(registry, w) : Fresh(t, w, "PENDING") /\ \A u \in Slots \ {t} : Ages(u)
      BY <2>0, <3>2 DEF Fresh
    <3>3. CASE \E t \in Holding(registry, w) :
                 registry[t].state = "PENDING" /\ Fresh(t, w, "ACTIVE") /\ \A u \in Slots \ {t} : Ages(u)
      BY <2>0, <3>3
    <3> QED BY <2>0, <2>1, <3>1, <3>2, <3>3, HandlerStep DEF RingInv
  <2>2. CASE PumpIdle
    BY <2>0, <2>2, IdleStep DEF PumpIdle, RingInv
  <2>3. CASE Restitch \/ Tick
    BY <2>3, RestitchStep, TickStep DEF RingInv
  <2> QED BY <2>1, <2>2, <2>3 DEF RingNext
<1> QED BY <1>1, RingInvariant, PTL DEF RingSpec, ExpiredStaysOut

\* The neighbours of an active slot in slot order.
LEMMA Neighbours ==
  ASSUME NEW s \in Active(registry)
  PROVE /\ Above(registry, s) # {} =>
             /\ Lowest(Above(registry, s)) \in Active(registry) /\ s < Lowest(Above(registry, s))
             /\ \A t \in Active(registry) : t > s => Lowest(Above(registry, s)) <= t
        /\ Below(registry, s) # {} =>
             /\ Highest(Below(registry, s)) \in Active(registry) /\ Highest(Below(registry, s)) < s
             /\ \A t \in Active(registry) : t < s => t <= Highest(Below(registry, s))
<1>1. Above(registry, s) \subseteq Nat /\ Below(registry, s) \subseteq Slots
  BY SlotsAssumption DEF Above, Below, Active, Slots
<1>2. ASSUME Above(registry, s) # {}
      PROVE Lowest(Above(registry, s)) \in Above(registry, s) /\ \A t \in Above(registry, s) : Lowest(Above(registry, s)) <= t
  BY <1>1, <1>2, LowestOf
<1>3. ASSUME Below(registry, s) # {}
      PROVE Highest(Below(registry, s)) \in Below(registry, s) /\ \A t \in Below(registry, s) : t <= Highest(Below(registry, s))
  BY <1>1, <1>3, HighestOf
<1> QED BY <1>2, <1>3 DEF Above, Below

\* discovery.h:251-275: the ring a session starts on is closed, whatever joins,
\* losses and re-registrations did to the pointers before.
THEOREM SessionsStartClosed == RingSpec => RestitchCloses
<1> DEFINE Step == registry' = Restitched(registry) /\ Active(registry) # {} => Closed(registry')
<1>1. RingInv => [Step]_ringVars
  <2> SUFFICES ASSUME RingInv, registry' = Restitched(registry), Active(registry) # {}
               PROVE Closed(registry')
    OBVIOUS
  <2> DEFINE A == Active(registry)
             up(s) == Lowest(Above(registry, s))
             dn(s) == Highest(Below(registry, s))
  <2>1. A \subseteq Slots /\ A \subseteq Nat /\ A # {}
    BY SlotsAssumption DEF Active, Slots
  <2>2. \A s \in A : /\ registry'[s].id = registry[s].id
                     /\ registry'[s].prev = IF Below(registry, s) = {} THEN Master ELSE registry[dn(s)].id
                     /\ registry'[s].next = IF Above(registry, s) = {} THEN Master ELSE registry[up(s)].id
    BY Linked DEF RingInv
  <2>3. Active(registry') = A
    <3>1. \A s \in Slots \ A : registry'[s] = registry[s]
      BY Zenon DEF Restitched
    <3>2. \A s \in A : registry'[s].id = registry[s].id /\ registry'[s].state = registry[s].state
      BY Linked, Zenon DEF RingInv
    <3> QED BY <3>1, <3>2 DEF Active
  <2>4. \A s \in A : registry[s].id # Master
    BY SentinelAssumption DEF RingInv, RingTypeInv, Entries, Active
  <2>5. \A s, t \in A : registry[s].id = registry[t].id => s = t
    BY DEF RingInv, OneSlotPerWorker, Active
  <2>6. \A s \in A :
          /\ Above(registry, s) # {} => up(s) \in A /\ s < up(s) /\ \A t \in A : t > s => up(s) <= t
          /\ Below(registry, s) # {} => dn(s) \in A /\ dn(s) < s /\ \A t \in A : t < s => t <= dn(s)
    BY Neighbours
  <2>7. \A s \in A : /\ Above(registry, s) = {} <=> \A t \in A : ~(t > s)
                     /\ Below(registry, s) = {} <=> \A t \in A : ~(t < s)
    BY DEF Above, Below
  <2> HIDE DEF A, up, dn
  <2>8. ASSUME NEW s \in A, NEW t \in A
        PROVE registry'[s].next = registry'[t].id <=> registry'[t].prev = registry'[s].id
    <3>1. registry'[s].next = registry'[t].id <=> Above(registry, s) # {} /\ t = up(s)
      BY <2>2, <2>4, <2>5, <2>6
    <3>2. registry'[t].prev = registry'[s].id <=> Below(registry, t) # {} /\ s = dn(t)
      BY <2>2, <2>4, <2>5, <2>6
    <3>3. ASSUME Above(registry, s) # {}, t = up(s) PROVE Below(registry, t) # {} /\ s = dn(t)
      <4>1. s < t /\ \A u \in A : u > s => t <= u
        BY <3>3, <2>6
      <4>2. Below(registry, t) # {}
        BY <4>1, <2>7
      <4>3. dn(t) \in A /\ dn(t) < t /\ s <= dn(t)
        BY <4>1, <4>2, <2>6
      <4>4. dn(t) > s => t <= dn(t)
        BY <4>1, <4>3
      <4>5. s \in Nat /\ t \in Nat /\ dn(t) \in Nat
        BY <4>3, <2>1, Zenon
      <4> QED BY <4>2, <4>3, <4>4, <4>5
    <3>4. ASSUME Below(registry, t) # {}, s = dn(t) PROVE Above(registry, s) # {} /\ t = up(s)
      <4>1. s < t /\ \A u \in A : u < t => u <= s
        BY <3>4, <2>6
      <4>2. Above(registry, s) # {}
        BY <4>1, <2>1, <2>7
      <4>3. up(s) \in A /\ s < up(s) /\ up(s) <= t
        BY <4>1, <4>2, <2>1, <2>6
      <4>4. up(s) < t => up(s) <= s
        BY <4>1, <4>3
      <4>5. s \in Nat /\ t \in Nat /\ up(s) \in Nat
        BY <4>3, <2>1, Zenon
      <4> QED BY <4>2, <4>3, <4>4, <4>5
    <3> QED BY <3>1, <3>2, <3>3, <3>4
  <2>9. \E head \in A : \A s \in A : registry'[s].prev = Master <=> s = head
    <3>1. Lowest(A) \in A /\ \A s \in A : Lowest(A) <= s
      BY <2>1, LowestOf, Zenon
    <3>2. ASSUME NEW s \in A PROVE registry'[s].prev = Master <=> s = Lowest(A)
      <4>1. registry'[s].prev = Master <=> Below(registry, s) = {}
        BY <2>2, <2>4, <2>6
      <4>2. Below(registry, s) = {} <=> \A t \in A : ~(t < s)
        BY <2>7
      <4>3. s \in Nat /\ Lowest(A) \in Nat
        BY <3>1, <2>1, Zenon
      <4>4. s = Lowest(A) => \A t \in A : ~(t < s)
        <5> SUFFICES ASSUME s = Lowest(A), NEW t \in A PROVE ~(t < s)
          OBVIOUS
        <5>1. t \in Nat
          BY <2>1
        <5> QED BY <3>1, <4>3, <5>1
      <4>5. s # Lowest(A) => Lowest(A) < s
        BY <3>1, <4>3
      <4> QED BY <3>1, <4>1, <4>2, <4>4, <4>5
    <3> QED BY <3>1, <3>2
  <2>10. \E tail \in A : \A s \in A : registry'[s].next = Master <=> s = tail
    <3>1. Highest(A) \in A /\ \A s \in A : s <= Highest(A)
      BY <2>1, HighestOf, Zenon
    <3>2. ASSUME NEW s \in A PROVE registry'[s].next = Master <=> s = Highest(A)
      <4>1. registry'[s].next = Master <=> Above(registry, s) = {}
        BY <2>2, <2>4, <2>6
      <4>2. Above(registry, s) = {} <=> \A t \in A : ~(t > s)
        BY <2>7
      <4>3. s \in Nat /\ Highest(A) \in Nat
        BY <3>1, <2>1, Zenon
      <4>4. s = Highest(A) => \A t \in A : ~(t > s)
        <5> SUFFICES ASSUME s = Highest(A), NEW t \in A PROVE ~(t > s)
          OBVIOUS
        <5>1. t \in Nat
          BY <2>1
        <5> QED BY <3>1, <4>3, <5>1
      <4>5. s # Highest(A) => Highest(A) > s
        BY <3>1, <4>3
      <4> QED BY <3>1, <4>1, <4>2, <4>4, <4>5
    <3> QED BY <3>1, <3>2
  <2> QED BY <2>3, <2>8, <2>9, <2>10 DEF Closed
<1> QED BY <1>1, RingInvariant, PTL DEF RestitchCloses
-----------------------------------------------------------------------------
(* Ring: joins.  While nobody is lost, every call leaves the active slots  *)
(* on one path: most leave the path alone, an accepted CAP_ACK starts it or *)
(* inserts its slot behind the predecessor, a session re-links it in slot  *)
(* order.                                                                  *)

\* No registered worker is suspected or expired.
NoneLost(r) == \A s \in Slots : r[s].state \notin {"SUSPECTED", "EXPIRED"}

OnePath(r) == \E order \in Orders(r) : Chain(order, r)

JoinInv == calm => NoneLost(registry) /\ OnePath(registry)

LEMMA ActiveFinite ==
  ASSUME NEW r
  PROVE /\ Active(r) \in SUBSET Nat /\ Active(r) \subseteq Slots /\ IsFiniteSet(Active(r))
        /\ Cardinality(Active(r)) \in Nat
<1>1. IsFiniteSet(Slots)
  BY SlotsAssumption, FS_Interval DEF Slots
<1>2. Active(r) \in SUBSET Nat /\ Active(r) \subseteq Slots
  BY SlotsAssumption DEF Active, Slots
<1> QED BY <1>1, <1>2, FS_Subset, FS_CardinalityType

\* A registry that agrees on the active slots, their workers and their next
\* pointers has the same path.
LEMMA SamePath ==
  ASSUME NEW q, NEW r, Active(r) = Active(q), OnePath(q),
         \A s \in Active(q) : r[s].id = q[s].id /\ r[s].next = q[s].next
  PROVE OnePath(r)
<1> DEFINE n == Cardinality(Active(q))
<1>1. PICK order \in [1 .. n -> Slots] :
        /\ {order[i] : i \in 1 .. n} = Active(q)
        /\ \A i \in 1 .. n : q[order[i]].next = IF i = n THEN Master ELSE q[order[i + 1]].id
  BY Zenon DEF OnePath, Orders, Chain
<1>2. n \in Nat /\ Cardinality(Active(r)) = n
  BY ActiveFinite
<1> HIDE DEF n
<1>3. \A i \in 1 .. n : order[i] \in Active(q)
  BY <1>1
<1>4. \A i \in 1 .. n : r[order[i]].next = IF i = n THEN Master ELSE r[order[i + 1]].id
  <2> TAKE i \in 1 .. n
  <2>1. i # n => i + 1 \in 1 .. n
    BY <1>2
  <2>2. order[i] \in Active(q) /\ (i # n => order[i + 1] \in Active(q))
    BY <1>3, <2>1
  <2> QED BY <1>1, <2>2, Zenon
<1> QED BY <1>1, <1>2, <1>4, ZenonT(30) DEF OnePath, Orders, Chain

\* A calm step pumps a registry in which nobody is late.
LEMMA CalmPump ==
  ASSUME NEW r, Pump(r), calm'
  PROVE calm /\ registry' = r
  BY Zenon DEF Pump

LEMMA SameSlots ==
  ASSUME NoneLost(registry), OnePath(registry),
         \A s \in Slots : /\ registry'[s].id = registry[s].id /\ registry'[s].state = registry[s].state
                         /\ registry'[s].next = registry[s].next
  PROVE NoneLost(registry') /\ OnePath(registry')
<1>1. Active(registry') = Active(registry) /\ Active(registry) \subseteq Slots
  BY DEF Active
<1>2. OnePath(registry')
  BY <1>1, SamePath
<1> QED BY <1>2 DEF NoneLost

LEMMA TickJoin ==
  ASSUME RingTypeInv, JoinInv, Tick, calm'
  PROVE NoneLost(registry') /\ OnePath(registry')
<1>1. ASSUME NEW s \in Slots
      PROVE /\ registry'[s].id = registry[s].id /\ registry'[s].state = registry[s].state
            /\ registry'[s].next = registry[s].next
  <2>1. registry[s] \in Entries
    BY DEF RingTypeInv
  <2>2. registry'[s] = registry[s] \/ registry'[s] = [registry[s] EXCEPT !.age = @ + 1]
    BY DEF Tick
  <2> QED BY <2>1, <2>2 DEF Entries
<1>2. NoneLost(registry) /\ OnePath(registry)
  BY DEF JoinInv, Tick
<1> QED BY <1>1, <1>2, SameSlots

LEMMA JoinInit == RingInit => JoinInv
<1> SUFFICES ASSUME RingInit PROVE NoneLost(registry) /\ OnePath(registry)
  BY DEF JoinInv
<1>1. NoneLost(registry) /\ Active(registry) = {}
  BY DEF RingInit, NoneLost, Active
<1>2. Cardinality(Active(registry)) = 0
  BY <1>1, FS_EmptySet
<1> DEFINE order == [i \in 1 .. 0 |-> 0]
<1>3. order \in Orders(registry)
  BY <1>2 DEF Orders
<1>4. Chain(order, registry)
  BY <1>1, <1>2 DEF Chain
<1> QED BY <1>1, <1>3, <1>4 DEF OnePath

\* Calls that find or leave the active slots as they are.
LEMMA QuietJoin ==
  ASSUME RingTypeInv, JoinInv, NEW w \in Workers,
         \/ Pump(registry) \/ Heartbeat(w)
         \/ \E n \in Nonces \cup {0} : HelloNew(w, n)
  PROVE JoinInv'
<1> SUFFICES ASSUME calm' PROVE NoneLost(registry') /\ OnePath(registry')
  BY Zenon DEF JoinInv, NoneLost, OnePath, Orders, Chain, Active
<1>0. calm
  BY CalmPump, Zenon DEF Heartbeat, HelloNew, Pump
<1>1. NoneLost(registry) /\ OnePath(registry)
  BY <1>0 DEF JoinInv
<1>2. CASE Pump(registry)
  <2>1. registry' = registry
    BY <1>2, CalmPump, Zenon
  <2> QED BY <1>1, <2>1
<1>3. CASE Heartbeat(w)
  <2> DEFINE r == [s \in Slots |-> IF s \notin Holding(registry, w) THEN registry[s]
                     ELSE [registry[s] EXCEPT !.age = 0, !.state = IF @ = "SUSPECTED" THEN "ACTIVE" ELSE @]]
  <2>1. Pump(r)
    BY <1>3, Zenon DEF Heartbeat
  <2>2. registry' = r
    BY <2>1, CalmPump, Zenon
  <2>3. \A s \in Slots : /\ r[s].id = registry[s].id /\ r[s].state = registry[s].state
                         /\ r[s].next = registry[s].next
    BY <1>1 DEF NoneLost, RingTypeInv, Entries
  <2> QED BY <1>1, <2>2, <2>3, SameSlots, Zenon
<1>4. ASSUME NEW n \in Nonces \cup {0}, HelloNew(w, n)
      PROVE NoneLost(registry') /\ OnePath(registry')
  <2>1. PICK s \in SlotsFor(registry, w) : Pump(Helloed(w, n, s))
    BY <1>4, Zenon DEF HelloNew, Helloed
  <2>2. registry' = Helloed(w, n, s)
    BY <2>1, CalmPump, Zenon
  <2>3. Holding(registry, w) = {}
    BY <1>1, <1>4, Zenon DEF HelloNew, NoneLost, Holding
  <2>4. s \in Slots /\ registry[s].id = NoWorker
    BY <1>1, <2>3, SlotForNew DEF Free, NoneLost
  <2>5. registry'[s].state = "PENDING" /\ \A t \in Slots \ {s} : registry'[t] = registry[t]
    BY <2>2, <2>4, HelloedEntries
  <2>6. Active(registry') = Active(registry) /\ s \notin Active(registry)
    BY <2>4, <2>5 DEF Active
  <2>7. \A t \in Active(registry) : registry'[t] = registry[t]
    BY <2>5, <2>6 DEF Active
  <2>8. OnePath(registry')
    BY <1>1, <2>6, <2>7, SamePath
  <2> QED BY <1>1, <2>5, <2>8 DEF NoneLost
<1> QED BY <1>2, <1>3, <1>4

\* The other slots are the ones some offset reaches.
LEMMA OffsetOf ==
  ASSUME NEW s \in Slots, NEW t \in Slots, s # t
  PROVE \E o \in 1 .. MAX_WORKERS - 1 : (s - o + MAX_WORKERS) % MAX_WORKERS = t
<1> DEFINE M == MAX_WORKERS
<1>1. M \in Nat \ {0} /\ s \in 0 .. M - 1 /\ t \in 0 .. M - 1
  BY SlotsAssumption DEF Slots
<1> HIDE DEF M
<1>2. t % M = t /\ (t + M) % M = t
  BY <1>1
<1>3. CASE t < s
  <2>1. s - t \in 1 .. M - 1 /\ s - (s - t) + M = t + M
    BY <1>1, <1>3
  <2> QED BY <1>2, <2>1, Zenon DEF M
<1>4. CASE t > s
  <2>1. s - t + M \in 1 .. M - 1 /\ s - (s - t + M) + M = t
    BY <1>1, <1>4
  <2> QED BY <1>2, <2>1, Zenon DEF M
<1> QED BY <1>1, <1>3, <1>4

LEMMA AckFirstJoin ==
  ASSUME RingTypeInv, JoinInv, NEW w \in Workers, NEW n \in Nonces, AckFirst(w, n), calm'
  PROVE NoneLost(registry') /\ OnePath(registry')
<1>1. PICK s \in Acked(w, n) :
        /\ PrevOffsets(registry, s) = {}
        /\ Pump([registry EXCEPT ![s].age = 0, ![s].state = "ACTIVE", ![s].prev = Master, ![s].next = Master])
  BY Zenon DEF AckFirst
<1> DEFINE r == [registry EXCEPT ![s].age = 0, ![s].state = "ACTIVE", ![s].prev = Master, ![s].next = Master]
<1>2. calm /\ registry' = r
  BY <1>1, CalmPump, Zenon
<1>3. s \in Slots /\ registry[s].id = w /\ registry[s] \in Entries /\ w # NoWorker
  BY SentinelAssumption DEF Acked, Holding, RingTypeInv
<1>4. /\ r[s].id = w /\ r[s].state = "ACTIVE" /\ r[s].next = Master
      /\ \A t \in Slots \ {s} : r[t] = registry[t]
  BY <1>3 DEF RingTypeInv, Entries
<1> HIDE DEF r
<1>5. NoneLost(registry')
  BY <1>2, <1>4 DEF JoinInv, NoneLost
<1>6. \A t \in Slots \ {s} : t \notin Active(registry)
  BY <1>1, <1>3, OffsetOf DEF PrevOffsets
<1>7. Active(r) = {s}
  BY <1>3, <1>4, <1>6 DEF Active
<1>8. Cardinality(Active(r)) = 1
  BY <1>7, FS_Singleton, Zenon
<1> DEFINE order == [i \in 1 .. 1 |-> s]
<1>9. order \in Orders(r)
  BY <1>3, <1>8 DEF Orders
<1>10. {order[i] : i \in 1 .. 1} = {s}
  OBVIOUS
<1>11. \A i \in 1 .. 1 : i = 1 /\ order[i] = s
  OBVIOUS
<1> HIDE DEF order
<1>12. Chain(order, r)
  BY <1>4, <1>7, <1>8, <1>10, <1>11, Zenon DEF Chain
<1> QED BY <1>2, <1>5, <1>9, <1>12, Zenon DEF OnePath

\* A path over a set of slots lists each of them once.
LEMMA PathInjective ==
  ASSUME NEW S, IsFiniteSet(S), NEW order \in [1 .. Cardinality(S) -> S],
         {order[i] : i \in 1 .. Cardinality(S)} = S
  PROVE \A i, j \in 1 .. Cardinality(S) : order[i] = order[j] => i = j
<1> DEFINE n == Cardinality(S)
<1>1. n \in Nat
  BY FS_CardinalityType
<1>2. IsFiniteSet(1 .. n) /\ Cardinality(1 .. n) = n
  BY <1>1, FS_Interval
<1>3. order \in Surjection(1 .. n, S)
  BY Zenon DEF Surjection
<1>4. order \in Injection(1 .. n, S)
  BY <1>2, <1>3, FS_SurjSameCardinalityImpliesInj, Zenon
<1> QED BY <1>4 DEF Injection, IsInjective

\* f is the path with slot s behind its j-th.
Inserted(order, n, j, s, f) ==
  /\ \A i \in 1 .. j : i \in 1 .. n /\ f[i] = order[i]
  /\ f[j + 1] = s
  /\ \A i \in j + 1 .. n : f[i + 1] = order[i]

LEMMA PathInserted ==
  ASSUME NEW n \in Nat, NEW A, NEW order \in [1 .. n -> A], NEW j \in 1 .. n, NEW s
  PROVE \E f \in [1 .. n + 1 -> A \cup {s}] : Inserted(order, n, j, s, f)
<1> DEFINE f == [i \in 1 .. n + 1 |-> IF i <= j THEN order[i] ELSE IF i = j + 1 THEN s ELSE order[i - 1]]
<1>1. ASSUME NEW i \in 1 .. n + 1
      PROVE f[i] = (IF i <= j THEN order[i] ELSE IF i = j + 1 THEN s ELSE order[i - 1])
  OBVIOUS
<1>2. DOMAIN f = 1 .. n + 1 /\ f = [i \in 1 .. n + 1 |-> f[i]]
  OBVIOUS
<1> HIDE DEF f
<1>3. ASSUME NEW i \in 1 .. n + 1
      PROVE f[i] \in A \cup {s}
  <2>1. (i <= j => i \in 1 .. n) /\ (~(i <= j) /\ i # j + 1 => i - 1 \in 1 .. n)
    OBVIOUS
  <2> QED BY <1>1, <2>1
<1>4. f \in [1 .. n + 1 -> A \cup {s}]
  BY <1>2, <1>3
<1>5. \A i \in 1 .. j : i \in 1 .. n /\ f[i] = order[i]
  BY <1>1
<1>6. f[j + 1] = s
  BY <1>1
<1>7. ASSUME NEW i \in j + 1 .. n PROVE f[i + 1] = order[i]
  <2>1. i + 1 \in 1 .. n + 1 /\ ~(i + 1 <= j) /\ i + 1 # j + 1 /\ i + 1 - 1 = i
    OBVIOUS
  <2> QED BY <1>1, <2>1
<1> QED BY <1>4, <1>5, <1>6, <1>7 DEF Inserted

\* Linking slot s in behind p leaves one path.
LEMMA LinkedIn ==
  ASSUME NEW q, NEW r, OnePath(q), NEW p \in Active(q), NEW s \in Slots \ Active(q),
         Active(r) = Active(q) \cup {s}, r[p].id = q[p].id, r[p].next = r[s].id, r[s].next = q[p].next,
         \A t \in Active(q) \ {p} : r[t] = q[t]
  PROVE OnePath(r)
<1> DEFINE A == Active(q)
           n == Cardinality(A)
<1>1. PICK order \in [1 .. n -> Slots] :
        /\ {order[i] : i \in 1 .. n} = A
        /\ \A i \in 1 .. n : q[order[i]].next = IF i = n THEN Master ELSE q[order[i + 1]].id
  BY Zenon DEF OnePath, Orders, Chain
<1>2. n \in Nat /\ IsFiniteSet(A) /\ A \subseteq Slots
  BY ActiveFinite
<1>3. Cardinality(Active(r)) = n + 1
  <2>1. Cardinality(A \cup {s}) = IF s \in A THEN n ELSE n + 1
    BY <1>2, FS_AddElement, Zenon
  <2> QED BY <2>1
<1>4. order \in [1 .. n -> A]
  BY <1>1
<1>5. \A i, k \in 1 .. n : order[i] = order[k] => i = k
  BY <1>1, <1>2, <1>4, PathInjective, Zenon
<1>6. p \in A /\ s \notin A /\ s \in Slots /\ \A t \in A \ {p} : r[t] = q[t]
  OBVIOUS
<1> HIDE DEF A, n
<1>7. PICK j \in 1 .. n : order[j] = p
  BY <1>1, <1>6
<1>8. PICK f \in [1 .. n + 1 -> A \cup {s}] : Inserted(order, n, j, s, f)
  BY <1>2, <1>4, PathInserted, Zenon
<1>9. /\ \A i \in 1 .. j : i \in 1 .. n /\ f[i] = order[i]
      /\ f[j + 1] = s
      /\ \A i \in j + 1 .. n : f[i + 1] = order[i]
  BY <1>8 DEF Inserted
<1>10. {f[i] : i \in 1 .. n + 1} = Active(r)
  <2>1. ASSUME NEW a \in A PROVE \E i \in 1 .. n + 1 : f[i] = a
    <3>1. PICK i \in 1 .. n : order[i] = a
      BY <1>1
    <3>2. CASE i <= j
      <4>1. i \in 1 .. j /\ i \in 1 .. n + 1
        BY <1>2, <3>2
      <4> QED BY <1>9, <3>1, <4>1
    <3>3. CASE ~(i <= j)
      <4>1. i \in j + 1 .. n /\ i + 1 \in 1 .. n + 1
        BY <1>2, <3>3
      <4> QED BY <1>9, <3>1, <4>1
    <3> QED BY <3>2, <3>3
  <2>2. j + 1 \in 1 .. n + 1
    BY <1>2
  <2>3. Active(r) = A \cup {s}
    BY DEF A
  <2> QED BY <1>9, <2>1, <2>2, <2>3
<1>11. ASSUME NEW i \in 1 .. n + 1
       PROVE r[f[i]].next = IF i = n + 1 THEN Master ELSE r[f[i + 1]].id
  <2>0. \A k \in 1 .. n : order[k] \in A /\ r[order[k]].id = q[order[k]].id
    BY <1>4, <1>6
  <2>1. CASE i < j
    <3>1. i \in 1 .. j /\ i + 1 \in 1 .. j /\ i # j /\ i # n /\ i # n + 1
      BY <1>2, <2>1
    <3>2. f[i] = order[i] /\ f[i + 1] = order[i + 1] /\ i \in 1 .. n /\ i + 1 \in 1 .. n
      BY <1>9, <3>1
    <3>3. order[i] # p
      BY <1>5, <1>7, <3>1, <3>2, Zenon
    <3>4. r[order[i]] = q[order[i]]
      BY <1>6, <2>0, <3>2, <3>3, ZenonT(30)
    <3>5. q[order[i]].next = q[order[i + 1]].id
      BY <1>1, <3>1, <3>2
    <3> QED BY <2>0, <3>1, <3>2, <3>4, <3>5, ZenonT(30)
  <2>2. CASE i = j
    <3>1. i \in 1 .. j /\ i # n + 1
      BY <1>2, <2>2
    <3>2. f[i] = p /\ f[i + 1] = s
      BY <1>7, <1>9, <2>2, <3>1, ZenonT(30)
    <3> QED BY <3>1, <3>2
  <2>3. CASE i = j + 1
    <3>1. f[i] = s /\ r[f[i]].next = q[order[j]].next
      BY <1>7, <1>9, <2>3
    <3>2. CASE j = n
      BY <1>1, <2>3, <3>1, <3>2
    <3>3. CASE j # n
      <4>1. j + 1 \in j + 1 .. n /\ j + 1 \in 1 .. n /\ i # n + 1 /\ i + 1 = j + 1 + 1
        BY <1>2, <2>3, <3>3
      <4>2. f[i + 1] = order[j + 1]
        BY <1>9, <4>1
      <4> QED BY <1>1, <2>0, <3>1, <3>3, <4>1, <4>2, ZenonT(30)
    <3> QED BY <3>2, <3>3
  <2>4. CASE i > j + 1
    <3> DEFINE k == i - 1
    <3>1. k \in j + 1 .. n /\ k \in 1 .. n /\ k # j /\ i = k + 1
      BY <1>2, <2>4
    <3> HIDE DEF k
    <3>2. f[i] = order[k] /\ order[k] # p
      BY <1>5, <1>7, <1>9, <3>1, Zenon
    <3>3. r[order[k]] = q[order[k]]
      BY <1>6, <2>0, <3>1, <3>2, ZenonT(30)
    <3>4. CASE k = n
      BY <1>1, <3>1, <3>2, <3>3, <3>4
    <3>5. CASE k # n
      <4>1. i \in j + 1 .. n /\ i \in 1 .. n /\ i # n + 1
        BY <1>2, <3>1, <3>5
      <4>2. f[i + 1] = order[i]
        BY <1>9, <4>1
      <4>3. q[order[k]].next = q[order[i]].id
        BY <1>1, <3>1, <3>5
      <4> QED BY <2>0, <3>2, <3>3, <4>1, <4>2, <4>3, ZenonT(30)
    <3> QED BY <3>4, <3>5
  <2> QED BY <1>2, <2>1, <2>2, <2>3, <2>4, SMTT(30)
<1>12. f \in Orders(r)
  BY <1>2, <1>3, <1>6, <1>9, Zenon DEF Orders
<1>13. Chain(f, r)
  BY <1>3, <1>10, <1>11, Zenon DEF Chain
<1> QED BY <1>12, <1>13 DEF OnePath

LEMMA AckLinkedJoin ==
  ASSUME RingTypeInv, JoinInv, NEW w \in Workers, NEW n \in Nonces, AckLinked(w, n), calm'
  PROVE NoneLost(registry') /\ OnePath(registry')
<1>1. PICK s \in Acked(w, n) :
        /\ PrevOffsets(registry, s) # {}
        /\ LET p == PrevActive(registry, s)
           IN Pump([registry EXCEPT ![p].next = w, ![s].age = 0, ![s].state = "ACTIVE",
                                    ![s].prev = registry[p].id, ![s].next = registry[p].next])
  BY Zenon DEF AckLinked
<1> DEFINE p == PrevActive(registry, s)
           r == [registry EXCEPT ![p].next = w, ![s].age = 0, ![s].state = "ACTIVE",
                                 ![s].prev = registry[p].id, ![s].next = registry[p].next]
<1>2. calm /\ registry' = r
  BY <1>1, CalmPump, Zenon
<1>3. s \in Slots /\ registry[s].id = w /\ registry[s] \in Entries /\ w # NoWorker /\ s \notin Active(registry)
  BY SentinelAssumption DEF Acked, Holding, RingTypeInv, Active
<1>4. p \in Active(registry)
  BY <1>1, <1>3, PrevActiveSlot
<1> HIDE DEF p
<1>5. p \in Slots /\ p # s /\ registry[p] \in Entries /\ registry[p].state = "ACTIVE" /\ registry[p].id # NoWorker
  BY <1>3, <1>4 DEF Active, RingTypeInv
<1> DEFINE f == [registry[p] EXCEPT !.next = w]
           g == [registry[s] EXCEPT !.age = 0, !.state = "ACTIVE", !.prev = registry[p].id, !.next = registry[p].next]
<1>6. f.id = registry[p].id /\ f.state = "ACTIVE" /\ f.next = w
  BY <1>5 DEF Entries
<1>7. g.id = w /\ g.state = "ACTIVE" /\ g.next = registry[p].next
  BY <1>3 DEF Entries
<1>8. r = [registry EXCEPT ![p] = f, ![s] = g]
  BY <1>3, <1>5, Zenon DEF RingTypeInv
<1> HIDE DEF f, g, r
<1>9. r[p] = f /\ r[s] = g /\ \A t \in Slots \ {s, p} : r[t] = registry[t]
  BY <1>3, <1>5, <1>8 DEF RingTypeInv
<1>10. NoneLost(r)
  BY <1>2, <1>6, <1>7, <1>9, Zenon DEF NoneLost, JoinInv
<1>11. Active(r) = Active(registry) \cup {s}
  BY <1>3, <1>5, <1>6, <1>7, <1>9 DEF Active
<1>12. \A t \in Active(registry) \ {p} : r[t] = registry[t]
  BY <1>3, <1>9 DEF Active
<1>13. OnePath(registry)
  BY <1>2 DEF JoinInv
<1>14. OnePath(r)
  BY <1>3, <1>4, <1>6, <1>7, <1>9, <1>11, <1>12, <1>13, LinkedIn, SMTT(30)
<1> QED BY <1>2, <1>10, <1>14

LEMMA RestitchJoin ==
  ASSUME RingTypeInv, JoinInv, Restitch, calm'
  PROVE NoneLost(registry') /\ OnePath(registry')
<1> DEFINE A == Active(registry)
           n == Cardinality(A)
           f == Ascending(A)
<1>1. registry' = Restitched(registry) /\ calm
  BY DEF Restitch
<1>2. /\ \A s \in Slots : registry'[s].id = registry[s].id /\ registry'[s].state = registry[s].state
      /\ \A s \in A : registry'[s].next = IF Above(registry, s) = {} THEN Master ELSE registry[Lowest(Above(registry, s))].id
  BY <1>1, RestitchStep, Linked
<1>3. Active(registry') = A /\ NoneLost(registry')
  BY <1>1, <1>2 DEF Active, NoneLost, JoinInv
<1>4. A \in SUBSET Nat /\ A \subseteq Slots /\ IsFiniteSet(A) /\ n \in Nat
  BY ActiveFinite
<1>5. f \in [1 .. n -> A] /\ \A w \in A : Rank(A, w) + 1 \in 1 .. n /\ f[Rank(A, w) + 1] = w
  BY <1>4, AscendingOrder, Zenon
<1>6. {f[i] : i \in 1 .. n} = A
  <2> HIDE DEF f, n, A
  <2>1. \A w \in A : \E i \in 1 .. n : f[i] = w
    BY <1>5, Zenon
  <2> QED BY <1>5, <2>1
<1>7. ASSUME NEW i \in 1 .. n
      PROVE registry'[f[i]].next = IF i = n THEN Master ELSE registry'[f[i + 1]].id
  <2>1. f[i] \in A /\ Above(registry, f[i]) = Over(A, f[i])
    BY <1>5 DEF Above, Over
  <2>2. /\ i = n <=> Over(A, f[i]) = {}
        /\ i < n => /\ f[i + 1] \in Over(A, f[i])
                    /\ \A v \in Over(A, f[i]) : f[i + 1] <= v
    BY <1>4, AscendingNext, ZenonT(30)
  <2> HIDE DEF f, n, A
  <2>3. CASE i = n
    BY <1>2, <2>1, <2>2, <2>3, ZenonT(30)
  <2>4. CASE i # n
    <3>1. i < n
      BY <1>4, <2>4
    <3>2. Over(A, f[i]) \subseteq Nat /\ Over(A, f[i]) # {} /\ f[i + 1] \in A
      BY <1>4, <2>2, <3>1, Zenon DEF Over
    <3>3. Lowest(Over(A, f[i])) \in Over(A, f[i]) /\ \A v \in Over(A, f[i]) : Lowest(Over(A, f[i])) <= v
      BY <3>2, LowestOf
    <3>4. Lowest(Over(A, f[i])) = f[i + 1]
      BY <2>2, <3>1, <3>2, <3>3
    <3> QED BY <1>2, <1>4, <2>1, <2>4, <3>2, <3>4
  <2> QED BY <2>3, <2>4
<1>8. f \in Orders(registry')
  BY <1>3, <1>4, <1>5 DEF Orders
<1>9. Chain(f, registry')
  <2> HIDE DEF f
  <2> QED BY <1>3, <1>6, <1>7, Zenon DEF Chain
<1> QED BY <1>3, <1>8, <1>9 DEF OnePath

LEMMA JoinStep ==
  ASSUME RingInv, JoinInv, [RingNext]_ringVars
  PROVE JoinInv'
<1> DEFINE Goal == NoneLost(registry') /\ OnePath(registry')
<1>1. (calm' => Goal) => JoinInv'
  BY SMTT(30) DEF JoinInv, NoneLost, OnePath, Orders, Chain, Active
<1> HIDE DEF Goal
<1>2. ASSUME NEW w \in Workers, Handler(w) PROVE JoinInv'
  <2>1. ASSUME NEW n \in Nonces, AckFirst(w, n), calm' PROVE Goal
    BY <2>1, AckFirstJoin DEF RingInv, Goal
  <2>2. ASSUME NEW n \in Nonces, AckLinked(w, n), calm' PROVE Goal
    BY <2>2, AckLinkedJoin DEF RingInv, Goal
  <2>3. CASE Pump(registry) \/ Heartbeat(w) \/ \E n \in Nonces \cup {0} : HelloNew(w, n)
    BY <2>3, QuietJoin DEF RingInv
  <2>4. \/ Pump(registry) \/ Heartbeat(w) \/ \E n \in Nonces \cup {0} : HelloNew(w, n)
        \/ \E n \in Nonces : AckFirst(w, n) \/ AckLinked(w, n)
    BY <1>2 DEF Handler, HelloAgain, HelloRefused, AckRefused
  <2> QED BY <1>1, <2>1, <2>2, <2>3, <2>4
<1>3. CASE PumpIdle \/ Tick \/ UNCHANGED ringVars
  <2>1. CASE Tick
    <3>1. ASSUME calm' PROVE Goal
      BY <2>1, <3>1, TickJoin DEF RingInv, Goal
    <3> QED BY <1>1, <3>1
  <2>2. CASE PumpIdle
    <3>1. ASSUME calm' PROVE Goal
      <4>1. registry' = registry /\ calm
        BY <2>2, <3>1, CalmPump DEF PumpIdle
      <4> QED BY <4>1 DEF JoinInv, Goal
    <3> QED BY <1>1, <3>1
  <2>3. CASE UNCHANGED ringVars
    BY <1>1, <2>3 DEF ringVars, JoinInv, Goal
  <2> QED BY <1>3, <2>1, <2>2, <2>3
<1>4. CASE Restitch
  <2>1. ASSUME calm' PROVE Goal
    BY <1>4, <2>1, RestitchJoin DEF RingInv, Goal
  <2> QED BY <1>1, <2>1
<1> QED BY <1>2, <1>3, <1>4, ZenonT(30) DEF RingNext

\* discovery.c:586-630: as long as nobody was lost, joins in any order keep every
\* active worker on one path of next pointers that ends at the master.
THEOREM JoinsKeepOnePath == RingSpec => []JoinsKeepRing
<1>1. JoinInv => JoinsKeepRing
  BY DEF JoinInv, JoinsKeepRing, OnePath
<1> QED BY <1>1, JoinInit, JoinStep, RingInvariant, PTL DEF RingSpec
-----------------------------------------------------------------------------
(* Discovery: workers, network and registry together.                      *)

Beat(w) == [proc |-> "HEARTBEAT", src |-> w]

\* What is sent is a datagram.
LEMMA Sent ==
  ASSUME NEW w \in Workers
  PROVE /\ Hello(w) \in Datagrams /\ Beat(w) \in Datagrams
        /\ [proc |-> "EVICT", dst |-> w] \in Datagrams
        /\ \A n \in Nonces : Ack(w, n) \in Datagrams
        /\ \A ok \in BOOLEAN : AckReply(w, ok) \in Datagrams
        /\ \A ok \in BOOLEAN, n \in Nonces \cup {0} : HelloReply(w, ok, n) \in Datagrams
  BY DEF Datagrams, Hello, Beat, Ack, AckReply, HelloReply

\* The fields of a datagram.
LEMMA Fields ==
  ASSUME NEW m \in Datagrams
  PROVE /\ m.proc = "AUTH_HELLO" => m \in [proc : {"AUTH_HELLO"}, src : Workers, cur : BOOLEAN]
        /\ m.proc = "CAP_ACK" => m \in [proc : {"CAP_ACK"}, src : Workers, cur : BOOLEAN, nonce : Nonces]
        /\ m.proc = "HEARTBEAT" => m \in [proc : {"HEARTBEAT"}, src : Workers]
        /\ m.proc = "EVICT" => m \in [proc : {"EVICT"}, dst : Workers]
        /\ m.proc = "HELLO_REPLY" =>
             m \in [proc : {"HELLO_REPLY"}, dst : Workers, ok : BOOLEAN, nonce : Nonces \cup {0}]
        /\ m.proc = "ACK_REPLY" => m \in [proc : {"ACK_REPLY"}, dst : Workers, ok : BOOLEAN]
  BY DEF Datagrams

\* Retiring a worker's calls neither sends nor invents anything.
LEMMA Retired ==
  ASSUME net \subseteq Datagrams, NEW w \in Workers
  PROVE /\ Retire(w) \subseteq Datagrams
        /\ \A v \in Workers :
             /\ AckReply(v, TRUE) \in Retire(w) => AckReply(v, TRUE) \in net
             /\ Beat(v) \in Retire(w) => Beat(v) \in net
             /\ (\E m \in Retire(w) : IsCall(m, v)) => \E m \in net : IsCall(m, v)
<1>1. ASSUME NEW m \in net, IsCall(m, w)
      PROVE LET d == [m EXCEPT !.cur = FALSE]
            IN d \in Datagrams /\ d.proc = m.proc /\ d.src = m.src
  <2>1. CASE m.proc = "AUTH_HELLO"
    <3>1. m \in [proc : {"AUTH_HELLO"}, src : Workers, cur : BOOLEAN]
      BY <2>1, Fields
    <3> QED BY <3>1, Zenon DEF Datagrams
  <2>2. CASE m.proc = "CAP_ACK"
    <3>1. m \in [proc : {"CAP_ACK"}, src : Workers, cur : BOOLEAN, nonce : Nonces]
      BY <2>2, Fields
    <3> QED BY <3>1, Zenon DEF Datagrams
  <2> QED BY <1>1, <2>1, <2>2 DEF IsCall
<1>2. \A d \in Retire(w) :
        \/ d \in net
        \/ \E m \in net : IsCall(m, w) /\ d = [m EXCEPT !.cur = FALSE]
  BY DEF Retire
<1>3. \A d \in Retire(w) :
        d \in Datagrams /\ (d \in net \/ (d.proc \in {"AUTH_HELLO", "CAP_ACK"} /\ \E m \in net : IsCall(m, w) /\ d.src = w))
  BY <1>1, <1>2, Zenon DEF IsCall
<1>4. \A v \in Workers : AckReply(v, TRUE).proc = "ACK_REPLY" /\ Beat(v).proc = "HEARTBEAT"
  BY DEF AckReply, Beat
<1> QED BY <1>3, <1>4, Zenon DEF IsCall

\* A slot whose CAP_ACK was accepted within this unit of time.
Certain(s) == s \in proven /\ registry[s].state = "ACTIVE" /\ registry[s].age = 0

\* The worker holds proof that it was accepted within this unit of time.
Assured(w) ==
  \/ AckReply(w, TRUE) \in net
  \/ workers[w].phase = "up" /\ \E m \in net : IsCall(m, w)

\* The strengthening that makes ActiveMeansProbed inductive.  A heartbeat can
\* make a SUSPECTED slot ACTIVE, so whoever heartbeats must hold a slot that is
\* proven, or one that a heartbeat cannot raise.
Probed ==
  /\ ActiveMeansProbed
  /\ \A w \in Workers : Beat(w) \in net => \A s \in Holding(registry, w) :
       s \in proven \/ registry[s].state = "EXPIRED" \/ (registry[s].state = "PENDING" /\ registry[s].age = 0)
  /\ \A w \in Workers : workers[w].phase = "up" =>
       \A s \in Holding(registry, w) : s \in proven \/ registry[s].state = "EXPIRED"
  /\ \A w \in Workers : Assured(w) => \E s \in Holding(registry, w) : Certain(s)

\* A worker waiting for its CAP_ACK has a nonce to acknowledge.
NonceKept == \A w \in Workers : workers[w].phase = "ack" => workers[w].nonce # 0

DiscoveryInv == TypeInv /\ OneSlotPerWorker /\ NonceKept /\ Probed

LEMMA DiscoveryInvInit == Init => DiscoveryInv
<1> SUFFICES ASSUME Init PROVE DiscoveryInv
  OBVIOUS
<1>1. RingTypeInv /\ OneSlotPerWorker
  BY RingInvInit DEF Init, RingInv
<1>2. workers \in [Workers -> Processes]
  BY RetryAssumption DEF Init, Processes, Phases
<1>3. Active(registry) = {}
  BY DEF Init, RingInit, Active
<1>4. \A w \in Workers : workers[w].phase = "down"
  BY DEF Init
<1> QED BY <1>1, <1>2, <1>3, <1>4 DEF Init, DiscoveryInv, TypeInv, NonceKept, Probed, Assured, ActiveMeansProbed

\* A step that leaves the registry alone.
LEMMA RegistryKept ==
  ASSUME DiscoveryInv, UNCHANGED <<registry, proven>>,
         \A w \in Workers : Beat(w) \in net' => Beat(w) \in net \/ workers[w].phase = "up",
         \A w \in Workers : workers'[w].phase = "up" => workers[w].phase = "up" \/ AckReply(w, TRUE) \in net,
         \A w \in Workers : Assured(w)' => Assured(w)
  PROVE Probed'
<1>1. ASSUME NEW w \in Workers, workers'[w].phase = "up", NEW s \in Holding(registry, w)
      PROVE s \in proven \/ registry[s].state = "EXPIRED"
  <2>1. CASE workers[w].phase = "up"
    BY <1>1, <2>1 DEF DiscoveryInv, Probed
  <2>2. CASE AckReply(w, TRUE) \in net
    <3>1. PICK t \in Holding(registry, w) : Certain(t)
      BY <2>2, Zenon DEF DiscoveryInv, Probed, Assured
    <3>2. s = t
      BY <1>1, SentinelAssumption, Zenon DEF DiscoveryInv, OneSlotPerWorker, Holding
    <3> QED BY <3>1, <3>2 DEF Certain
  <2> QED BY <1>1, <2>1, <2>2, ZenonT(30)
<1>2. ASSUME NEW w \in Workers, Beat(w) \in net', NEW s \in Holding(registry, w)
      PROVE s \in proven \/ registry[s].state = "EXPIRED" \/ (registry[s].state = "PENDING" /\ registry[s].age = 0)
  BY <1>2, Zenon DEF DiscoveryInv, Probed
<1>3. \A w \in Workers : Assured(w)' => \E s \in Holding(registry, w) : Certain(s)
  BY DEF DiscoveryInv, Probed
<1>4. ActiveMeansProbed
  BY Zenon DEF DiscoveryInv, Probed
<1> QED BY <1>1, <1>2, <1>3, <1>4 DEF Probed, ActiveMeansProbed, Active, Holding, Certain

\* A step of the master, over the slots it touches.
LEMMA SlotsKept ==
  ASSUME DiscoveryInv, workers' = workers,
         \A w \in Workers : Beat(w) \in net' => Beat(w) \in net,
         \A w \in Workers : Assured(w)' => Assured(w) \/ \E s \in Slots : registry'[s].id = w /\ Certain(s)',
         \* a slot is as it was but older, or has just been given away or accepted,
         \* or its worker has just been heard
         \A s \in Slots :
           \/ Ages(s) /\ (s \in proven' <=> s \in proven)
           \/ \E w \in Workers : /\ Fresh(s, w, "PENDING")
                                 /\ workers[w].phase # "up" /\ s \in SlotsFor(registry, w)
                                 /\ \A t \in Holding(registry, w) : registry[t].state = "EXPIRED"
           \/ Fresh(s, registry[s].id, "ACTIVE") /\ s \in proven'
           \/ /\ s \in proven' <=> s \in proven
              /\ Beat(registry[s].id) \in net
              /\ Fresh(s, registry[s].id, IF registry[s].state = "SUSPECTED" THEN "ACTIVE" ELSE registry[s].state)
  PROVE Probed'
<1> DEFINE Older(s) == Ages(s) /\ (s \in proven' <=> s \in proven)
           Given(s, w) == /\ Fresh(s, w, "PENDING")
                          /\ workers[w].phase # "up" /\ s \in SlotsFor(registry, w)
                          /\ \A t \in Holding(registry, w) : registry[t].state = "EXPIRED"
           Accepted(s) == Fresh(s, registry[s].id, "ACTIVE") /\ s \in proven'
           Heard(s) == /\ s \in proven' <=> s \in proven
                       /\ Beat(registry[s].id) \in net
                       /\ Fresh(s, registry[s].id, IF registry[s].state = "SUSPECTED" THEN "ACTIVE" ELSE registry[s].state)
<1>0. \A s \in Slots : Older(s) \/ (\E w \in Workers : Given(s, w)) \/ Accepted(s) \/ Heard(s)
  OBVIOUS
<1>1. \A s \in Slots : registry[s].id \in Workers \cup {NoWorker} /\ registry[s].state \in States
  BY Zenon DEF DiscoveryInv, TypeInv, RingTypeInv, Entries
<1>2. \A s \in Slots : registry[s].id # NoWorker /\ registry[s].state = "ACTIVE" => s \in proven
  BY Zenon DEF DiscoveryInv, Probed, ActiveMeansProbed, Active
<1>3. \A w \in Workers : Beat(w) \in net => \A s \in Slots : registry[s].id = w =>
        s \in proven \/ registry[s].state = "EXPIRED" \/ (registry[s].state = "PENDING" /\ registry[s].age = 0)
  BY Zenon DEF DiscoveryInv, Probed, Holding
<1>4. \A w \in Workers : workers[w].phase = "up" => \A s \in Slots : registry[s].id = w =>
        s \in proven \/ registry[s].state = "EXPIRED"
  BY Zenon DEF DiscoveryInv, Probed, Holding
<1>5. ASSUME NEW s \in Slots, registry'[s].id # NoWorker, registry'[s].state = "ACTIVE" PROVE s \in proven'
  <2>1. CASE Older(s)
    BY <1>2, <1>5, <2>1, Zenon DEF Ages
  <2>2. CASE Heard(s)
    BY <1>1, <1>2, <1>3, <1>5, <2>2, Zenon DEF Fresh
  <2> QED BY <1>0, <1>5, <2>1, <2>2, Zenon DEF Fresh
<1>6. ASSUME NEW w \in Workers, Beat(w) \in net, NEW s \in Slots, registry'[s].id = w
      PROVE s \in proven' \/ registry'[s].state = "EXPIRED" \/ (registry'[s].state = "PENDING" /\ registry'[s].age = 0)
  <2>1. CASE Older(s)
    BY <1>3, <1>6, <2>1, Zenon DEF Ages
  <2>2. CASE Heard(s)
    BY <1>3, <1>6, <2>2, Zenon DEF Fresh
  <2> QED BY <1>0, <2>1, <2>2, Zenon DEF Fresh
<1>7. ASSUME NEW w \in Workers, workers[w].phase = "up", NEW s \in Slots, registry'[s].id = w
      PROVE s \in proven' \/ registry'[s].state = "EXPIRED"
  <2>1. CASE Older(s)
    BY <1>4, <1>7, <2>1, Zenon DEF Ages
  <2>2. CASE Heard(s)
    BY <1>4, <1>7, <2>2, Zenon DEF Fresh
  <2> QED BY <1>0, <1>7, <2>1, <2>2, Zenon DEF Fresh
<1>8. ASSUME NEW w \in Workers, NEW s \in Slots, registry[s].id = w, Certain(s)
      PROVE registry'[s].id = w /\ Certain(s)'
  <2>1. CASE Older(s)
    BY <1>8, <2>1, Zenon DEF Ages, Certain
  <2>2. ASSUME NEW v \in Workers, Given(s, v) PROVE FALSE
    <3>1. s \notin Holding(registry, v)
      BY <1>8, <2>2, Zenon DEF Certain
    <3>2. s \in Free(registry)
      BY <2>2, <3>1, SlotForNew, Zenon
    <3> QED BY <1>8, <3>2, SentinelAssumption, Zenon DEF Free, Certain
  <2>3. CASE Heard(s) \/ Accepted(s)
    BY <1>8, <2>3, Zenon DEF Fresh, Certain
  <2> QED BY <1>0, <2>1, <2>2, <2>3, Zenon
<1>9. ASSUME NEW w \in Workers, Assured(w)' PROVE \E s \in Slots : registry'[s].id = w /\ Certain(s)'
  <2>1. ASSUME Assured(w) PROVE \E s \in Slots : registry[s].id = w /\ Certain(s)
    BY <2>1, SMTT(30) DEF DiscoveryInv, Probed, Holding
  <2> QED BY <1>8, <1>9, <2>1, ZenonT(30)
<1>10. ActiveMeansProbed'
  BY <1>5 DEF ActiveMeansProbed, Active
<1> HIDE DEF Older, Given, Accepted, Heard
<1> QED BY <1>6, <1>7, <1>9, <1>10, ZenonT(30) DEF Probed, Holding

\* Only workers are told that they were expired.
LEMMA Evicted ==
  ASSUME RingTypeInv,
         \A s \in Slots : Ages(s) \/ registry'[s].state # "EXPIRED" \/ registry[s].state = "EXPIRED"
  PROVE Evictions \subseteq [proc : {"EVICT"}, dst : Workers]
<1>1. ASSUME NEW s \in Slots, registry[s].state # "EXPIRED", registry'[s].state = "EXPIRED"
      PROVE registry[s].id \in Workers
  BY <1>1 DEF Ages, RingTypeInv, Entries
<1> QED BY <1>1 DEF Evictions

\* What a step of the master that sends at most the given reply does to the net.
LEMMA Answered ==
  ASSUME net \subseteq Datagrams, NEW reply \in Datagrams, reply.proc \in {"HELLO_REPLY", "ACK_REPLY"},
         Evictions \subseteq [proc : {"EVICT"}, dst : Workers],
         net' \subseteq net \cup {reply} \cup Evictions
  PROVE /\ net' \subseteq Datagrams
        /\ \A w \in Workers :
             /\ Beat(w) \in net' => Beat(w) \in net
             /\ (\E m \in net' : IsCall(m, w)) => \E m \in net : IsCall(m, w)
             /\ AckReply(w, TRUE) \in net' => AckReply(w, TRUE) \in net \/ reply = AckReply(w, TRUE)
<1>1. \A m \in Evictions : m \in Datagrams /\ m.proc = "EVICT"
  BY DEF Datagrams
<1>2. \A w \in Workers : Beat(w).proc = "HEARTBEAT" /\ AckReply(w, TRUE).proc = "ACK_REPLY"
  BY DEF Beat, AckReply
<1>3. \A m \in net' : m \in net \/ m = reply \/ (m \in Datagrams /\ m.proc = "EVICT")
  BY <1>1
<1> QED BY <1>2, <1>3, Zenon DEF IsCall

\* A reply, or none, that tells nobody of an accepted CAP_ACK.
LEMMA Unassuring ==
  ASSUME net \subseteq Datagrams, workers' = workers, NEW reply \in Datagrams,
         reply.proc \in {"HELLO_REPLY", "ACK_REPLY"}, reply.ok = FALSE \/ reply.proc = "HELLO_REPLY",
         Evictions \subseteq [proc : {"EVICT"}, dst : Workers],
         net' \subseteq net \cup {reply} \cup Evictions
  PROVE /\ net' \subseteq Datagrams
        /\ \A w \in Workers : Beat(w) \in net' => Beat(w) \in net
        /\ \A w \in Workers : Assured(w)' => Assured(w)
<1>1. \A w \in Workers : AckReply(w, TRUE).proc = "ACK_REPLY" /\ AckReply(w, TRUE).ok = TRUE
  BY DEF AckReply
<1>2. \A w \in Workers : reply # AckReply(w, TRUE)
  BY <1>1, Zenon
<1>3. /\ net' \subseteq Datagrams
      /\ \A w \in Workers :
             /\ Beat(w) \in net' => Beat(w) \in net
             /\ (\E m \in net' : IsCall(m, w)) => \E m \in net : IsCall(m, w)
             /\ AckReply(w, TRUE) \in net' => AckReply(w, TRUE) \in net
  BY <1>2, Answered, Zenon
<1> QED BY <1>3, Zenon DEF Assured

\* A worker has one slot to be given or acknowledged.
LEMMA OneSlotFor ==
  ASSUME OneSlotPerWorker, NEW w \in Workers
  PROVE /\ \A s, t \in SlotsFor(registry, w) : s = t
        /\ \A s, t \in Holding(registry, w) : s = t
<1>1. \A s, t \in Holding(registry, w) : s = t
  BY SentinelAssumption DEF OneSlotPerWorker, Holding
<1> QED BY <1>1 DEF SlotsFor

\* The steps of the master that only age the registry.
LEMMA AgeingStep ==
  ASSUME DiscoveryInv, Pump(registry), UNCHANGED <<workers, proven, issued>>, NEW reply \in Datagrams,
         reply.proc \in {"HELLO_REPLY", "ACK_REPLY"}, reply.ok = FALSE \/ reply.proc = "HELLO_REPLY",
         net' \subseteq net \cup {reply} \cup Evictions
  PROVE TypeInv' /\ Probed'
<1>1. RingTypeInv' /\ \A s \in Slots : Ages(s)
  BY IdleStep DEF DiscoveryInv, TypeInv
<1>2. Evictions \subseteq [proc : {"EVICT"}, dst : Workers]
  BY <1>1, Evicted DEF DiscoveryInv, TypeInv
<1>3. /\ net' \subseteq Datagrams
      /\ \A w \in Workers : Beat(w) \in net' => Beat(w) \in net
      /\ \A w \in Workers : Assured(w)' => Assured(w)
  BY <1>2, Unassuring, ZenonT(30) DEF DiscoveryInv, TypeInv
<1>4. Probed'
  BY <1>1, <1>3, SlotsKept
<1> QED BY <1>1, <1>3, <1>4 DEF DiscoveryInv, TypeInv

LEMMA RecvHelloNewStep ==
  ASSUME DiscoveryInv, NEW m \in net, NEW n \in Nonces \cup {0}, RecvHelloNew(m, n)
  PROVE TypeInv' /\ Probed'
<1> DEFINE w == m.src
           reply == HelloReply(w, n # 0, n)
<1>1. w \in Workers /\ IsCall(m, w)
  BY Fields DEF RecvHelloNew, DiscoveryInv, TypeInv, IsCall
<1> HIDE DEF w
<1>2. /\ HelloNew(w, n) /\ Exchange(m, reply) /\ workers' = workers
      /\ proven' = proven \ SlotsFor(registry, w)
      /\ issued' \subseteq issued \cup SlotsFor(registry, w)
  BY DEF RecvHelloNew, w
<1>3. reply \in Datagrams /\ reply.proc = "HELLO_REPLY"
  BY <1>1, Sent, Zenon DEF HelloReply
<1> HIDE DEF reply
<1>4. RingTypeInv'
  BY <1>1, <1>2, HelloNewStep DEF DiscoveryInv, TypeInv
<1>5. PICK s \in SlotsFor(registry, w) : Fresh(s, w, "PENDING") /\ \A t \in Slots \ {s} : Ages(t)
  BY <1>1, <1>2, HelloNewStep DEF DiscoveryInv, TypeInv
<1>6. \A t \in Holding(registry, w) : registry[t].state = "EXPIRED"
  BY <1>2 DEF HelloNew
<1>7. workers[w].phase # "up"
  <2>1. ~Assured(w)
    BY <1>1, <1>6 DEF DiscoveryInv, Probed, Certain
  <2> QED BY <1>1, <2>1, ZenonT(30) DEF Assured
<1>8. SlotsFor(registry, w) = {s}
  BY <1>1, OneSlotFor DEF DiscoveryInv
<1>9. Evictions \subseteq [proc : {"EVICT"}, dst : Workers]
  <2>1. \A t \in Slots : Ages(t) \/ registry'[t].state # "EXPIRED" \/ registry[t].state = "EXPIRED"
    BY <1>5 DEF Fresh
  <2> QED BY <2>1, Evicted, Zenon DEF DiscoveryInv, TypeInv
<1>10. net' \subseteq net \cup {reply} \cup Evictions
  BY <1>2 DEF Exchange
<1>11. /\ net' \subseteq Datagrams
       /\ \A v \in Workers : Beat(v) \in net' => Beat(v) \in net
       /\ \A v \in Workers : Assured(v)' => Assured(v)
  BY <1>2, <1>3, <1>9, <1>10, Unassuring, Zenon DEF DiscoveryInv, TypeInv
<1>12. \A t \in Slots :
         \/ Ages(t) /\ (t \in proven' <=> t \in proven)
         \/ /\ Fresh(t, w, "PENDING") /\ workers[w].phase # "up" /\ t \in SlotsFor(registry, w)
            /\ \A u \in Holding(registry, w) : registry[u].state = "EXPIRED"
  BY <1>2, <1>5, <1>6, <1>7, <1>8, Zenon
<1>13. Probed'
  BY <1>1, <1>2, <1>11, <1>12, SlotsKept, Zenon
<1>14. SlotsFor(registry, w) \subseteq Slots
  BY SlotForNew
<1> QED BY <1>2, <1>4, <1>11, <1>13, <1>14 DEF DiscoveryInv, TypeInv

LEMMA RecvAckStep ==
  ASSUME DiscoveryInv, NEW m \in net, RecvAck(m)
  PROVE TypeInv' /\ Probed'
<1> DEFINE w == m.src
           n == m.nonce
<1>1. w \in Workers /\ n \in Nonces
  BY Fields DEF RecvAck, DiscoveryInv, TypeInv
<1> HIDE DEF w, n
<1>2. /\ AckFirst(w, n) \/ AckLinked(w, n)
      /\ Exchange(m, AckReply(w, TRUE)) /\ workers' = workers /\ issued' = issued
      /\ proven' = proven \cup Acked(w, n)
  BY Zenon DEF RecvAck, w, n
<1>3. AckReply(w, TRUE) \in Datagrams /\ AckReply(w, TRUE).proc = "ACK_REPLY"
  BY <1>1, Sent, Zenon DEF AckReply
<1>4. RingTypeInv'
  BY <1>1, <1>2, AckStep DEF DiscoveryInv, TypeInv
<1>5. PICK s \in Acked(w, n) : Fresh(s, w, "ACTIVE") /\ \A t \in Slots \ {s} : Ages(t)
  BY <1>1, <1>2, AckStep, Zenon DEF DiscoveryInv, TypeInv
<1>6. s \in Slots /\ registry[s].id = w /\ Acked(w, n) = {s}
  BY <1>1, OneSlotFor DEF DiscoveryInv, Acked, Holding
<1>7. Evictions \subseteq [proc : {"EVICT"}, dst : Workers]
  <2>1. \A t \in Slots : Ages(t) \/ registry'[t].state # "EXPIRED" \/ registry[t].state = "EXPIRED"
    BY <1>5 DEF Fresh
  <2> QED BY <2>1, Evicted DEF DiscoveryInv, TypeInv
<1>8. net' \subseteq net \cup {AckReply(w, TRUE)} \cup Evictions
  BY <1>2, Zenon DEF Exchange
<1>9. /\ net' \subseteq Datagrams
      /\ \A v \in Workers :
             /\ Beat(v) \in net' => Beat(v) \in net
             /\ (\E d \in net' : IsCall(d, v)) => \E d \in net : IsCall(d, v)
             /\ AckReply(v, TRUE) \in net' => AckReply(v, TRUE) \in net \/ AckReply(w, TRUE) = AckReply(v, TRUE)
  BY <1>3, <1>7, <1>8, Answered, ZenonT(30) DEF DiscoveryInv, TypeInv
<1>10. registry'[s].id = w /\ Certain(s)'
  BY <1>2, <1>5 DEF Fresh, Certain
<1>11. \A v \in Workers : AckReply(w, TRUE) = AckReply(v, TRUE) => v = w
  BY DEF AckReply
<1>12. \A v \in Workers : Assured(v)' => Assured(v) \/ \E t \in Slots : registry'[t].id = v /\ Certain(t)'
  BY <1>2, <1>6, <1>9, <1>10, <1>11, ZenonT(30) DEF Assured
<1>13. \A t \in Slots :
         \/ Ages(t) /\ (t \in proven' <=> t \in proven)
         \/ Fresh(t, registry[t].id, "ACTIVE") /\ t \in proven'
  BY <1>2, <1>5, <1>6
<1>14. Probed'
  BY <1>2, <1>9, <1>12, <1>13, SlotsKept, Zenon
<1> QED BY <1>2, <1>4, <1>6, <1>9, <1>14, Zenon DEF DiscoveryInv, TypeInv

LEMMA RecvHeartbeatStep ==
  ASSUME DiscoveryInv, NEW m \in net, RecvHeartbeat(m)
  PROVE TypeInv' /\ Probed'
<1> DEFINE w == m.src
<1>1. w \in Workers /\ m = Beat(w)
  <2>1. m \in [proc : {"HEARTBEAT"}, src : Workers]
    BY Fields DEF RecvHeartbeat, DiscoveryInv, TypeInv
  <2> QED BY <2>1 DEF Beat
<1> HIDE DEF w
<1>2. Heartbeat(w) /\ net' \subseteq net \cup Evictions /\ UNCHANGED <<workers, proven, issued>>
  BY Zenon DEF RecvHeartbeat, w
<1>3. /\ RingTypeInv'
      /\ \A s \in Slots \ Holding(registry, w) : Ages(s)
      /\ \A s \in Holding(registry, w) :
           Fresh(s, w, IF registry[s].state = "SUSPECTED" THEN "ACTIVE" ELSE registry[s].state)
  BY <1>1, <1>2, HeartbeatStep, Zenon DEF DiscoveryInv, TypeInv
<1>4. Evictions \subseteq [proc : {"EVICT"}, dst : Workers]
  <2>1. \A t \in Slots : Ages(t) \/ registry'[t].state # "EXPIRED" \/ registry[t].state = "EXPIRED"
    BY <1>3 DEF Fresh
  <2> QED BY <2>1, Evicted, Zenon DEF DiscoveryInv, TypeInv
<1>5. AckReply(w, FALSE) \in Datagrams /\ AckReply(w, FALSE).proc = "ACK_REPLY" /\ AckReply(w, FALSE).ok = FALSE
  BY <1>1, Sent, Zenon DEF AckReply
<1>6. /\ net' \subseteq Datagrams
      /\ \A v \in Workers : Beat(v) \in net' => Beat(v) \in net
      /\ \A v \in Workers : Assured(v)' => Assured(v)
  BY <1>2, <1>4, <1>5, Unassuring, Zenon DEF DiscoveryInv, TypeInv
<1>7. \A s \in Slots :
        \/ Ages(s) /\ (s \in proven' <=> s \in proven)
        \/ /\ s \in proven' <=> s \in proven
           /\ Beat(registry[s].id) \in net
           /\ Fresh(s, registry[s].id, IF registry[s].state = "SUSPECTED" THEN "ACTIVE" ELSE registry[s].state)
  BY <1>1, <1>2, <1>3, ZenonT(30) DEF Holding
<1>8. Probed'
  BY <1>2, <1>6, <1>7, SlotsKept
<1> QED BY <1>2, <1>3, <1>6, <1>8, Zenon DEF DiscoveryInv, TypeInv

\* The steps of the master.
LEMMA MasterStep ==
  ASSUME DiscoveryInv,
         (\E m \in net : MasterRecv(m)) \/ MasterIdle \/ MasterRestitch \/ TimePasses
  PROVE DiscoveryInv'
<1>1. RingTypeInv /\ OneSlotPerWorker /\ net \subseteq Datagrams
  BY Zenon DEF DiscoveryInv, TypeInv
<1>2. workers' = workers
  BY Zenon DEF MasterRecv, RecvHelloAgain, RecvHelloRefused, RecvHelloNew, RecvAckRefused, RecvAck, RecvHeartbeat,
         MasterIdle, MasterRestitch, TimePasses
<1>3. NonceKept'
  BY <1>2 DEF DiscoveryInv, NonceKept
<1>4. ASSUME NEW m \in net, MasterRecv(m) PROVE m.src \in Workers /\ Handler(m.src) /\ TypeInv' /\ Probed'
  <2>1. CASE RecvHelloAgain(m)
    <3>1. m.src \in Workers
      BY <1>1, <2>1, Fields DEF RecvHelloAgain
    <3>2. PICK s \in Holding(registry, m.src) : Exchange(m, HelloReply(m.src, TRUE, registry[s].nonce))
      BY <2>1, Zenon DEF RecvHelloAgain
    <3> DEFINE reply == HelloReply(m.src, TRUE, registry[s].nonce)
    <3>3. registry[s].nonce \in Nonces \cup {0}
      BY <1>1 DEF Holding, RingTypeInv, Entries
    <3>4. reply \in Datagrams /\ reply.proc = "HELLO_REPLY"
      BY <3>1, <3>3, Sent, Zenon DEF HelloReply
    <3>5. net' \subseteq net \cup {reply} \cup Evictions
      BY <3>2, Zenon DEF Exchange
    <3>6. Pump(registry) /\ UNCHANGED <<workers, proven, issued>>
      BY <2>1 DEF RecvHelloAgain, HelloAgain
    <3> HIDE DEF reply
    <3>7. TypeInv' /\ Probed'
      BY <3>4, <3>5, <3>6, AgeingStep, Zenon
    <3> QED BY <2>1, <3>1, <3>7 DEF RecvHelloAgain, Handler
  <2>2. CASE RecvHelloRefused(m)
    <3>1. m.src \in Workers
      BY <1>1, <2>2, Fields DEF RecvHelloRefused
    <3> DEFINE reply == HelloReply(m.src, FALSE, 0)
    <3>2. reply \in Datagrams /\ reply.proc = "HELLO_REPLY"
      BY <3>1, Sent, Zenon DEF HelloReply
    <3>3. net' \subseteq net \cup {reply} \cup Evictions
      BY <2>2, Zenon DEF RecvHelloRefused, Exchange
    <3>4. Pump(registry) /\ UNCHANGED <<workers, proven, issued>>
      BY <2>2 DEF RecvHelloRefused, HelloRefused
    <3> HIDE DEF reply
    <3>5. TypeInv' /\ Probed'
      BY <3>2, <3>3, <3>4, AgeingStep, Zenon
    <3> QED BY <2>2, <3>1, <3>5 DEF RecvHelloRefused, Handler
  <2>3. CASE RecvAckRefused(m)
    <3>1. m.src \in Workers /\ m.nonce \in Nonces
      BY <1>1, <2>3, Fields DEF RecvAckRefused
    <3> DEFINE reply == AckReply(m.src, FALSE)
    <3>2. reply \in Datagrams /\ reply.proc = "ACK_REPLY" /\ reply.ok = FALSE
      BY <3>1, Sent, Zenon DEF AckReply
    <3>3. net' \subseteq net \cup {reply} \cup Evictions
      BY <2>3, Zenon DEF RecvAckRefused, Exchange
    <3>4. Pump(registry) /\ UNCHANGED <<workers, proven, issued>>
      BY <2>3 DEF RecvAckRefused, AckRefused
    <3> HIDE DEF reply
    <3>5. TypeInv' /\ Probed'
      BY <3>2, <3>3, <3>4, AgeingStep, Zenon
    <3> QED BY <2>3, <3>1, <3>5 DEF RecvAckRefused, Handler
  <2>4. ASSUME NEW n \in Nonces \cup {0}, RecvHelloNew(m, n)
        PROVE m.src \in Workers /\ Handler(m.src) /\ TypeInv' /\ Probed'
    <3>1. m.src \in Workers /\ HelloNew(m.src, n)
      BY <1>1, <2>4, Fields DEF RecvHelloNew
    <3> QED BY <2>4, <3>1, RecvHelloNewStep DEF Handler
  <2>5. CASE RecvAck(m)
    <3>1. m.src \in Workers /\ m.nonce \in Nonces
      BY <1>1, <2>5, Fields DEF RecvAck
    <3>2. Handler(m.src)
      BY <2>5, <3>1 DEF RecvAck, Handler
    <3> QED BY <2>5, <3>1, <3>2, RecvAckStep, ZenonT(30)
  <2>6. CASE RecvHeartbeat(m)
    <3>1. m.src \in Workers
      BY <1>1, <2>6, Fields DEF RecvHeartbeat
    <3> QED BY <2>6, <3>1, RecvHeartbeatStep DEF RecvHeartbeat, Handler
  <2> QED BY <1>4, <2>1, <2>2, <2>3, <2>4, <2>5, <2>6 DEF MasterRecv
<1>5. CASE MasterIdle
  <2>1. Pump(registry) /\ net' = net \cup Evictions /\ UNCHANGED <<workers, proven, issued>>
    BY <1>5 DEF MasterIdle, PumpIdle
  <2>2. RingTypeInv' /\ \A s \in Slots : Ages(s)
    BY <1>1, <2>1, IdleStep
  <2>3. Evictions \subseteq [proc : {"EVICT"}, dst : Workers]
    BY <1>1, <2>2, Evicted
  <2>4. net' \subseteq Datagrams
    BY <1>1, <2>1, <2>3 DEF Datagrams
  <2>5. ASSUME NEW w \in Workers
        PROVE (Beat(w) \in net' => Beat(w) \in net) /\ (Assured(w)' => Assured(w))
    <3>1. AckReply(w, FALSE) \in Datagrams /\ AckReply(w, FALSE).proc = "ACK_REPLY" /\ AckReply(w, FALSE).ok = FALSE
      BY Sent, Zenon DEF AckReply
    <3>2. net' \subseteq net \cup {AckReply(w, FALSE)} \cup Evictions
      BY <2>1, Zenon
    <3> QED BY <1>1, <1>2, <2>3, <3>1, <3>2, Unassuring, Zenon
  <2>6. Probed'
    BY <2>1, <2>2, <2>5, SlotsKept, Zenon
  <2>7. TypeInv'
    BY <2>1, <2>2, <2>4, Zenon DEF DiscoveryInv, TypeInv
  <2>8. OneSlotPerWorker'
    BY <1>1, <2>2, SameIds, ZenonT(30) DEF Ages
  <2> QED BY <1>3, <2>6, <2>7, <2>8 DEF DiscoveryInv
<1>6. CASE MasterRestitch
  <2>1. Restitch /\ UNCHANGED <<workers, net, proven, issued>>
    BY <1>6 DEF MasterRestitch
  <2>2. /\ RingTypeInv'
        /\ \A s \in Slots : /\ registry'[s].id = registry[s].id /\ registry'[s].state = registry[s].state
                            /\ registry'[s].age = registry[s].age
    BY <1>1, <2>1, RestitchStep, SMTT(30)
  <2>3. \A s \in Slots : Ages(s)
    BY <2>2 DEF Ages
  <2>4. \A w \in Workers : Assured(w)' => Assured(w)
    BY <2>1, Zenon DEF Assured
  <2>5. Probed'
    BY <2>1, <2>3, <2>4, SlotsKept, Zenon
  <2>6. OneSlotPerWorker'
    BY <1>1, <2>2, SameIds, ZenonT(30)
  <2> QED BY <1>3, <2>1, <2>2, <2>5, <2>6, SMTT(30) DEF DiscoveryInv, TypeInv
<1>7. CASE TimePasses
  <2>1. Tick /\ net' = {} /\ UNCHANGED <<workers, proven, issued>>
    BY <1>7 DEF TimePasses
  <2>2. RingTypeInv' /\ \A s \in Slots : registry'[s].id = registry[s].id /\ registry'[s].state = registry[s].state
    BY <1>1, <2>1, TickStep, Zenon
  <2>3. Active(registry') = Active(registry) /\ \A w \in Workers : Holding(registry', w) = Holding(registry, w)
    BY <2>2 DEF Active, Holding
  <2>4. \A w \in Workers : ~Assured(w)' /\ Beat(w) \notin net'
    BY <2>1, ZenonT(30) DEF Assured
  <2>5. Probed'
    BY <2>1, <2>2, <2>3, <2>4 DEF DiscoveryInv, Probed, ActiveMeansProbed, Holding
  <2>6. OneSlotPerWorker'
    BY <1>1, <2>2, SameIds
  <2> QED BY <1>3, <2>1, <2>2, <2>5, <2>6, SMTT(30) DEF DiscoveryInv, TypeInv
<1>8. ASSUME NEW m \in net, MasterRecv(m) PROVE DiscoveryInv'
  <2>1. m.src \in Workers /\ Handler(m.src) /\ TypeInv' /\ Probed'
    BY <1>4, <1>8
  <2>2. RingInv'
    BY <1>1, <2>1, RingInvStep DEF RingInv, RingNext
  <2> QED BY <1>3, <2>1, <2>2 DEF DiscoveryInv, RingInv
<1> QED BY <1>5, <1>6, <1>7, <1>8

\* A process with a field stored into is a process.
LEMMA StoredProcess ==
  ASSUME NEW p \in Processes
  PROVE /\ \A phase \in Phases : [p EXCEPT !.phase = phase] \in Processes
        /\ \A initial \in BOOLEAN : [p EXCEPT !.initial = initial] \in Processes
        /\ \A n \in Nonces \cup {0} : [p EXCEPT !.nonce = n] \in Processes
        /\ \A k \in 0 .. RPC_MAX_RETRIES : [p EXCEPT !.tries = k] \in Processes
  BY DEF Processes

\* A step of worker w, which becomes f and sends calls while it is not up, or a
\* heartbeat while it is.
OwnStep(w, f, sent) ==
  /\ workers' = [workers EXCEPT ![w] = f] /\ UNCHANGED <<registry, calm, proven, issued>>
  /\ net' \subseteq net \cup Retire(w) \cup sent
  /\ sent \subseteq Datagrams
  /\ f.phase = "ack" => f.nonce # 0
  /\ f.phase = "up" => workers[w].phase = "up" \/ AckReply(w, TRUE) \in net
  /\ \A d \in sent : \/ IsCall(d, w) /\ f.phase # "up"
                     \/ d = Beat(w) /\ workers[w].phase = "up"

LEMMA WorkerKept ==
  ASSUME DiscoveryInv, NEW w \in Workers, NEW f \in Processes, NEW sent, OwnStep(w, f, sent)
  PROVE DiscoveryInv'
<1> USE DEF OwnStep
<1>1. workers \in [Workers -> Processes] /\ net \subseteq Datagrams
  BY DEF DiscoveryInv, TypeInv
<1>2. /\ Retire(w) \subseteq Datagrams
      /\ \A v \in Workers :
             /\ AckReply(v, TRUE) \in Retire(w) => AckReply(v, TRUE) \in net
             /\ Beat(v) \in Retire(w) => Beat(v) \in net
             /\ (\E m \in Retire(w) : IsCall(m, v)) => \E m \in net : IsCall(m, v)
  BY <1>1, Retired, Zenon
<1>3. TypeInv'
  <2>1. RingTypeInv'
    BY DEF DiscoveryInv, TypeInv, RingTypeInv
  <2>2. net' \subseteq Datagrams
    BY <1>1, <1>2
  <2> QED BY <1>1, <2>1, <2>2 DEF DiscoveryInv, TypeInv
<1>4. \A v \in Workers : workers'[v] = IF v = w THEN f ELSE workers[v]
  BY <1>1
<1>5. NonceKept'
  BY <1>4, SMTT(30) DEF DiscoveryInv, NonceKept
<1>6. \A v \in Workers : AckReply(v, TRUE).proc = "ACK_REPLY" /\ Beat(v).proc = "HEARTBEAT" /\ Beat(v).src = v
  BY DEF AckReply, Beat
<1>7. \A d \in sent : \/ d.proc \in {"AUTH_HELLO", "CAP_ACK"} /\ d.src = w /\ f.phase # "up"
                      \/ d.proc = "HEARTBEAT" /\ d.src = w /\ workers[w].phase = "up"
  BY <1>6, ZenonT(30) DEF IsCall
<1>8. ASSUME NEW v \in Workers, Beat(v) \in net' PROVE Beat(v) \in net \/ workers[v].phase = "up"
  <2>1. Beat(v) \in net \/ Beat(v) \in Retire(w) \/ Beat(v) \in sent
    BY <1>8
  <2>2. Beat(v) \in sent => v = w /\ workers[w].phase = "up"
    BY <1>6, <1>7, ZenonT(30)
  <2> QED BY <1>2, <2>1, <2>2, Zenon
<1>9. \A v \in Workers : AckReply(v, TRUE) \in net' => AckReply(v, TRUE) \in net
  BY <1>2, <1>6, <1>7, Zenon
<1>10. ASSUME NEW v \in Workers, workers'[v].phase = "up", NEW m \in net', IsCall(m, v) PROVE Assured(v)
  <2>1. m \notin sent
    BY <1>4, <1>7, <1>10 DEF IsCall
  <2>2. \E d \in net : IsCall(d, v)
    BY <1>2, <1>10, <2>1, Zenon
  <2> QED BY <1>4, <1>10, <2>2, ZenonT(30) DEF Assured
<1>11. \A v \in Workers : Assured(v)' => Assured(v)
  BY <1>9, <1>10, Zenon DEF Assured
<1>12. \A v \in Workers : workers'[v].phase = "up" => workers[v].phase = "up" \/ AckReply(v, TRUE) \in net
  BY <1>4, Zenon
<1>13. Probed'
  BY <1>8, <1>11, <1>12, RegistryKept, ZenonT(30)
<1> QED BY <1>3, <1>5, <1>13 DEF DiscoveryInv, OneSlotPerWorker

\* The steps of a worker that only store into its process.
LEMMA WorkerStep ==
  ASSUME DiscoveryInv, NEW w \in Workers,
         Register(w) \/ Retransmit(w) \/ GiveUp(w) \/ SendHeartbeat(w) \/ Crash(w) \/ \E m \in net : WorkerRecv(w, m)
  PROVE DiscoveryInv'
<1> DEFINE p == workers[w]
<1>1. p \in Processes /\ workers \in [Workers -> Processes] /\ net \subseteq Datagrams
  BY DEF DiscoveryInv, TypeInv
<1>2. {0, 1} \subseteq 0 .. RPC_MAX_RETRIES /\ {"down", "hello", "ack", "up", "evicted"} \subseteq Phases
  BY RetryAssumption DEF Phases
<1>3. IsCall(Hello(w), w) /\ \A n \in Nonces : IsCall(Ack(w, n), w)
  BY DEF IsCall, Hello, Ack
<1>4. CASE Register(w)
  <2> DEFINE f == [p EXCEPT !.phase = "hello", !.tries = 1]
  <2>1. f \in Processes
    <3> HIDE DEF p
    <3> QED BY <1>1, <1>2, StoredProcess, Zenon
  <2>2. f.phase = "hello"
    BY <1>1 DEF Processes
  <2>3. workers' = [workers EXCEPT ![w] = f]
    BY <1>1, <1>4, Zenon DEF Register
  <2> HIDE DEF f
  <2>4. net' \subseteq net \cup Retire(w) \cup {Hello(w)} /\ UNCHANGED <<registry, calm, proven, issued>>
    BY <1>4 DEF Register
  <2>5. {Hello(w)} \subseteq Datagrams
    BY Sent, ZenonT(30)
  <2>own. OwnStep(w, f, {Hello(w)})
    BY <1>3, <2>1, <2>2, <2>3, <2>4, <2>5, SMTT(30) DEF OwnStep
  <2> QED BY <2>1, <2>own, WorkerKept
<1>5. CASE Retransmit(w)
  <2> DEFINE f == [p EXCEPT !.tries = p.tries + 1]
             d == IF p.phase = "hello" THEN Hello(w) ELSE Ack(w, p.nonce)
  <2>1. p.tries + 1 \in 0 .. RPC_MAX_RETRIES /\ p.phase \in {"hello", "ack"}
    BY <1>1, <1>5, RetryAssumption DEF Retransmit, Processes
  <2>2. f \in Processes
    <3> DEFINE k == p.tries + 1
    <3> HIDE DEF p, k
    <3> QED BY <1>1, <2>1, StoredProcess DEF k
  <2>3. f.phase = p.phase /\ f.nonce = p.nonce
    BY <1>1 DEF Processes
  <2>4. workers' = [workers EXCEPT ![w] = f]
    BY <1>1, <1>5 DEF Retransmit
  <2>5. p.phase = "ack" => p.nonce \in Nonces /\ p.nonce # 0
    BY <1>1 DEF DiscoveryInv, NonceKept, Processes
  <2>6. {d} \subseteq Datagrams /\ IsCall(d, w)
    BY <1>3, <2>1, <2>5, Sent, ZenonT(30)
  <2>7. net' \subseteq net \cup Retire(w) \cup {d} /\ UNCHANGED <<registry, calm, proven, issued>>
    BY <1>5 DEF Retransmit
  <2> HIDE DEF f, d
  <2>own. OwnStep(w, f, {d})
    BY <2>1, <2>2, <2>3, <2>4, <2>5, <2>6, <2>7, ZenonT(30) DEF OwnStep
  <2> QED BY <2>2, <2>own, WorkerKept
<1>6. ASSUME Failed(w) PROVE DiscoveryInv'
  <2> DEFINE phase == IF p.initial THEN "down" ELSE "evicted"
             f == [p EXCEPT !.phase = phase, !.tries = 0, !.nonce = 0]
  <2>1. phase \in Phases /\ phase \in {"down", "evicted"}
    BY <1>2, ZenonT(30)
  <2>2. f \in Processes
    <3> HIDE DEF p, phase
    <3> QED BY <1>1, <1>2, <2>1, StoredProcess, ZenonT(30)
  <2>3. f.phase = phase
    BY <1>1 DEF Processes
  <2>4. workers' = [workers EXCEPT ![w] = f]
    BY <1>1, <1>6, Zenon DEF Failed
  <2> HIDE DEF f, phase
  <2>5. net' \subseteq net \cup Retire(w) \cup {} /\ UNCHANGED <<registry, calm, proven, issued>>
    BY <1>6 DEF Failed
  <2>own. OwnStep(w, f, {})
    BY <2>1, <2>2, <2>3, <2>4, <2>5, ZenonT(30) DEF OwnStep
  <2> QED BY <2>2, <2>own, WorkerKept
<1>7. CASE SendHeartbeat(w)
  <2>1. workers' = [workers EXCEPT ![w] = p]
    BY <1>1, <1>7, ZenonT(30) DEF SendHeartbeat
  <2>2. p.phase = "up" /\ net' \subseteq net \cup Retire(w) \cup {Beat(w)} /\ UNCHANGED <<registry, calm, proven, issued>>
    BY <1>7 DEF SendHeartbeat, Beat
  <2>3. {Beat(w)} \subseteq Datagrams
    BY Sent, Zenon
  <2>own. OwnStep(w, p, {Beat(w)})
    BY <1>1, <2>1, <2>2, <2>3 DEF OwnStep
  <2> QED BY <1>1, <2>own, WorkerKept, Zenon
<1>8. CASE Crash(w)
  <2> DEFINE f == [p EXCEPT !.phase = "down", !.initial = TRUE, !.tries = 0, !.nonce = 0]
  <2>1. f \in Processes
    <3> HIDE DEF p
    <3> QED BY <1>1, <1>2, StoredProcess, Zenon
  <2>2. f.phase = "down"
    BY <1>1 DEF Processes
  <2>3. workers' = [workers EXCEPT ![w] = f]
    BY <1>1, <1>8, Zenon DEF Crash
  <2> HIDE DEF f
  <2>4. net' \subseteq net \cup Retire(w) \cup {} /\ UNCHANGED <<registry, calm, proven, issued>>
    BY <1>8 DEF Crash
  <2>own. OwnStep(w, f, {})
    BY <2>1, <2>2, <2>3, <2>4 DEF OwnStep
  <2> QED BY <2>1, <2>own, WorkerKept
<1>9. ASSUME NEW m \in net, SendAck(w, m) PROVE DiscoveryInv'
  <2> DEFINE n == m.nonce
             f == [p EXCEPT !.phase = "ack", !.tries = 1, !.nonce = n]
  <2>1. n \in Nonces /\ n # 0
    BY <1>1, <1>9, Fields DEF SendAck
  <2>2. f \in Processes
    <3> HIDE DEF p, n
    <3> QED BY <1>1, <1>2, <2>1, StoredProcess, Zenon
  <2>3. f.phase = "ack" /\ f.nonce = n
    BY <1>1 DEF Processes
  <2>4. workers' = [workers EXCEPT ![w] = f]
    BY <1>1, <1>9, Zenon DEF SendAck
  <2>5. net' \subseteq net \cup Retire(w) \cup {Ack(w, n)} /\ UNCHANGED <<registry, calm, proven, issued>>
    BY <1>9 DEF SendAck
  <2> HIDE DEF f, n
  <2>6. {Ack(w, n)} \subseteq Datagrams
    BY <2>1, Sent, ZenonT(30)
  <2>own. OwnStep(w, f, {Ack(w, n)})
    BY <1>3, <2>1, <2>2, <2>3, <2>4, <2>5, <2>6, SMTT(30) DEF OwnStep
  <2> QED BY <2>2, <2>own, WorkerKept
<1>10. ASSUME NEW m \in net, Registered(w, m) PROVE DiscoveryInv'
  <2> DEFINE f == [p EXCEPT !.phase = "up", !.initial = FALSE, !.tries = 0, !.nonce = 0]
  <2>1. f \in Processes
    <3> HIDE DEF p
    <3> QED BY <1>1, <1>2, StoredProcess, Zenon
  <2>2. f.phase = "up"
    BY <1>1 DEF Processes
  <2>3. workers' = [workers EXCEPT ![w] = f]
    BY <1>1, <1>10, Zenon DEF Registered
  <2> HIDE DEF f
  <2>4. net' \subseteq net \cup Retire(w) \cup {} /\ UNCHANGED <<registry, calm, proven, issued>>
    BY <1>10 DEF Registered
  <2>5. AckReply(w, TRUE) \in net
    <3>1. m \in [proc : {"ACK_REPLY"}, dst : Workers, ok : BOOLEAN]
      BY <1>1, <1>10, Fields DEF Registered
    <3>2. m.proc = "ACK_REPLY" /\ m.dst = w /\ m.ok = TRUE
      BY <1>10, <3>1 DEF Registered
    <3>3. m = AckReply(w, TRUE)
      BY <3>1, <3>2 DEF AckReply
    <3> QED BY <3>3, Zenon
  <2>own. OwnStep(w, f, {})
    BY <2>1, <2>2, <2>3, <2>4, <2>5, ZenonT(30) DEF OwnStep
  <2> QED BY <2>1, <2>own, WorkerKept
<1>11. ASSUME NEW m \in net, RecvEvict(w, m) PROVE DiscoveryInv'
  <2> DEFINE phase == IF p.phase = "up" THEN "evicted" ELSE p.phase
             f == [p EXCEPT !.phase = phase]
  <2>1. phase \in Phases /\ phase # "up" /\ (phase = "ack" => p.phase = "ack")
    BY <1>1, <1>2 DEF Processes
  <2>2. f \in Processes
    <3> HIDE DEF p, phase
    <3> QED BY <1>1, <2>1, StoredProcess
  <2>3. f.phase = phase /\ f.nonce = p.nonce
    BY <1>1 DEF Processes
  <2>4. workers' = [workers EXCEPT ![w] = f]
    BY <1>1, <1>11 DEF RecvEvict
  <2>5. f.phase = "ack" => f.nonce # 0
    BY <2>1, <2>3 DEF DiscoveryInv, NonceKept
  <2> HIDE DEF f, phase
  <2>6. net' \subseteq net \cup Retire(w) \cup {} /\ UNCHANGED <<registry, calm, proven, issued>>
    BY <1>11 DEF RecvEvict
  <2>own. OwnStep(w, f, {})
    BY <2>1, <2>2, <2>3, <2>4, <2>5, <2>6, ZenonT(30) DEF OwnStep
  <2> QED BY <2>2, <2>own, WorkerKept
<1> QED BY <1>4, <1>5, <1>6, <1>7, <1>8, <1>9, <1>10, <1>11, ZenonT(30) DEF GiveUp, WorkerRecv, Refused

LEMMA LoseStep ==
  ASSUME DiscoveryInv, NEW m \in net, Lose(m)
  PROVE DiscoveryInv'
<1>1. net' \subseteq net /\ UNCHANGED <<registry, calm, workers, proven, issued>>
  BY DEF Lose
<1>2. \A w \in Workers : Assured(w)' => Assured(w)
  BY <1>1, Zenon DEF Assured
<1>3. Probed'
  BY <1>1, <1>2, RegistryKept, Zenon
<1> QED BY <1>1, <1>3 DEF DiscoveryInv, TypeInv, RingTypeInv, OneSlotPerWorker, NonceKept

LEMMA DiscoveryInvStep ==
  ASSUME DiscoveryInv, [Next]_vars
  PROVE DiscoveryInv'
<1>1. CASE UNCHANGED vars
  <2>1. UNCHANGED <<registry, calm, workers, net, proven, issued>>
    BY <1>1 DEF vars
  <2>2. \A w \in Workers : Assured(w)' => Assured(w)
    BY <2>1, Zenon DEF Assured
  <2>3. Probed'
    BY <2>1, <2>2, RegistryKept, Zenon
  <2> QED BY <2>1, <2>3 DEF DiscoveryInv, TypeInv, RingTypeInv, OneSlotPerWorker, NonceKept
<1> QED BY <1>1, MasterStep, WorkerStep, LoseStep DEF Next

LEMMA DiscoveryInvariant == Spec => []DiscoveryInv
  BY DiscoveryInvInit, DiscoveryInvStep, PTL DEF Spec

\* discovery.h, distinf.c: the registry, the workers and the datagrams in flight
\* keep their shape.
THEOREM DiscoveryTyped == Spec => []TypeInv
<1>1. DiscoveryInv => TypeInv
  BY ZenonT(30) DEF DiscoveryInv
<1> QED BY <1>1, DiscoveryInvariant, PTL

\* discovery.c:550-581: no worker is ACTIVE that was not probed since it last
\* registered: not through a heartbeat, a crash, a retransmitted or reordered
\* datagram or a slot that changes hands.
THEOREM ActiveWorkersWereProbed == Spec => []ActiveMeansProbed
<1>1. DiscoveryInv => ActiveMeansProbed
  BY DEF DiscoveryInv, Probed
<1> QED BY <1>1, DiscoveryInvariant, PTL
=============================================================================
