---------------------------- MODULE SessionProofs ----------------------------
(***************************************************************************)
(* A session's final activation is complete, for any number of workers,    *)
(* layers, tokens, retransmissions, restarts and re-registrations.         *)
(***************************************************************************)
EXTENDS Session, Lemmas

-----------------------------------------------------------------------------
(* The inductive invariant.  Its parts take the master's record M, the     *)
(* workers W and the datagrams as parameters.                              *)

Addresses == Workers \cup {Master}

Masters ==
  [pc : {"idle", "notify", "assign", "wait", "token", "done", "aborted", "exhausted"},
   sess : Nat, order : Seq(Workers), k : Nat, try : Nat, ready : Nat, failed : BOOLEAN,
   pos : Nat, attempt : Nat, seq : Nat, restarts : Nat]

Entries == [state : {"ACTIVE", "SUSPECTED", "EXPIRED"}, prev : Addresses, next : Addresses]

Assignments == [sess : Nat \ {0}, lo : Nat, hi : Nat]

Hops == [proc : {"INFER"}, src : Addresses, dst : Addresses, sess : Nat, seq : Nat,
         pos : Nat, final : BOOLEAN, data : Int]

Processes ==
  [prev : Addresses, next : Addresses, asg : Assignments \cup {<< >>},
   load : Assignments \cup {<< >>}, ready : BOOLEAN, session : Nat, lo : Nat, hi : Nat,
   kv : SUBSET Nat, hop : Hops \cup {<< >>}, last : Nat]

Datagrams ==
  [proc : {"SET_NEIGHBOR"}, dst : Workers, prev : Addresses, next : Addresses, sess : Nat, try : Nat]
  \cup [proc : {"ASSIGN"}, dst : Workers, sess : Nat \ {0}, try : Nat, lo : Nat, hi : Nat]
  \cup [proc : {"NEIGHBOR_OK", "ASSIGN_OK"}, src : Workers, sess : Nat]
  \cup [proc : {"SHARD_READY"}, src : Workers, sess : Nat, ok : BOOLEAN]
  \cup Hops

Types ==
  /\ master \in Masters
  /\ reg \in [Workers -> Entries]
  /\ worker \in [Workers -> Processes]
  /\ net \subseteq Datagrams
  /\ disturbed \in BOOLEAN

\* The ring pointers of the k-th worker of order o.
Points(o, p, k) ==
  /\ p.prev = IF k = 1 THEN Master ELSE o[k - 1]
  /\ p.next = IF k = Len(o) THEN Master ELSE o[k + 1]

\* Range a is the one worker w of order o is due.
Ranged(o, w, a) ==
  \E k \in 1 .. Len(o) :
    /\ w = o[k]
    /\ a.lo = Start(NLayers, Len(o), k - 1)
    /\ a.hi = Start(NLayers, Len(o), k - 1) + Count(NLayers, Len(o), k - 1)

\* The k-th worker has computed position q in the session.
Cached(M, W, k, q) == W[M.order[k]].session = M.sess /\ q \in W[M.order[k]].kv

\* The master's order lists each worker once.
Placed(M) ==
  /\ \A i, j \in 1 .. Len(M.order) : M.order[i] = M.order[j] => i = j
  /\ M.pc \notin {"idle", "aborted"} => M.sess # 0 /\ Len(M.order) # 0
  /\ M.pc \in {"notify", "assign"} => M.k \in 1 .. Len(M.order)

\* No activation is ahead of the master; those of the attempt under way are of
\* the position under way.
HopOk(M, h) ==
  /\ h.sess <= M.sess
  /\ h.seq <= M.seq
  /\ h.sess = M.sess => M.pc # "notify"
  /\ h.sess = M.sess /\ M.pc = "token" /\ h.seq = M.seq => h.pos = M.pos

\* What holds of a datagram whatever was lost.
MsgOk(M, m) ==
  /\ m.sess <= M.sess
  /\ m.proc = "SET_NEIGHBOR" /\ m.sess = M.sess /\ M.sess # 0 =>
       \E k \in 1 .. Len(M.order) : m.dst = M.order[k] /\ Points(M.order, m, k)
  /\ m.proc = "ASSIGN" /\ m.sess = M.sess => Ranged(M.order, m.dst, m)
  /\ m.proc = "INFER" => HopOk(M, m)

\* What holds of worker w's process p whatever was lost.
ProcOk(M, w, p) ==
  /\ p.session <= M.sess
  /\ p.asg # << >> => p.asg.sess <= M.sess
  /\ p.load # << >> => p.load.sess <= M.sess /\ p.kv = {}
  /\ p.hop # << >> => HopOk(M, p.hop) /\ p.hop.dst = w
  /\ p.ready => p.session # 0

\* An undisturbed worker takes its range of the session once, and computes in
\* the session only once it has loaded it.
Given(M, w, p) ==
  /\ p.asg # << >> /\ p.asg.sess = M.sess => Ranged(M.order, w, p.asg)
  /\ p.load # << >> /\ p.load.sess = M.sess => Ranged(M.order, w, p.load) /\ p.asg = << >>
  /\ p.session = M.sess => Ranged(M.order, w, p) /\ p.asg = << >> /\ p.load = << >>
  /\ p.session = M.sess /\ p.hop # << >> /\ p.hop.sess # M.sess => p.kv = {}
  /\ p.hop # << >> /\ p.hop.sess = M.sess => p.session = M.sess

\* An activation of the session went through the workers before the one it is
\* for, all of which have the earlier positions.
Due(M, W, m) ==
  /\ \A j \in 1 .. Len(M.order), q \in 0 .. m.pos - 1 : Cached(M, W, j, q)
  /\ \/ m.dst = Master /\ m.data = NLayers /\ \A j \in 1 .. Len(M.order) : Cached(M, W, j, m.pos)
     \/ \E k \in 1 .. Len(M.order) :
          /\ m.dst = M.order[k] /\ m.data = Start(NLayers, Len(M.order), k - 1)
          /\ \A j \in 1 .. k - 1 : Cached(M, W, j, m.pos)

\* An answer to SET_NEIGHBOR comes from a worker with the ring's pointers.
Acked(M, W, m) ==
  m.proc = "NEIGHBOR_OK" /\ m.sess = M.sess =>
    \E k \in 1 .. Len(M.order) : m.src = M.order[k] /\ Points(M.order, W[m.src], k)

Told(M, W) ==
  \A k \in 1 .. Len(M.order) :
    (M.pc = "notify" => k < M.k) => Points(M.order, W[M.order[k]], k)

Computed(M, W) ==
  M.pc = "token" => \A j \in 1 .. Len(M.order), q \in 0 .. M.pos - 1 : Cached(M, W, j, q)

IsDue(M, W, m) == m.sess = M.sess => Due(M, W, m)

\* What holds while the session is undisturbed.
Calm(M, W, ns) ==
  /\ \A m \in ns : Acked(M, W, m) /\ (m.proc = "INFER" => IsDue(M, W, m))
  /\ Told(M, W)
  /\ \A w \in Workers : Given(M, w, W[w]) /\ (W[w].hop # << >> => IsDue(M, W, W[w].hop))
  /\ Computed(M, W)

RegOk(M, r) == M.pc = "notify" => \A k \in 1 .. Len(M.order) : Points(M.order, r[M.order[k]], k)

SessionInv ==
  /\ Types
  /\ Placed(master)
  /\ RegOk(master, reg)
  /\ \A m \in net : MsgOk(master, m)
  /\ \A w \in Workers : ProcOk(master, w, worker[w])
  /\ ~disturbed /\ master.sess # 0 => Calm(master, worker, net)
  /\ FinalComplete

-----------------------------------------------------------------------------
(* Steps of the master within a session.                                   *)

\* Where a step of the master's thread may go.
Onward(M, L) ==
  /\ L.sess = M.sess /\ L.order = M.order
  /\ L.pc = "notify" => M.pc = "notify"
  /\ L.seq >= M.seq
  /\ L.pc = "token" /\ L.seq = M.seq => M.pc = "token" /\ L.pos = M.pos

LEMMA HopOnward ==
  ASSUME NEW M \in Masters, NEW L \in Masters, Onward(M, L), NEW h \in Hops, HopOk(M, h)
  PROVE  HopOk(L, h)
<1>1. /\ M.sess \in Nat /\ L.sess \in Nat /\ M.seq \in Nat /\ L.seq \in Nat
      /\ h.sess \in Nat /\ h.seq \in Nat
  BY DEF Masters, Hops
<1> QED BY <1>1 DEF Onward, HopOk

\* An activation is a datagram of its kind.
LEMMA Activation ==
  ASSUME NEW m \in Datagrams, m.proc = "INFER"
  PROVE  m \in Hops
  BY DEF Datagrams, Hops

LEMMA MsgOnward ==
  ASSUME NEW M \in Masters, NEW L \in Masters, Onward(M, L), NEW m \in Datagrams, MsgOk(M, m)
  PROVE  MsgOk(L, m)
<1>1. L.sess = M.sess /\ L.order = M.order
  BY DEF Onward
<1>2. m.proc = "INFER" => HopOk(L, m)
  BY Activation, HopOnward DEF MsgOk
<1> QED BY <1>1, <1>2 DEF MsgOk

LEMMA ProcOnward ==
  ASSUME NEW M \in Masters, NEW L \in Masters, Onward(M, L), NEW w, NEW p \in Processes, ProcOk(M, w, p)
  PROVE  ProcOk(L, w, p)
<1>1. L.sess = M.sess
  BY DEF Onward
<1>2. p.hop # << >> => p.hop \in Hops
  BY DEF Processes
<1>3. p.hop # << >> => HopOk(L, p.hop)
  BY <1>2, HopOnward DEF ProcOk
<1> QED BY <1>1, <1>3 DEF ProcOk

\* What depends on the session and its order only.
LEMMA SameSession ==
  ASSUME NEW M, NEW L, L.sess = M.sess, L.order = M.order, NEW W
  PROVE  /\ \A m : Acked(L, W, m) <=> Acked(M, W, m)
         /\ \A m : IsDue(L, W, m) <=> IsDue(M, W, m)
         /\ \A w, p : Given(L, w, p) <=> Given(M, w, p)
<1>1. \A j, q : Cached(L, W, j, q) <=> Cached(M, W, j, q)
  BY DEF Cached
<1>2. \A m : Due(L, W, m) <=> Due(M, W, m)
  BY <1>1 DEF Due
<1> QED BY <1>2 DEF Acked, IsDue, Given

LEMMA MasterStep ==
  ASSUME SessionInv, NEW T,
         master' \in Masters, Onward(master, master'), Placed(master'), RegOk(master', reg),
         reg' = reg, worker' = worker, net' \subseteq net \cup T, disturbed' \in BOOLEAN,
         disturbed => disturbed',
         \A m \in T : m \in Datagrams /\ MsgOk(master', m),
         ~disturbed' /\ master.sess # 0 /\ Calm(master, worker, net) =>
           /\ Told(master', worker) /\ Computed(master', worker)
           /\ \A m \in T : m.proc # "NEIGHBOR_OK" /\ (m.proc = "INFER" => IsDue(master', worker, m)),
         ~disturbed' /\ master.sess # 0 /\ Calm(master, worker, net) => FinalComplete',
         master.sess = 0 => FinalComplete'
  PROVE  SessionInv'
<1>0. Types /\ master \in Masters
  BY DEF SessionInv, Types
<1>1. Types'
  BY <1>0 DEF Types
<1>2. \A m \in net' : MsgOk(master', m)
  BY <1>0, MsgOnward DEF SessionInv, Types
<1>3. \A w \in Workers : ProcOk(master', w, worker'[w])
  BY <1>0, ProcOnward DEF SessionInv, Types
<1>4. master'.sess = master.sess /\ master'.order = master.order
  BY DEF Onward
<1>5. ASSUME ~disturbed', master.sess # 0
      PROVE  Calm(master', worker', net') /\ FinalComplete'
  <2>1. Calm(master, worker, net)
    BY <1>5 DEF SessionInv
  <2>2. /\ Told(master', worker) /\ Computed(master', worker) /\ FinalComplete'
        /\ \A m \in T : m.proc # "NEIGHBOR_OK" /\ (m.proc = "INFER" => IsDue(master', worker, m))
    BY <1>5, <2>1
  <2>3. \A m \in T : Acked(master', worker, m)
    BY <2>2 DEF Acked
  <2>4. \A m \in net : Acked(master', worker, m) /\ (m.proc = "INFER" => IsDue(master', worker, m))
    BY <1>4, <2>1, SameSession DEF Calm
  <2>5. \A w \in Workers : Given(master', w, worker[w]) /\ (worker[w].hop # << >> => IsDue(master', worker, worker[w].hop))
    BY <1>4, <2>1, SameSession DEF Calm
  <2>6. Calm(master', worker, net')
    BY <2>2, <2>3, <2>4, <2>5 DEF Calm
  <2> QED BY <2>2, <2>6
<1>6. FinalComplete'
  BY <1>5 DEF FinalComplete
<1> QED BY <1>1, <1>2, <1>3, <1>4, <1>5, <1>6 DEF SessionInv, Types

-----------------------------------------------------------------------------
(* Steps of a worker.                                                      *)

\* Worker w keeps what it has computed in the session.
Keeps(M, p, x) == p.session = M.sess => x.session = M.sess /\ p.kv \subseteq x.kv

LEMMA KeptCached ==
  ASSUME NEW M \in Masters, NEW W \in [Workers -> Processes], NEW w \in Workers, NEW x, Keeps(M, W[w], x),
         NEW V, V = [W EXCEPT ![w] = x]
  PROVE  /\ \A j \in 1 .. Len(M.order) : \A q : Cached(M, W, j, q) => Cached(M, V, j, q)
         /\ \A m \in Hops : IsDue(M, W, m) => IsDue(M, V, m)
<1>1. \A j \in 1 .. Len(M.order) : M.order[j] \in Workers
  BY DEF Masters
<1>2. ASSUME NEW v \in Workers, NEW q, W[v].session = M.sess, q \in W[v].kv
      PROVE  V[v].session = M.sess /\ q \in V[v].kv
  BY <1>2 DEF Keeps
<1>3. \A j \in 1 .. Len(M.order) : \A q : Cached(M, W, j, q) => Cached(M, V, j, q)
  BY <1>1, <1>2 DEF Cached
<1>4. ASSUME NEW m \in Hops, Due(M, W, m)
      PROVE  Due(M, V, m)
  <2>1. \A j \in 1 .. Len(M.order), q \in 0 .. m.pos - 1 : Cached(M, V, j, q)
    BY <1>3, <1>4, Zenon DEF Due
  <2>2. CASE m.dst = Master /\ m.data = NLayers /\ \A j \in 1 .. Len(M.order) : Cached(M, W, j, m.pos)
    BY <1>3, <2>1, <2>2, Zenon DEF Due
  <2>3. ASSUME NEW k \in 1 .. Len(M.order), m.dst = M.order[k], m.data = Start(NLayers, Len(M.order), k - 1),
               \A j \in 1 .. k - 1 : Cached(M, W, j, m.pos)
        PROVE  Due(M, V, m)
    <3>1. \A j \in 1 .. k - 1 : j \in 1 .. Len(M.order)
      BY DEF Masters
    <3>2. \A j \in 1 .. k - 1 : Cached(M, V, j, m.pos)
      BY <1>3, <2>3, <3>1, Zenon
    <3> QED BY <2>1, <2>3, <3>2, Zenon DEF Due
  <2> QED BY <1>4, <2>2, <2>3, Zenon DEF Due
<1> QED BY <1>3, <1>4, Zenon DEF IsDue

\* w's process becomes x, T is sent.  A worker's pointers change in RecvNeighbor
\* only.
LEMMA WorkerStep ==
  ASSUME SessionInv, NEW w \in Workers, NEW x \in Processes, NEW T,
         worker' = [worker EXCEPT ![w] = x],
         master' = master, reg' = reg, final' = final, net' \subseteq net \cup T, disturbed' \in BOOLEAN,
         disturbed => disturbed', ProcOk(master, w, x),
         \A m \in T : m \in Datagrams /\ MsgOk(master, m),
         ~disturbed' /\ master.sess # 0 /\ Calm(master, worker, net) =>
           /\ \/ x.prev = worker[w].prev /\ x.next = worker[w].next
              \/ \E k \in 1 .. Len(master.order) : w = master.order[k] /\ Points(master.order, x, k)
           /\ Keeps(master, worker[w], x) /\ Given(master, w, x)
           /\ x.hop # << >> => IsDue(master, worker, x.hop)
           /\ \A m \in T : Acked(master, worker', m) /\ (m.proc = "INFER" => IsDue(master, worker', m))
  PROVE  SessionInv'
<1>0. Types /\ master \in Masters /\ worker \in [Workers -> Processes] /\ net \subseteq Datagrams
  BY DEF SessionInv, Types
<1>1. Types'
  BY <1>0 DEF Types
<1>2. \A m \in net' : MsgOk(master', m)
  BY DEF SessionInv
<1>3. \A v \in Workers : ProcOk(master', v, worker'[v])
  BY <1>0 DEF SessionInv
<1>4. worker'[w] = x /\ \A v \in Workers \ {w} : worker'[v] = worker[v]
  BY <1>0
<1>5. ASSUME ~disturbed', master.sess # 0
      PROVE  Calm(master', worker', net')
  <2>1. Calm(master, worker, net)
    BY <1>5 DEF SessionInv
  <2>2. /\ \/ x.prev = worker[w].prev /\ x.next = worker[w].next
           \/ \E k \in 1 .. Len(master.order) : w = master.order[k] /\ Points(master.order, x, k)
        /\ Keeps(master, worker[w], x) /\ Given(master, w, x)
        /\ x.hop # << >> => IsDue(master, worker, x.hop)
        /\ \A m \in T : Acked(master, worker', m) /\ (m.proc = "INFER" => IsDue(master, worker', m))
    BY <1>5, <2>1, Zenon
  <2>3. /\ \A j \in 1 .. Len(master.order) : \A q : Cached(master, worker, j, q) => Cached(master, worker', j, q)
        /\ \A m \in Hops : IsDue(master, worker, m) => IsDue(master, worker', m)
    BY <1>0, <2>2, KeptCached, Zenon
  <2>4. ASSUME NEW v \in Workers, NEW k \in 1 .. Len(master.order), v = master.order[k],
               Points(master.order, worker[v], k)
        PROVE  Points(master.order, worker'[v], k)
    <3>1. CASE x.prev = worker[w].prev /\ x.next = worker[w].next
      BY <1>4, <2>4, <3>1 DEF Points
    <3>2. ASSUME NEW j \in 1 .. Len(master.order), w = master.order[j], Points(master.order, x, j)
          PROVE  Points(master.order, worker'[v], k)
      <4>1. v = w => j = k
        BY <2>4, <3>2, Zenon DEF SessionInv, Placed
      <4> QED BY <1>4, <2>4, <3>2, <4>1
    <3> QED BY <2>2, <3>1, <3>2
  <2>5. ASSUME NEW m \in net
        PROVE  Acked(master, worker', m) /\ (m.proc = "INFER" => IsDue(master, worker', m))
    <3>1. m.proc = "INFER" => m \in Hops
      BY <1>0, Activation
    <3>2. \A k \in 1 .. Len(master.order) : master.order[k] \in Workers
      BY <1>0 DEF Masters
    <3>3. Acked(master, worker, m) /\ (m.proc = "INFER" => IsDue(master, worker, m))
      BY <2>1 DEF Calm
    <3>4. Acked(master, worker', m)
      BY <2>4, <3>2, <3>3, Zenon DEF Acked
    <3> QED BY <2>3, <3>1, <3>3, <3>4, Zenon
  <2>6. Told(master, worker')
    <3>1. \A k \in 1 .. Len(master.order) : master.order[k] \in Workers
      BY <1>0 DEF Masters
    <3>2. Told(master, worker)
      BY <2>1 DEF Calm
    <3> QED BY <2>4, <3>1, <3>2, Zenon DEF Told
  <2>7. Computed(master, worker')
    <3>1. Computed(master, worker)
      BY <2>1 DEF Calm
    <3> QED BY <2>3, <3>1, Zenon DEF Computed
  <2>8. ASSUME NEW v \in Workers
        PROVE  Given(master, v, worker'[v]) /\ (worker'[v].hop # << >> => IsDue(master, worker', worker'[v].hop))
    <3>1. worker'[v] \in Processes
      BY <1>1 DEF Types
    <3>2. worker'[v].hop # << >> => worker'[v].hop \in Hops
      BY <3>1 DEF Processes
    <3>3. Given(master, v, worker'[v]) /\ (worker'[v].hop # << >> => IsDue(master, worker, worker'[v].hop))
      BY <1>4, <2>1, <2>2 DEF Calm
    <3> QED BY <2>3, <3>2, <3>3, Zenon
  <2>9. \A m \in net' : Acked(master, worker', m) /\ (m.proc = "INFER" => IsDue(master, worker', m))
    BY <2>2, <2>5, Zenon
  <2> QED BY <2>6, <2>7, <2>8, <2>9, Zenon DEF Calm
<1>6. FinalComplete'
  BY DEF FinalComplete, SessionInv
<1>7. Placed(master') /\ RegOk(master', reg')
  BY DEF SessionInv
<1> QED BY <1>1, <1>2, <1>3, <1>5, <1>6, <1>7 DEF SessionInv

LEMMA Kinds ==
  ASSUME NEW m \in Datagrams
  PROVE  /\ m.sess \in Nat
         /\ m.proc = "SET_NEIGHBOR" => m.dst \in Workers /\ m.prev \in Addresses /\ m.next \in Addresses
         /\ m.proc = "ASSIGN" => m.dst \in Workers /\ m.sess \in Nat \ {0} /\ m.lo \in Nat /\ m.hi \in Nat
  BY DEF Datagrams, Hops

LEMMA RecvNeighborStep ==
  ASSUME SessionInv, NEW m \in net, RecvNeighbor(m)
  PROVE  SessionInv'
<1> DEFINE w == m.dst
           p == worker[w]
           x == [p EXCEPT !.prev = m.prev, !.next = m.next]
           T == IF m.sess = 0 THEN {} ELSE {[proc |-> "NEIGHBOR_OK", src |-> w, sess |-> m.sess]}
<1>1. /\ m \in Datagrams /\ m.proc = "SET_NEIGHBOR" /\ MsgOk(master, m) /\ worker \in [Workers -> Processes]
      /\ master \in Masters
  BY DEF SessionInv, Types, RecvNeighbor
<1>2. w \in Workers /\ m.prev \in Addresses /\ m.next \in Addresses /\ m.sess \in Nat
  BY <1>1, Kinds
<1>3. p \in Processes /\ ProcOk(master, w, p)
  BY <1>1, <1>2 DEF SessionInv
<1>4. worker' = [worker EXCEPT ![w] = x]
  BY <1>1, <1>2, Zenon DEF RecvNeighbor
<1>5. /\ master' = master /\ reg' = reg /\ final' = final /\ net' \subseteq net \cup T
      /\ disturbed' = (disturbed \/ m.sess # master.sess)
  BY DEF RecvNeighbor
<1> HIDE DEF w, p
<1>6. /\ x \in Processes /\ x.prev = m.prev /\ x.next = m.next /\ x.asg = p.asg /\ x.load = p.load
      /\ x.ready = p.ready /\ x.session = p.session /\ x.lo = p.lo /\ x.hi = p.hi /\ x.kv = p.kv /\ x.hop = p.hop
  BY <1>2, <1>3, Zenon DEF Processes
<1> HIDE DEF x
<1>7. ProcOk(master, w, x)
  BY <1>3, <1>6 DEF ProcOk
<1>8. \A t \in T : t \in Datagrams /\ MsgOk(master, t)
  <2> DEFINE t == [proc |-> "NEIGHBOR_OK", src |-> w, sess |-> m.sess]
  <2>1. t \in Datagrams /\ t.proc = "NEIGHBOR_OK" /\ t.sess = m.sess
    BY <1>2 DEF Datagrams
  <2> HIDE DEF t
  <2>2. MsgOk(master, t)
    BY <1>1, <2>1 DEF MsgOk
  <2> QED BY <2>1, <2>2 DEF t
<1>9. ASSUME ~disturbed', master.sess # 0, Calm(master, worker, net)
      PROVE  /\ \E k \in 1 .. Len(master.order) : w = master.order[k] /\ Points(master.order, x, k)
             /\ Keeps(master, p, x) /\ Given(master, w, x)
             /\ x.hop # << >> => IsDue(master, worker, x.hop)
             /\ \A t \in T : Acked(master, worker', t) /\ t.proc # "INFER"
  <2>1. m.sess = master.sess
    BY <1>5, <1>9, Zenon
  <2>2. PICK k \in 1 .. Len(master.order) : w = master.order[k] /\ Points(master.order, m, k)
    BY <1>1, <1>9, <2>1 DEF MsgOk, w
  <2>3. Points(master.order, x, k)
    BY <1>6, <2>2 DEF Points
  <2>4. Given(master, w, p) /\ (p.hop # << >> => IsDue(master, worker, p.hop))
    BY <1>2, <1>9 DEF Calm, p
  <2>5. Given(master, w, x)
    BY <1>6, <2>4 DEF Given, Ranged
  <2>6. Keeps(master, p, x)
    BY <1>6 DEF Keeps
  <2>7. worker'[w] = x
    BY <1>1, <1>2, <1>4, Zenon
  <2>8. \A t \in T : Acked(master, worker', t) /\ t.proc # "INFER"
    BY <2>2, <2>3, <2>7 DEF Acked
  <2> QED BY <1>6, <2>2, <2>3, <2>4, <2>5, <2>6, <2>8
<1>10. disturbed' \in BOOLEAN /\ (disturbed => disturbed')
  BY <1>5 DEF SessionInv, Types
<1> HIDE DEF T
<1> QED BY <1>2, <1>4, <1>5, <1>6, <1>7, <1>8, <1>9, <1>10, WorkerStep, Zenon DEF p

LEMMA RecvAssignStep ==
  ASSUME SessionInv, NEW m \in net, RecvAssign(m)
  PROVE  SessionInv'
<1> DEFINE w == m.dst
           p == worker[w]
           a == [sess |-> m.sess, lo |-> m.lo, hi |-> m.hi]
           x == [p EXCEPT !.asg = a, !.ready = FALSE, !.last = 0]
           t == [proc |-> "ASSIGN_OK", src |-> w, sess |-> m.sess]
           T == {t}
<1>1. /\ m \in Datagrams /\ m.proc = "ASSIGN" /\ MsgOk(master, m) /\ worker \in [Workers -> Processes]
      /\ master \in Masters
  BY DEF SessionInv, Types, RecvAssign
<1>2. w \in Workers /\ m.sess \in Nat \ {0} /\ m.lo \in Nat /\ m.hi \in Nat
  BY <1>1, Kinds
<1>3. p \in Processes /\ ProcOk(master, w, p)
  BY <1>1, <1>2 DEF SessionInv
<1>4. worker' = [worker EXCEPT ![w] = x]
  BY <1>1, <1>2, Zenon DEF RecvAssign
<1>5. /\ master' = master /\ reg' = reg /\ final' = final /\ net' \subseteq net \cup T
      /\ disturbed' = (disturbed \/ m.sess # master.sess \/ Holds(p, m.sess))
  BY DEF RecvAssign
<1>6. a \in Assignments /\ a.sess = m.sess /\ a.lo = m.lo /\ a.hi = m.hi
  BY <1>2 DEF Assignments
<1> HIDE DEF w, p, a
<1>7. /\ x \in Processes /\ x.prev = p.prev /\ x.next = p.next /\ x.asg = a /\ x.load = p.load
      /\ x.ready = FALSE /\ x.session = p.session /\ x.lo = p.lo /\ x.hi = p.hi /\ x.kv = p.kv /\ x.hop = p.hop
  BY <1>3, <1>6, Zenon DEF Processes
<1> HIDE DEF x
<1>8. ProcOk(master, w, x)
  <2>1. a.sess <= master.sess
    BY <1>1, <1>6 DEF MsgOk
  <2> QED BY <1>3, <1>7, <2>1 DEF ProcOk
<1>9. t \in Datagrams /\ t.proc = "ASSIGN_OK" /\ t.sess = m.sess
  BY <1>2 DEF Datagrams
<1> HIDE DEF t
<1>10. MsgOk(master, t)
  BY <1>1, <1>9 DEF MsgOk
<1>11. ASSUME ~disturbed', master.sess # 0, Calm(master, worker, net)
       PROVE  /\ Keeps(master, p, x) /\ Given(master, w, x)
              /\ x.hop # << >> => IsDue(master, worker, x.hop)
              /\ Acked(master, worker', t)
  <2>1. m.sess = master.sess /\ ~Holds(p, m.sess)
    BY <1>5, <1>11, Zenon
  <2>2. Ranged(master.order, w, a)
    BY <1>1, <1>6, <2>1 DEF MsgOk, w, Ranged
  <2>3. Given(master, w, p) /\ (p.hop # << >> => IsDue(master, worker, p.hop))
    BY <1>2, <1>11 DEF Calm, p
  <2>4. p.session # master.sess /\ (p.load # << >> => p.load.sess # master.sess)
    BY <2>1 DEF Holds
  <2>5. Given(master, w, x)
    BY <1>7, <2>2, <2>3, <2>4 DEF Given
  <2>6. Keeps(master, p, x)
    BY <1>7 DEF Keeps
  <2> QED BY <1>7, <1>9, <2>3, <2>5, <2>6 DEF Acked
<1>12. disturbed' \in BOOLEAN /\ (disturbed => disturbed')
  BY <1>5 DEF SessionInv, Types, Holds
<1>13. \A u \in T : u = t
  OBVIOUS
<1> HIDE DEF T
<1> QED BY <1>2, <1>4, <1>5, <1>7, <1>8, <1>9, <1>10, <1>11, <1>12, <1>13, WorkerStep, Zenon DEF p

LEMMA RecvHopStep ==
  ASSUME SessionInv, NEW m \in net, RecvHop(m)
  PROVE  SessionInv'
<1> DEFINE w == m.dst
           p == worker[w]
           x == [p EXCEPT !.hop = m, !.last = m.seq]
           T == {}
<1>1. /\ m \in Datagrams /\ m.proc = "INFER" /\ m.dst # Master /\ MsgOk(master, m)
      /\ worker \in [Workers -> Processes] /\ master \in Masters /\ disturbed \in BOOLEAN
  BY DEF SessionInv, Types, RecvHop
<1>2. m \in Hops
  BY <1>1, Activation
<1>3. w \in Workers /\ m.seq \in Nat
  BY <1>1, <1>2 DEF Hops, Addresses
<1>4. p \in Processes /\ ProcOk(master, w, p)
  BY <1>1, <1>3 DEF SessionInv
<1>5. worker' = [worker EXCEPT ![w] = x]
  BY <1>1, <1>3, Zenon DEF RecvHop
<1>6. /\ master' = master /\ reg' = reg /\ final' = final /\ net' \subseteq net \cup T
      /\ disturbed' = disturbed /\ Accepts(p, m)
  BY DEF RecvHop
<1>7. HopOk(master, m) /\ m.dst = w
  BY <1>1 DEF MsgOk
<1> HIDE DEF w, p
<1>8. /\ x \in Processes /\ x.prev = p.prev /\ x.next = p.next /\ x.asg = p.asg /\ x.load = p.load
      /\ x.ready = p.ready /\ x.session = p.session /\ x.lo = p.lo /\ x.hi = p.hi /\ x.kv = p.kv /\ x.hop = m
  BY <1>2, <1>3, <1>4, Zenon DEF Processes
<1> HIDE DEF x
<1>9. ProcOk(master, w, x)
  BY <1>4, <1>7, <1>8 DEF ProcOk
<1>10. m.sess = p.session
  BY <1>4, <1>6 DEF Accepts, ProcOk
<1>11. ASSUME ~disturbed', master.sess # 0, Calm(master, worker, net)
       PROVE  /\ Keeps(master, p, x) /\ Given(master, w, x)
              /\ IsDue(master, worker, x.hop)
  <2>1. Given(master, w, p) /\ IsDue(master, worker, m)
    BY <1>1, <1>3, <1>11, ZenonT(30) DEF Calm, p
  <2>2. Given(master, w, x)
    BY <1>8, <1>10, <2>1 DEF Given, Ranged
  <2> QED BY <1>8, <2>1, <2>2 DEF Keeps
<1>12. \A u \in T : FALSE
  OBVIOUS
<1> HIDE DEF T
<1> QED BY <1>1, <1>3, <1>5, <1>6, <1>8, <1>9, <1>11, <1>12, WorkerStep, Zenon DEF p

LEMMA TakeAssignmentStep ==
  ASSUME SessionInv, NEW w \in Workers, TakeAssignment(w)
  PROVE  SessionInv'
<1> DEFINE p == worker[w]
           x == [p EXCEPT !.asg = << >>, !.load = p.asg, !.ready = FALSE, !.lo = 0, !.hi = 0, !.kv = {}]
<1>1. worker \in [Workers -> Processes] /\ disturbed \in BOOLEAN
  BY DEF SessionInv, Types
<1>2. p \in Processes /\ ProcOk(master, w, p) /\ p.load = << >> /\ p.asg # << >>
  BY <1>1 DEF SessionInv, TakeAssignment
<1>3. worker' = [worker EXCEPT ![w] = x]
  BY <1>1, Zenon DEF TakeAssignment
<1>4. /\ master' = master /\ reg' = reg /\ final' = final /\ net' \subseteq net \cup {}
      /\ disturbed' = disturbed
  BY DEF TakeAssignment
<1> HIDE DEF p
<1>5. /\ x \in Processes /\ x.prev = p.prev /\ x.next = p.next /\ x.asg = << >> /\ x.load = p.asg
      /\ x.ready = FALSE /\ x.session = p.session /\ x.kv = {} /\ x.hop = p.hop
  BY <1>2, Zenon DEF Processes
<1> HIDE DEF x
<1>6. ProcOk(master, w, x)
  BY <1>2, <1>5 DEF ProcOk
<1>7. ASSUME ~disturbed', master.sess # 0, Calm(master, worker, net)
      PROVE  /\ Keeps(master, p, x) /\ Given(master, w, x)
             /\ x.hop # << >> => IsDue(master, worker, x.hop)
  <2>1. Given(master, w, p) /\ (p.hop # << >> => IsDue(master, worker, p.hop))
    BY <1>7 DEF Calm, p
  <2>2. p.session # master.sess
    BY <1>2, <2>1 DEF Given
  <2>3. Given(master, w, x)
    BY <1>2, <1>5, <2>1, <2>2 DEF Given
  <2> QED BY <1>5, <2>1, <2>2, <2>3 DEF Keeps
<1> QED BY <1>1, <1>3, <1>4, <1>5, <1>6, <1>7, WorkerStep, Zenon DEF p

LEMMA LoadedStep ==
  ASSUME SessionInv, NEW w \in Workers, NEW ok \in BOOLEAN, Loaded(w, ok)
  PROVE  SessionInv'
<1> DEFINE p == worker[w]
           y == [p EXCEPT !.load = << >>, !.lo = p.load.lo, !.hi = p.load.hi, !.session = p.load.sess, !.ready = TRUE]
           z == [p EXCEPT !.load = << >>]
           x == IF ok THEN y ELSE z
           t == [proc |-> "SHARD_READY", src |-> w, sess |-> p.load.sess, ok |-> ok]
           T == {t}
<1>1. worker \in [Workers -> Processes] /\ disturbed \in BOOLEAN
  BY DEF SessionInv, Types
<1>2. p \in Processes /\ ProcOk(master, w, p) /\ p.load # << >>
  BY <1>1 DEF SessionInv, Loaded
<1>3. p.load \in Assignments /\ p.load.sess \in Nat \ {0} /\ p.load.lo \in Nat /\ p.load.hi \in Nat
  BY <1>2 DEF Processes, Assignments
<1>4. worker' = [worker EXCEPT ![w] = x]
  BY <1>1, Zenon DEF Loaded
<1>5. /\ master' = master /\ reg' = reg /\ final' = final /\ net' \subseteq net \cup T
      /\ disturbed' = disturbed
  BY DEF Loaded
<1> HIDE DEF p
<1>6. /\ x \in Processes /\ x.prev = p.prev /\ x.next = p.next /\ x.asg = p.asg /\ x.load = << >>
      /\ x.kv = p.kv /\ x.hop = p.hop
      /\ IF ok THEN x.lo = p.load.lo /\ x.hi = p.load.hi /\ x.session = p.load.sess /\ x.ready = TRUE
         ELSE x.lo = p.lo /\ x.hi = p.hi /\ x.session = p.session /\ x.ready = p.ready
  <2>1. CASE ok
    BY <1>2, <1>3, <2>1, Zenon DEF Processes
  <2>2. CASE ~ok
    BY <1>2, <1>3, <2>2 DEF Processes
  <2> QED BY <2>1, <2>2
<1> HIDE DEF x
<1>7. ProcOk(master, w, x)
  BY <1>2, <1>3, <1>6 DEF ProcOk
<1>8. t \in Datagrams /\ t.proc = "SHARD_READY" /\ t.sess = p.load.sess
  BY <1>3 DEF Datagrams
<1> HIDE DEF t
<1>9. MsgOk(master, t)
  BY <1>2, <1>8 DEF MsgOk, ProcOk
<1>10. ASSUME ~disturbed', master.sess # 0, Calm(master, worker, net)
       PROVE  /\ Keeps(master, p, x) /\ Given(master, w, x)
              /\ x.hop # << >> => IsDue(master, worker, x.hop)
  <2>1. Given(master, w, p) /\ (p.hop # << >> => IsDue(master, worker, p.hop))
    BY <1>10, Zenon DEF Calm, p
  <2>2. p.session # master.sess /\ p.kv = {}
    BY <1>2, <2>1, ZenonT(30) DEF Given, ProcOk
  <2>3. Given(master, w, x)
    BY <1>2, <1>6, <2>1, <2>2 DEF Given, Ranged
  <2> QED BY <1>6, <2>1, <2>2, <2>3, Zenon DEF Keeps
<1>11. \A u \in T : u = t /\ \A W : Acked(master, W, u)
  BY <1>8, Zenon DEF Acked
<1> HIDE DEF T
<1> QED BY <1>1, <1>4, <1>5, <1>6, <1>7, <1>8, <1>9, <1>10, <1>11, WorkerStep, Zenon DEF p

\* An activation of the session computed by the k-th worker is due at the next.
LEMMA PassedOn ==
  ASSUME NEW M \in Masters, NEW W \in [Workers -> Processes], NEW h \in Hops, Due(M, W, h),
         NEW k \in 1 .. Len(M.order), h.dst = M.order[k],
         \A i, j \in 1 .. Len(M.order) : M.order[i] = M.order[j] => i = j,
         NEW V, \A j \in 1 .. Len(M.order) : \A q : Cached(M, W, j, q) => Cached(M, V, j, q),
         Cached(M, V, k, h.pos),
         NEW m \in Hops, m.pos = h.pos, m.data = Start(NLayers, Len(M.order), k),
         m.dst = IF k = Len(M.order) THEN Master ELSE M.order[k + 1]
  PROVE  Due(M, V, m)
<1> DEFINE n == Len(M.order)
<1>1. n \in Nat /\ \A j \in 1 .. n : M.order[j] \in Workers
  BY SMTT(30) DEF Masters
<1>2. \A j \in 1 .. n : M.order[j] # Master
  BY <1>1 DEF Workers, Master
<1>3. PICK i \in 1 .. n : h.dst = M.order[i] /\ \A j \in 1 .. i - 1 : Cached(M, W, j, h.pos)
  BY <1>2, Zenon DEF Due
<1>4. i = k
  BY <1>3, Zenon
<1>5. \A j \in 1 .. n, q \in 0 .. m.pos - 1 : Cached(M, V, j, q)
  BY DEF Due
<1> HIDE DEF n
<1>6. \A j \in 1 .. k : Cached(M, V, j, m.pos)
  <2>1. \A j \in 1 .. k : j \in 1 .. n /\ (j \in 1 .. k - 1 \/ j = k)
    BY <1>1 DEF n
  <2> QED BY <1>3, <1>4, <2>1, Zenon DEF n
<1>7. CASE k = n
  <2>1. m.dst = Master
    BY <1>7 DEF n
  <2>2. m.data = NLayers
    BY <1>1, <1>7, SplitEnds, StepsAssumption DEF n
  <2>3. \A j \in 1 .. n : Cached(M, V, j, m.pos)
    BY <1>6, <1>7
  <2> QED BY <1>5, <2>1, <2>2, <2>3, Zenon DEF Due, n
<1>8. CASE k # n
  <2> DEFINE l == k + 1
  <2>1. l \in 1 .. n /\ l - 1 = k
    BY <1>1, <1>8 DEF n
  <2>2. m.dst = M.order[l] /\ m.data = Start(NLayers, n, l - 1)
    BY <1>8, <2>1 DEF n
  <2>3. \A j \in 1 .. l - 1 : Cached(M, V, j, m.pos)
    BY <1>6, <2>1, Zenon
  <2> HIDE DEF l
  <2> QED BY <1>5, <2>1, <2>2, <2>3, Zenon DEF Due, n
<1> QED BY <1>7, <1>8, Zenon

LEMMA ServeStep ==
  ASSUME SessionInv, NEW w \in Workers, Serve(w)
  PROVE  SessionInv'
<1> DEFINE p == worker[w]
           h == p.hop
           r == Result(p, h)
           kv == IF r = Spoilt THEN p.kv \ {h.pos} ELSE p.kv \cup {h.pos}
           y == [p EXCEPT !.hop = << >>]
           z == [p EXCEPT !.hop = << >>, !.kv = kv]
           x == IF h.pos >= MaxSeq THEN y ELSE z
           t == [h EXCEPT !.src = w, !.dst = p.next, !.data = r, !.final = (p.next = Master)]
           T == IF h.pos >= MaxSeq THEN {} ELSE {t}
<1>1. worker \in [Workers -> Processes] /\ disturbed \in BOOLEAN /\ master \in Masters
  BY DEF SessionInv, Types
<1>2. p \in Processes /\ ProcOk(master, w, p) /\ p.load = << >> /\ p.asg = << >> /\ h # << >> /\ p.ready
  BY <1>1 DEF SessionInv, Serve
<1>3. h \in Hops /\ h.pos \in Nat /\ p.kv \in SUBSET Nat /\ p.hi \in Nat
  BY <1>2 DEF Processes, Hops
<1>4. worker' = [worker EXCEPT ![w] = x]
  <2>1. CASE h.pos >= MaxSeq
    BY <1>1, <2>1 DEF Serve
  <2>2. CASE ~(h.pos >= MaxSeq)
    BY <1>1, <2>2, Zenon DEF Serve
  <2> QED BY <2>1, <2>2
<1>5. /\ master' = master /\ reg' = reg /\ final' = final /\ net' \subseteq net \cup T
      /\ disturbed' = disturbed
  BY DEF Serve
<1>6. /\ r = IF h.data = p.lo /\ h.sess = p.session /\ 0 .. h.pos - 1 \subseteq p.kv THEN p.hi ELSE Spoilt
      /\ Spoilt = -1 /\ r \in Int
  BY <1>3 DEF Result, Spoilt
<1> HIDE DEF p, h, r
<1>7. kv \in SUBSET Nat
  BY <1>3
<1> HIDE DEF kv
<1>8. /\ x \in Processes /\ x.prev = p.prev /\ x.next = p.next /\ x.asg = p.asg /\ x.load = p.load
      /\ x.ready = p.ready /\ x.session = p.session /\ x.lo = p.lo /\ x.hi = p.hi /\ x.hop = << >>
      /\ x.kv = IF h.pos >= MaxSeq THEN p.kv ELSE kv
  <2>1. CASE h.pos >= MaxSeq
    BY <1>2, <2>1, Zenon DEF Processes
  <2>2. CASE ~(h.pos >= MaxSeq)
    BY <1>2, <1>7, <2>2, Zenon DEF Processes
  <2> QED BY <2>1, <2>2
<1> HIDE DEF x
<1>9. ProcOk(master, w, x)
  BY <1>2, <1>8 DEF ProcOk
<1>10. /\ t \in Hops /\ t.proc = "INFER" /\ t.sess = h.sess /\ t.seq = h.seq /\ t.pos = h.pos
       /\ t.dst = p.next /\ t.data = r
  <2>1. p.next \in Addresses /\ w \in Addresses
    BY <1>2 DEF Processes, Addresses
  <2> QED BY <1>3, <1>6, <2>1, Zenon DEF Hops
<1> HIDE DEF t
<1>11. t \in Datagrams /\ MsgOk(master, t)
  <2>1. t \in Datagrams
    BY <1>10 DEF Datagrams
  <2>2. HopOk(master, h)
    BY <1>2 DEF ProcOk, h
  <2>3. HopOk(master, t)
    BY <1>10, <2>2 DEF HopOk
  <2> QED BY <1>10, <2>1, <2>3 DEF MsgOk, HopOk
<1>12. ASSUME ~disturbed', master.sess # 0, Calm(master, worker, net)
       PROVE  /\ Keeps(master, p, x) /\ Given(master, w, x)
              /\ ~(h.pos >= MaxSeq) => IsDue(master, worker', t)
  <2>1. Given(master, w, p) /\ IsDue(master, worker, h)
    BY <1>2, <1>12, Zenon DEF Calm, p, h
  <2>2. Given(master, w, x)
    BY <1>8, <2>1, Zenon DEF Given, Ranged
  <2>3. CASE p.session # master.sess
    <3>1. h.sess # master.sess
      BY <1>2, <2>1, <2>3, Zenon DEF Given, h
    <3> QED BY <1>10, <2>2, <2>3, <3>1 DEF Keeps, IsDue
  <2>4. CASE p.session = master.sess /\ h.sess # master.sess
    <3>1. p.kv = {}
      BY <1>2, <2>1, <2>4, Zenon DEF Given, h
    <3> QED BY <1>8, <1>10, <2>2, <2>4, <3>1 DEF Keeps, IsDue
  <2>5. CASE p.session = master.sess /\ h.sess = master.sess
    <3> DEFINE o == master.order
               n == Len(o)
    <3>1. PICK k \in 1 .. n : /\ w = o[k] /\ p.lo = Start(NLayers, n, k - 1)
                             /\ p.hi = Start(NLayers, n, k - 1) + Count(NLayers, n, k - 1)
      BY <2>1, <2>5 DEF Given, Ranged
    <3>2. n \in Nat /\ o \in Seq(Workers) /\ \A i, j \in 1 .. n : o[i] = o[j] => i = j
      BY <1>1 DEF Masters, SessionInv, Placed
    <3>3. Due(master, worker, h) /\ h.dst = w
      BY <1>2, <2>1, <2>5 DEF IsDue, ProcOk, h
    <3>4. w # Master
      BY DEF Workers, Master
    <3>5. h.data = Start(NLayers, n, k - 1)
      BY <3>1, <3>2, <3>3, <3>4, ZenonT(30) DEF Due
    <3>6. 0 .. h.pos - 1 \subseteq p.kv
      BY <3>1, <3>3 DEF Due, Cached, p
    <3>7. r = p.hi /\ r # Spoilt
      BY <1>3, <1>6, <2>5, <3>1, <3>5, <3>6
    <3>8. Keeps(master, p, x)
      BY <1>8, <3>7 DEF Keeps, kv
    <3>9. r = Start(NLayers, n, k)
      <4>1. k - 1 \in Nat /\ k - 1 + 1 = k /\ n \in Nat \ {0} /\ NLayers \in Nat
        BY <3>2, StepsAssumption
      <4> HIDE DEF n
      <4> QED BY <3>1, <3>7, <4>1, SplitContiguous
    <3>10. Points(o, p, k)
      <4>1. master.pc # "notify"
        BY <1>2, <2>5, ZenonT(30) DEF ProcOk, HopOk, h
      <4> QED BY <1>12, <3>1, <4>1 DEF Calm, Told, p
    <3>11. ASSUME ~(h.pos >= MaxSeq) PROVE Due(master, worker', t)
      <4>1. worker'[w] = x
        BY <1>1, <1>4, ZenonT(30)
      <4>2. Cached(master, worker', k, h.pos)
        BY <1>8, <2>5, <3>1, <3>7, <3>11, <4>1 DEF Cached, kv
      <4>3. \A j \in 1 .. n : \A q : Cached(master, worker, j, q) => Cached(master, worker', j, q)
        BY <1>1, <1>4, <3>8, KeptCached, Zenon DEF p
      <4>4. t.dst = IF k = n THEN Master ELSE o[k + 1]
        BY <1>10, <3>10 DEF Points
      <4> QED BY <1>1, <1>3, <1>10, <3>1, <3>2, <3>3, <3>9, <4>2, <4>3, <4>4, PassedOn, SMTT(30)
    <3> QED BY <2>2, <3>8, <3>11 DEF IsDue
  <2> QED BY <2>3, <2>4, <2>5
<1>13. \A u \in T : u = t /\ ~(h.pos >= MaxSeq) /\ \A W : Acked(master, W, u)
  BY <1>10 DEF Acked
<1> HIDE DEF T
<1> QED BY <1>1, <1>4, <1>5, <1>8, <1>9, <1>11, <1>12, <1>13, WorkerStep, ZenonT(30) DEF p

-----------------------------------------------------------------------------
(* The master's datagrams.                                                 *)

LEMMA NeighboursSent ==
  ASSUME SessionInv, master.pc = "notify", NEW k \in 1 .. N, NEW try \in Nat
  PROVE  LET t == Neighbours(master.order[k], reg, master.sess, try)
         IN /\ t \in Datagrams /\ t.proc = "SET_NEIGHBOR"
            /\ \A L : L.sess = master.sess /\ L.order = master.order => MsgOk(L, t)
<1> DEFINE w == master.order[k]
           e == reg[w]
           t == Neighbours(w, reg, master.sess, try)
<1>1. master \in Masters /\ reg \in [Workers -> Entries] /\ Points(master.order, e, k)
  BY DEF SessionInv, Types, RegOk, N
<1>2. w \in Workers /\ master.sess \in Nat
  BY <1>1 DEF Masters, N
<1>3. e.prev \in Addresses /\ e.next \in Addresses
  BY <1>1, <1>2, Zenon DEF Entries
<1>4. /\ t \in Datagrams /\ t.proc = "SET_NEIGHBOR" /\ t.sess = master.sess /\ t.dst = w
      /\ t.prev = e.prev /\ t.next = e.next
  BY <1>2, <1>3 DEF Neighbours, Datagrams
<1> HIDE DEF t, e
<1>5. Points(master.order, t, k)
  BY <1>1, <1>4, Zenon DEF Points
<1>6. \A L : L.sess = master.sess /\ L.order = master.order => MsgOk(L, t)
  BY <1>2, <1>4, <1>5 DEF MsgOk, N
<1> QED BY <1>4, <1>6 DEF t

LEMMA AssignmentSent ==
  ASSUME SessionInv, master.sess # 0, NEW k \in 1 .. N, NEW try \in Nat
  PROVE  LET t == Assignment(master.order[k], k, N, master.sess, try)
         IN /\ t \in Datagrams /\ t.proc = "ASSIGN"
            /\ \A L : L.sess = master.sess /\ L.order = master.order => MsgOk(L, t)
<1> DEFINE w == master.order[k]
           lo == Start(NLayers, N, k - 1)
           hi == Start(NLayers, N, k - 1) + Count(NLayers, N, k - 1)
           t == Assignment(w, k, N, master.sess, try)
<1>1. master \in Masters
  BY DEF SessionInv, Types
<1>2. w \in Workers /\ master.sess \in Nat \ {0} /\ N \in Nat \ {0} /\ k - 1 \in Nat /\ NLayers \in Nat
  BY <1>1, StepsAssumption DEF Masters, N
<1>3. lo \in Nat /\ hi \in Nat
  <2>1. Start(NLayers, N, k - 1) \in Nat /\ Count(NLayers, N, k - 1) \in Nat
    BY <1>2, SplitType, Zenon
  <2> QED BY <2>1
<1>4. t = [proc |-> "ASSIGN", dst |-> w, sess |-> master.sess, try |-> try, lo |-> lo, hi |-> hi]
  BY DEF Assignment
<1>5. Ranged(master.order, w, t)
  BY <1>4 DEF Ranged, N
<1> HIDE DEF lo, hi, w, t
<1>6. t \in Datagrams /\ t.proc = "ASSIGN" /\ t.sess = master.sess /\ t.dst = w
  BY <1>2, <1>3, <1>4, Zenon DEF Datagrams
<1>7. \A L : L.sess = master.sess /\ L.order = master.order => MsgOk(L, t)
  BY <1>2, <1>5, <1>6 DEF MsgOk
<1> QED BY <1>6, <1>7 DEF t, w

\* A fresh activation for position pos, once all before it are computed.
LEMMA HopSent ==
  ASSUME SessionInv, master.sess # 0, N # 0, NEW seq \in Nat, NEW pos \in Nat, NEW t, t = Hop(seq, pos)
  PROVE  /\ t \in Datagrams /\ t.proc = "INFER"
         /\ \A L : L.sess = master.sess /\ L.order = master.order /\ L.pc = "token" /\ L.seq = seq /\ L.pos = pos
                    => MsgOk(L, t)
         /\ (\A j \in 1 .. N, q \in 0 .. pos - 1 : Cached(master, worker, j, q)) => IsDue(master, worker, t)
<1>1. master \in Masters
  BY DEF SessionInv, Types
<1>2. master.order[1] \in Workers /\ master.sess \in Nat /\ N \in Nat \ {0} /\ 1 \in 1 .. N
  BY <1>1 DEF Masters, N
<1>3. /\ t \in Hops /\ t.proc = "INFER" /\ t.dst = master.order[1] /\ t.sess = master.sess /\ t.seq = seq
      /\ t.pos = pos /\ t.data = 0
  BY <1>2 DEF Hop, Hops, Addresses
<1>4. t \in Datagrams
  BY <1>3, Zenon DEF Datagrams
<1>5. \A L : L.sess = master.sess /\ L.order = master.order /\ L.pc = "token" /\ L.seq = seq /\ L.pos = pos
              => MsgOk(L, t)
  BY <1>2, <1>3 DEF MsgOk, HopOk
<1>6. ASSUME \A j \in 1 .. N, q \in 0 .. pos - 1 : Cached(master, worker, j, q)
      PROVE  Due(master, worker, t)
  <2>1. Start(NLayers, N, 1 - 1) = 0
    BY <1>2, SplitEnds, StepsAssumption
  <2>2. \A j \in 1 .. 1 - 1 : FALSE
    OBVIOUS
  <2> QED BY <1>2, <1>3, <1>6, <2>1, <2>2, Zenon DEF Due, N
<1>7. (\A j \in 1 .. N, q \in 0 .. pos - 1 : Cached(master, worker, j, q)) => IsDue(master, worker, t)
  BY <1>6, Zenon DEF IsDue
<1> QED BY <1>3, <1>4, <1>5, <1>7

-----------------------------------------------------------------------------
(* The master's steps.                                                     *)

\* Once the neighbours are told they stay told.
LEMMA StillTold ==
  ASSUME NEW M, NEW L, L.order = M.order, NEW W, Told(M, W), M.pc # "notify", L.pc # "notify"
  PROVE  Told(L, W)
  BY DEF Told

\* Steps that send nothing and do not start a token.
LEMMA SilentStep ==
  ASSUME SessionInv, master' \in Masters, master.pc # "notify", master'.pc \notin {"notify", "assign", "token"},
         master.pc \in {"idle", "aborted"} => master'.pc \in {"idle", "aborted"},
         master'.sess = master.sess, master'.order = master.order, master'.seq = master.seq,
         net' \subseteq net, UNCHANGED <<reg, worker, disturbed, final>>
  PROVE  SessionInv'
<1> DEFINE T == {}
<1>1. master \in Masters /\ disturbed \in BOOLEAN /\ Placed(master)
  BY DEF SessionInv, Types
<1>2. Onward(master, master')
  BY <1>1 DEF Onward, Masters
<1>3. Placed(master') /\ RegOk(master', reg)
  BY <1>1 DEF Placed, RegOk
<1>4. Calm(master, worker, net) => Told(master', worker) /\ Computed(master', worker)
  BY StillTold DEF Calm, Computed
<1>5. FinalComplete'
  BY DEF SessionInv, FinalComplete
<1>6. net' \subseteq net \cup T /\ \A m \in T : FALSE
  OBVIOUS
<1> HIDE DEF T
<1> QED BY <1>1, <1>2, <1>3, <1>4, <1>5, <1>6, MasterStep

LEMMA SilentSteps ==
  ASSUME SessionInv, AssignGivenUp \/ WaitFailed \/ TokenLost \/ \E m \in net : ShardReady(m)
  PROVE  SessionInv'
<1>1. master \in Masters
  BY DEF SessionInv, Types
<1>2. CASE AssignGivenUp \/ WaitFailed
  <2>1. /\ master' = [master EXCEPT !.pc = "aborted"] /\ master.pc \in {"assign", "wait"} /\ net' = net
        /\ UNCHANGED <<reg, worker, disturbed, final>>
    BY <1>2 DEF AssignGivenUp, WaitFailed
  <2>2. /\ master' \in Masters /\ master'.pc = "aborted"
        /\ master'.sess = master.sess /\ master'.order = master.order /\ master'.seq = master.seq
    BY <1>1, <2>1 DEF Masters
  <2> QED BY <2>1, <2>2, SilentStep
<1>3. CASE TokenLost
  <2>1. /\ master' = IF master.restarts < MaxRestarts THEN [master EXCEPT !.pc = "idle", !.restarts = @ + 1]
                     ELSE [master EXCEPT !.pc = "exhausted"]
        /\ master.pc = "token" /\ net' = net /\ UNCHANGED <<reg, worker, disturbed, final>>
    BY <1>3 DEF TokenLost
  <2>2. /\ master' \in Masters /\ master'.pc \in {"idle", "exhausted"}
        /\ master'.sess = master.sess /\ master'.order = master.order /\ master'.seq = master.seq
    <3>1. master.restarts + 1 \in Nat
      BY <1>1 DEF Masters
    <3>2. CASE master' = [master EXCEPT !.pc = "idle", !.restarts = @ + 1]
      BY <1>1, <3>1, <3>2, Zenon DEF Masters
    <3>3. CASE master' = [master EXCEPT !.pc = "exhausted"]
      BY <1>1, <3>3 DEF Masters
    <3> QED BY <2>1, <3>2, <3>3
  <2> QED BY <2>1, <2>2, SilentStep
<1>4. ASSUME NEW m \in net, ShardReady(m) PROVE SessionInv'
  <2>1. /\ \/ master' = master \/ master' = [master EXCEPT !.ready = @ + 1] \/ master' = [master EXCEPT !.failed = TRUE]
        /\ master.pc = "wait" /\ net' = net \ {m} /\ UNCHANGED <<reg, worker, disturbed, final>>
    BY <1>4 DEF ShardReady, Waiting
  <2>2. /\ master' \in Masters /\ master'.pc = "wait"
        /\ master'.sess = master.sess /\ master'.order = master.order /\ master'.seq = master.seq
    <3>1. master.ready + 1 \in Nat
      BY <1>1 DEF Masters
    <3>2. CASE master' = [master EXCEPT !.ready = @ + 1]
      BY <1>1, <2>1, <3>1, <3>2, Zenon DEF Masters
    <3>3. CASE master' = [master EXCEPT !.failed = TRUE]
      BY <1>1, <2>1, <3>3, Zenon DEF Masters
    <3> QED BY <1>1, <2>1, <3>2, <3>3
  <2>3. net' \subseteq net
    BY <2>1
  <2> QED BY <2>1, <2>2, <2>3, SilentStep
<1> QED BY <1>2, <1>3, <1>4

\* Going on to L, which sends t; what is left to show when t is a control
\* datagram.
LEMMA ControlStep ==
  ASSUME SessionInv, NEW t, master.pc \in {"notify", "assign"}, master.sess # 0,
         master' \in Masters, master'.sess = master.sess, master'.order = master.order, master'.seq = master.seq,
         master'.pc \in {"notify", "assign"} => master'.k \in 1 .. N,
         master'.pc # "token", master'.pc = "notify" => master.pc = "notify",
         net' \subseteq net \cup {t}, t \in Datagrams, t.proc \in {"SET_NEIGHBOR", "ASSIGN"},
         \A L : L.sess = master.sess /\ L.order = master.order => MsgOk(L, t),
         UNCHANGED <<reg, worker, final>>, disturbed' \in BOOLEAN, disturbed => disturbed',
         ~disturbed' /\ Calm(master, worker, net) => Told(master', worker)
  PROVE  SessionInv'
<1> DEFINE T == {t}
<1>1. master \in Masters /\ Placed(master) /\ RegOk(master, reg)
  BY DEF SessionInv, Types
<1>2. Onward(master, master')
  BY <1>1 DEF Onward, Masters
<1>3. Placed(master') /\ RegOk(master', reg)
  BY <1>1, Zenon DEF Placed, RegOk, N
<1>4. Computed(master', worker)
  BY Zenon DEF Computed
<1>5. ~disturbed' => FinalComplete'
  BY Zenon DEF SessionInv, FinalComplete
<1>6. /\ net' \subseteq net \cup T
      /\ \A m \in T : m \in Datagrams /\ MsgOk(master', m) /\ m.proc # "NEIGHBOR_OK" /\ m.proc # "INFER"
  OBVIOUS
<1> HIDE DEF T
<1> QED BY <1>1, <1>2, <1>3, <1>4, <1>5, <1>6, MasterStep

LEMMA ResendStep ==
  ASSUME SessionInv, Resend
  PROVE  SessionInv'
<1>1. master \in Masters /\ Placed(master) /\ disturbed \in BOOLEAN
  BY DEF SessionInv, Types
<1>2. /\ master.pc \in {"notify", "assign"} /\ master' = [master EXCEPT !.try = @ + 1]
      /\ UNCHANGED <<reg, worker, disturbed, final>>
  BY DEF Resend
<1>3. master.try + 1 \in Nat
  BY <1>1 DEF Masters
<1>4. /\ master' \in Masters /\ master'.sess = master.sess /\ master'.order = master.order
      /\ master'.seq = master.seq /\ master'.pc = master.pc /\ master'.k = master.k
  BY <1>1, <1>2, <1>3, Zenon DEF Masters
<1>5. master.k \in 1 .. N /\ master.sess # 0
  BY <1>1, <1>2 DEF Placed, N
<1>6. Told(master, worker) => Told(master', worker)
  BY <1>4 DEF Told
<1>7. PICK t : /\ net' = net \cup {t} /\ t \in Datagrams /\ t.proc \in {"SET_NEIGHBOR", "ASSIGN"}
               /\ \A L : L.sess = master.sess /\ L.order = master.order => MsgOk(L, t)
  <2>1. CASE master.pc = "notify"
    <3>1. net' = net \cup {Neighbours(master.order[master.k], reg, master.sess, master.try + 1)}
      BY <2>1, Zenon DEF Resend, Current
    <3> QED BY <1>3, <1>5, <2>1, <3>1, NeighboursSent
  <2>2. CASE master.pc # "notify"
    <3>1. net' = net \cup {Assignment(master.order[master.k], master.k, N, master.sess, master.try + 1)}
      BY <2>2, Zenon DEF Resend, Current
    <3> QED BY <1>3, <1>5, <3>1, AssignmentSent
  <2> QED BY <2>1, <2>2
<1> QED BY <1>1, <1>2, <1>4, <1>5, <1>6, <1>7, ControlStep DEF Calm

\* The k-th worker has answered: it is told, and so are those before it.
LEMMA AnsweredTold ==
  ASSUME SessionInv, Calm(master, worker, net), master.pc = "notify", Answer("NEIGHBOR_OK") \in net
  PROVE  \A k \in 1 .. master.k : k \in 1 .. N => Points(master.order, worker[master.order[k]], k)
<1> DEFINE m == Answer("NEIGHBOR_OK")
<1>1. master \in Masters /\ Placed(master) /\ master.k \in 1 .. N
  BY DEF SessionInv, Types, Placed, N
<1>2. Acked(master, worker, m) /\ Told(master, worker)
  BY DEF Calm
<1>3. m.proc = "NEIGHBOR_OK" /\ m.sess = master.sess /\ m.src = master.order[master.k]
  BY Zenon DEF Answer, Current
<1> HIDE DEF m
<1>4. PICK j \in 1 .. N : m.src = master.order[j] /\ Points(master.order, worker[m.src], j)
  BY <1>2, <1>3 DEF Acked, N
<1>5. j = master.k
  BY <1>1, <1>3, <1>4, Zenon DEF Placed, N
<1>6. \A k \in 1 .. master.k : k = master.k \/ k < master.k
  BY <1>1
<1> QED BY <1>2, <1>3, <1>4, <1>5, <1>6, ZenonT(30) DEF Told, N

LEMMA NotifyStep ==
  ASSUME SessionInv, NotifyAnswered \/ NotifyGivenUp
  PROVE  SessionInv'
<1>1. master \in Masters /\ Placed(master) /\ disturbed \in BOOLEAN
  BY DEF SessionInv, Types
<1>2. /\ master.pc = "notify" /\ Notified /\ UNCHANGED <<reg, worker, final>>
      /\ disturbed' \in BOOLEAN /\ (disturbed => disturbed')
      /\ ~disturbed' => Answer("NEIGHBOR_OK") \in net
  BY <1>1, Zenon DEF NotifyAnswered, NotifyGivenUp
<1>3. master.k \in 1 .. N /\ master.sess # 0 /\ N \in Nat
  BY <1>1, <1>2 DEF Placed, N, Masters
<1>4. ASSUME ~disturbed', Calm(master, worker, net)
      PROVE  \A k \in 1 .. master.k : k \in 1 .. N => Points(master.order, worker[master.order[k]], k)
  BY <1>2, <1>4, AnsweredTold
<1>5. CASE master.k < N
  <2> DEFINE k == master.k + 1
             t == Neighbours(master.order[k], reg, master.sess, 1)
  <2>1. master' = [master EXCEPT !.k = @ + 1, !.try = 1] /\ net' = net \cup {t}
    BY <1>2, <1>5 DEF Notified
  <2>2. k \in 1 .. N /\ k \in Nat
    BY <1>3, <1>5
  <2>3. /\ master' \in Masters /\ master'.sess = master.sess /\ master'.order = master.order
        /\ master'.seq = master.seq /\ master'.pc = "notify" /\ master'.k = k
    BY <1>1, <1>2, <2>1, <2>2, ZenonT(30) DEF Masters
  <2>4. /\ t \in Datagrams /\ t.proc = "SET_NEIGHBOR"
        /\ \A L : L.sess = master.sess /\ L.order = master.order => MsgOk(L, t)
    BY <1>2, <2>2, NeighboursSent
  <2>5. ASSUME ~disturbed', Calm(master, worker, net) PROVE Told(master', worker)
    <3>1. \A j \in 1 .. N : j < k => j \in 1 .. master.k
      BY <1>3
    <3> QED BY <1>4, <2>3, <2>5, <3>1 DEF Told, N
  <2> HIDE DEF t, k
  <2> QED BY <1>2, <1>3, <2>1, <2>2, <2>3, <2>4, <2>5, ControlStep, SMTT(30)
<1>6. \A j \in 1 .. N : ~(master.k < N) => j \in 1 .. master.k
  BY <1>3
<1>7. CASE ~(master.k < N) /\ Splittable(NLayers, N)
  <2> DEFINE t == Assignment(master.order[1], 1, N, master.sess, 1)
  <2>1. /\ master' = [master EXCEPT !.pc = "assign", !.k = 1, !.try = 1, !.ready = 0, !.failed = FALSE]
        /\ net' = net \cup {t}
    BY <1>2, <1>7 DEF Notified
  <2>2. 1 \in 1 .. N
    BY <1>3
  <2>3. /\ master' \in Masters /\ master'.sess = master.sess /\ master'.order = master.order
        /\ master'.seq = master.seq /\ master'.pc = "assign" /\ master'.k = 1
    BY <1>1, <2>1, Zenon DEF Masters
  <2>4. /\ t \in Datagrams /\ t.proc = "ASSIGN"
        /\ \A L : L.sess = master.sess /\ L.order = master.order => MsgOk(L, t)
    BY <1>3, <2>2, AssignmentSent
  <2>5. ASSUME ~disturbed', Calm(master, worker, net) PROVE Told(master', worker)
    BY <1>4, <1>6, <1>7, <2>3, <2>5, SMTT(30) DEF Told, N
  <2> HIDE DEF t
  <2> QED BY <1>2, <1>3, <2>1, <2>2, <2>3, <2>4, <2>5, ControlStep, SMTT(30)
<1>8. CASE ~(master.k < N) /\ ~Splittable(NLayers, N)
  <2> DEFINE T == {}
  <2>1. master' = [master EXCEPT !.pc = "aborted"] /\ net' = net
    BY <1>2, <1>8 DEF Notified
  <2>2. /\ master' \in Masters /\ master'.sess = master.sess /\ master'.order = master.order
        /\ master'.seq = master.seq /\ master'.pc = "aborted"
    BY <1>1, <2>1, Zenon DEF Masters
  <2>3. Onward(master, master') /\ Placed(master') /\ RegOk(master', reg) /\ Computed(master', worker)
    <3>1. Onward(master, master')
      BY <1>1, <2>2, SMTT(30) DEF Onward, Masters
    <3>2. Placed(master') /\ RegOk(master', reg) /\ Computed(master', worker)
      BY <1>1, <2>2, Zenon DEF Placed, RegOk, Computed
    <3> QED BY <3>1, <3>2, Zenon
  <2>4. ASSUME ~disturbed', Calm(master, worker, net) PROVE Told(master', worker)
    BY <1>4, <1>6, <1>8, <2>2, <2>4 DEF Told, N
  <2>5. ~disturbed' => FinalComplete'
    BY <1>2 DEF SessionInv, FinalComplete
  <2>6. net' \subseteq net \cup T /\ \A m \in T : FALSE
    BY <2>1
  <2> HIDE DEF T
  <2> QED BY <1>2, <1>3, <2>2, <2>3, <2>4, <2>5, <2>6, MasterStep
<1> QED BY <1>5, <1>7, <1>8

LEMMA AssignAnsweredStep ==
  ASSUME SessionInv, AssignAnswered
  PROVE  SessionInv'
<1>1. master \in Masters /\ Placed(master) /\ disturbed \in BOOLEAN
  BY DEF SessionInv, Types
<1>2. master.pc = "assign" /\ UNCHANGED <<reg, worker, disturbed, final>>
  BY DEF AssignAnswered
<1>3. master.k \in 1 .. N /\ master.sess # 0 /\ N \in Nat
  BY <1>1, <1>2 DEF Placed, N, Masters
<1>4. CASE master.k < N
  <2> DEFINE k == master.k + 1
             t == Assignment(master.order[k], k, N, master.sess, 1)
  <2>1. master' = [master EXCEPT !.k = @ + 1, !.try = 1] /\ net' = net \cup {t}
    BY <1>4 DEF AssignAnswered
  <2>2. k \in 1 .. N /\ k \in Nat
    BY <1>3, <1>4
  <2>3. /\ master' \in Masters /\ master'.sess = master.sess /\ master'.order = master.order
        /\ master'.seq = master.seq /\ master'.pc = "assign" /\ master'.k = k
    BY <1>1, <1>2, <2>1, <2>2, ZenonT(30) DEF Masters
  <2>4. /\ t \in Datagrams /\ t.proc = "ASSIGN"
        /\ \A L : L.sess = master.sess /\ L.order = master.order => MsgOk(L, t)
    BY <1>3, <2>2, AssignmentSent
  <2>5. Told(master, worker) => Told(master', worker)
    BY <1>2, <2>3, StillTold
  <2> HIDE DEF t, k
  <2> QED BY <1>1, <1>2, <1>3, <2>1, <2>2, <2>3, <2>4, <2>5, ControlStep, SMTT(30) DEF Calm
<1>5. CASE ~(master.k < N)
  <2>1. master' = [master EXCEPT !.pc = "wait"] /\ net' = net
    BY <1>5 DEF AssignAnswered
  <2>2. /\ master' \in Masters /\ master'.sess = master.sess /\ master'.order = master.order
        /\ master'.seq = master.seq /\ master'.pc = "wait"
    BY <1>1, <2>1, Zenon DEF Masters
  <2> QED BY <1>2, <2>1, <2>2, SilentStep
<1> QED BY <1>4, <1>5

\* An attempt at position pos, numbered seq, is sent.
LEMMA AttemptStep ==
  ASSUME SessionInv, NEW seq \in Nat, NEW pos \in Nat, master.pc \in {"wait", "token"}, seq = master.seq + 1,
         master' \in Masters, master'.sess = master.sess, master'.order = master.order,
         master'.pc = "token", master'.seq = seq, master'.pos = pos,
         net' \subseteq net \cup {Hop(seq, pos)}, UNCHANGED <<reg, worker, disturbed>>,
         ~disturbed /\ Calm(master, worker, net) =>
           FinalComplete' /\ \A j \in 1 .. N, q \in 0 .. pos - 1 : Cached(master, worker, j, q)
  PROVE  SessionInv'
<1> DEFINE T == {Hop(seq, pos)}
<1>1. master \in Masters /\ Placed(master) /\ disturbed \in BOOLEAN
  BY DEF SessionInv, Types
<1>2. master.sess # 0 /\ N # 0 /\ master.seq \in Nat
  BY <1>1, ZenonT(30) DEF Placed, N, Masters
<1>3. /\ \A t \in T : t \in Datagrams /\ t.proc = "INFER" /\ MsgOk(master', t)
      /\ \A t \in T : (\A j \in 1 .. N, q \in 0 .. pos - 1 : Cached(master, worker, j, q)) => IsDue(master, worker, t)
  <2> SUFFICES ASSUME NEW t \in T
               PROVE /\ t \in Datagrams /\ t.proc = "INFER" /\ MsgOk(master', t)
                     /\ (\A j \in 1 .. N, q \in 0 .. pos - 1 : Cached(master, worker, j, q)) => IsDue(master, worker, t)
    OBVIOUS
  <2>1. t = Hop(seq, pos)
    OBVIOUS
  <2> QED BY <1>2, <2>1, HopSent, SMTT(30)
<1>4. net' \subseteq net \cup T
  OBVIOUS
<1> HIDE DEF T
<1>5. Onward(master, master') /\ Placed(master') /\ RegOk(master', reg)
  <2>1. Onward(master, master')
    BY <1>1, <1>2, SMTT(30) DEF Onward, Masters
  <2>2. Placed(master') /\ RegOk(master', reg)
    BY <1>1, <1>2, Zenon DEF Placed, RegOk, N
  <2> QED BY <2>1, <2>2, Zenon
<1>6. ASSUME ~disturbed, Calm(master, worker, net)
      PROVE  /\ Told(master', worker) /\ Computed(master', worker)
             /\ \A t \in T : IsDue(master', worker, t)
  <2>1. Told(master', worker)
    BY <1>6, StillTold, Zenon DEF Calm
  <2>2. \A j \in 1 .. N, q \in 0 .. pos - 1 : Cached(master, worker, j, q)
    BY <1>6, Zenon
  <2>3. Computed(master', worker)
    BY <2>2, Zenon DEF Computed, Cached, N
  <2>4. \A t \in T : IsDue(master', worker, t)
    BY <1>3, <2>2, SameSession
  <2> QED BY <2>1, <2>3, <2>4
<1> QED BY <1>1, <1>2, <1>3, <1>4, <1>5, <1>6, MasterStep, Zenon

LEMMA StartStep ==
  ASSUME SessionInv, StartGeneration \/ TokenRetry
  PROVE  SessionInv'
<1>1. master \in Masters /\ master.seq \in Nat /\ master.attempt \in Nat /\ master.pos \in Nat
  BY DEF SessionInv, Types, Masters
<1>2. master.seq + 1 \in Nat /\ master.attempt + 1 \in Nat
  BY <1>1
<1>3. UNCHANGED <<reg, worker, disturbed, final>>
  BY DEF StartGeneration, TokenRetry
<1>4. ~disturbed => FinalComplete'
  BY <1>3 DEF SessionInv, FinalComplete
<1>5. CASE StartGeneration
  <2>1. /\ master.pc = "wait" /\ net' = net \cup {Hop(master.seq + 1, 0)}
        /\ master' = [master EXCEPT !.pc = "token", !.pos = 0, !.attempt = 0, !.seq = @ + 1]
    BY <1>5 DEF StartGeneration
  <2>2. /\ master' \in Masters /\ master'.sess = master.sess /\ master'.order = master.order
        /\ master'.pc = "token" /\ master'.seq = master.seq + 1 /\ master'.pos = 0
    BY <1>1, <1>2, <2>1, Zenon DEF Masters
  <2>3. \A j \in 1 .. N, q \in 0 .. 0 - 1 : Cached(master, worker, j, q)
    OBVIOUS
  <2> QED BY <1>2, <1>3, <1>4, <2>1, <2>2, <2>3, AttemptStep, Zenon
<1>6. CASE TokenRetry
  <2>1. /\ master.pc = "token" /\ net' = net \cup {Hop(master.seq + 1, master.pos)}
        /\ master' = [master EXCEPT !.attempt = @ + 1, !.seq = @ + 1]
    BY <1>6 DEF TokenRetry
  <2>2. /\ master' \in Masters /\ master'.sess = master.sess /\ master'.order = master.order
        /\ master'.pc = "token" /\ master'.seq = master.seq + 1 /\ master'.pos = master.pos
    BY <1>1, <1>2, <2>1, Zenon DEF Masters
  <2>3. Calm(master, worker, net) => \A j \in 1 .. N, q \in 0 .. master.pos - 1 : Cached(master, worker, j, q)
    BY <2>1 DEF Calm, Computed, N
  <2> QED BY <1>1, <1>2, <1>3, <1>4, <2>1, <2>2, <2>3, AttemptStep
<1> QED BY <1>5, <1>6, ZenonT(30)

LEMMA FinalStep ==
  ASSUME SessionInv, NEW m \in net, FinalArrives(m)
  PROVE  SessionInv'
<1>1. /\ master \in Masters /\ Placed(master) /\ disturbed \in BOOLEAN /\ m \in Datagrams /\ MsgOk(master, m)
      /\ master.seq \in Nat /\ master.pos \in Nat
  BY DEF SessionInv, Types, Masters
<1>2. /\ master.pc = "token" /\ m.proc = "INFER" /\ m.dst = Master /\ m.sess = master.sess /\ m.seq = master.seq
      /\ final' = [pos |-> master.pos, data |-> IF m.pos = master.pos THEN m.data ELSE Spoilt]
      /\ UNCHANGED <<reg, worker, disturbed>>
  BY Zenon DEF FinalArrives
<1>3. m.pos = master.pos
  BY <1>1, <1>2, Zenon DEF MsgOk, HopOk
<1>4. ASSUME ~disturbed, Calm(master, worker, net)
      PROVE  /\ FinalComplete'
             /\ \A j \in 1 .. N, q \in 0 .. (master.pos + 1) - 1 : Cached(master, worker, j, q)
  <2>1. Due(master, worker, m)
    BY <1>2, <1>4, Zenon DEF Calm, IsDue
  <2>2. \A k \in 1 .. N : master.order[k] # Master
    <3>1. master.order \in Seq(Workers)
      BY <1>1, Zenon DEF Masters
    <3>2. \A o \in Seq(Workers) : \A k \in 1 .. Len(o) : o[k] \in Workers
      OBVIOUS
    <3>3. 0 \notin Workers
      BY WorkersAssumption DEF Workers
    <3> QED BY <3>1, <3>2, <3>3, Zenon DEF N, Master
  <2>3. m.data = NLayers /\ \A j \in 1 .. N : Cached(master, worker, j, m.pos)
    BY <1>2, <2>1, <2>2, Zenon DEF Due, N
  <2>4. \A j \in 1 .. N, q \in 0 .. m.pos - 1 : Cached(master, worker, j, q)
    BY <2>1 DEF Due, N
  <2>5. \A q \in 0 .. (master.pos + 1) - 1 : q = m.pos \/ q \in 0 .. m.pos - 1
    BY <1>1, <1>3
  <2>6. final'.data = NLayers
    BY <1>2, <1>3, <2>3, Zenon
  <2> QED BY <2>3, <2>4, <2>5, <2>6, Zenon DEF FinalComplete
<1>5. CASE master' = [master EXCEPT !.pc = "done", !.pos = @ + 1] /\ net' = net \ {m}
  <2> DEFINE T == {}
  <2>1. master.pos + 1 \in Nat
    BY <1>1
  <2>2. /\ master' \in Masters /\ master'.sess = master.sess /\ master'.order = master.order
        /\ master'.pc = "done" /\ master'.seq = master.seq
    BY <1>1, <1>5, <2>1, Zenon DEF Masters
  <2>3. Onward(master, master') /\ Placed(master') /\ RegOk(master', reg) /\ Computed(master', worker)
    <3>1. Onward(master, master')
      BY <1>1, <1>2, <2>2 DEF Onward, Masters
    <3>2. Placed(master') /\ RegOk(master', reg) /\ Computed(master', worker)
      BY <1>1, <1>2, <2>2, Zenon DEF Placed, RegOk, Computed
    <3> QED BY <3>1, <3>2, Zenon
  <2>4. Calm(master, worker, net) => Told(master', worker)
    BY <1>2, <2>2, StillTold, Zenon DEF Calm
  <2>5. net' \subseteq net \cup T /\ \A t \in T : FALSE
    BY <1>5, Zenon
  <2>6. master.sess # 0
    BY <1>1, <1>2, Zenon DEF Placed
  <2> HIDE DEF T
  <2> QED BY <1>1, <1>2, <1>4, <2>2, <2>3, <2>4, <2>5, <2>6, MasterStep
<1>6. CASE /\ master' = [master EXCEPT !.pos = @ + 1, !.attempt = 0, !.seq = @ + 1]
           /\ net' = (net \ {m}) \cup {Hop(master.seq + 1, master.pos + 1)}
  <2>1. master.pos + 1 \in Nat /\ master.seq + 1 \in Nat
    BY <1>1
  <2>2. /\ master' \in Masters /\ master'.sess = master.sess /\ master'.order = master.order
        /\ master'.pc = "token" /\ master'.seq = master.seq + 1 /\ master'.pos = master.pos + 1
    BY <1>1, <1>2, <1>6, <2>1, Zenon DEF Masters
  <2> DEFINE seq == master.seq + 1
             pos == master.pos + 1
  <2>3. net' \subseteq net \cup {Hop(seq, pos)}
    BY <1>6
  <2>4. ~disturbed /\ Calm(master, worker, net) =>
          FinalComplete' /\ \A j \in 1 .. N, q \in 0 .. pos - 1 : Cached(master, worker, j, q)
    BY <1>4, Zenon
  <2>5. seq \in Nat /\ pos \in Nat /\ seq = master.seq + 1 /\ master'.seq = seq /\ master'.pos = pos
    BY <2>1, <2>2
  <2> HIDE DEF seq, pos
  <2> QED BY <1>2, <2>2, <2>3, <2>4, <2>5, AttemptStep, ZenonT(30)
<1> QED BY <1>5, <1>6 DEF FinalArrives

-----------------------------------------------------------------------------
(* The ring a session is laid over.                                        *)

LEMMA WorkersFinite ==
  ASSUME NEW S \in SUBSET Workers
  PROVE  S \in SUBSET Nat /\ IsFiniteSet(S) /\ \A u \in S : u <= NWorkers
<1>1. Workers = 1 .. NWorkers /\ 1 \in Int /\ NWorkers \in Int
  BY WorkersAssumption DEF Workers
<1>2. IsFiniteSet(Workers)
  BY <1>1, FS_Interval, Zenon
<1>3. IsFiniteSet(S)
  BY <1>2, FS_Subset
<1> QED BY <1>1, <1>3

LEMMA Bounds ==
  ASSUME NEW S \in SUBSET Workers, S # {}
  PROVE  /\ Highest(S) \in S /\ \A u \in S : u <= Highest(S)
         /\ Lowest(S) \in S /\ \A u \in S : Lowest(S) <= u
<1>1. S \in SUBSET Nat /\ \A u \in S : u <= NWorkers
  BY WorkersFinite
<1>2. \E v \in S : \A u \in S : u <= v
  BY <1>1, WorkersAssumption, GreatestNatural, Zenon
<1>3. \E v \in S : \A u \in S : v <= u
  BY <1>1, LeastNatural
<1> QED BY <1>2, <1>3 DEF Highest, Lowest

LEMMA BoundsUnique ==
  ASSUME NEW S \in SUBSET Nat, NEW x \in S
  PROVE  /\ (\A u \in S : u <= x) => Highest(S) = x
         /\ (\A u \in S : x <= u) => Lowest(S) = x
<1>1. ASSUME \A u \in S : u <= x
      PROVE  Highest(S) = x
  <2>1. Highest(S) \in S /\ x <= Highest(S)
    BY <1>1, Zenon DEF Highest
  <2>2. Highest(S) <= x /\ Highest(S) \in Nat /\ x \in Nat
    BY <1>1, <2>1, Zenon
  <2> QED BY <2>1, <2>2
<1>2. ASSUME \A u \in S : x <= u
      PROVE  Lowest(S) = x
  <2>1. Lowest(S) \in S /\ Lowest(S) <= x
    BY <1>2, Zenon DEF Lowest
  <2>2. x <= Lowest(S) /\ Lowest(S) \in Nat /\ x \in Nat
    BY <1>2, <2>1, Zenon
  <2> QED BY <2>1, <2>2
<1> QED BY <1>1, <1>2

LEMMA Pointers ==
  ASSUME NEW S \in SUBSET Workers, NEW w \in Workers
  PROVE  /\ Before(S, w) \in Addresses /\ After(S, w) \in Addresses
         /\ S # {} => Behind(S, w) \in S
<1>1. Below(S, w) \in SUBSET S /\ Above(S, w) \in SUBSET S
  BY DEF Below, Above
<1>2. Below(S, w) \in SUBSET Workers /\ Above(S, w) \in SUBSET Workers
  BY <1>1
<1>3. Below(S, w) # {} => Highest(Below(S, w)) \in Below(S, w)
  BY <1>2, Bounds, Zenon
<1>4. Above(S, w) # {} => Lowest(Above(S, w)) \in Above(S, w)
  BY <1>2, Bounds, Zenon
<1>5. S # {} => Highest(S) \in S
  BY Bounds, Zenon
<1> QED BY <1>1, <1>2, <1>3, <1>4, <1>5, Zenon DEF Before, After, Behind, Addresses

\* discovery_restitch_ring lays the active workers out in slot order.
LEMMA SlotOrder ==
  ASSUME NEW S \in SUBSET Workers, S # {}, NEW o, o = InOrder(S)
  PROVE  /\ o \in Seq(Workers) /\ Len(o) # 0
         /\ \A i, j \in 1 .. Len(o) : o[i] = o[j] => i = j
         /\ o[1] = Lowest(S)
         /\ \A k \in 1 .. Len(o) :
              /\ o[k] \in S
              /\ Before(S, o[k]) = IF k = 1 THEN Master ELSE o[k - 1]
              /\ After(S, o[k]) = IF k = Len(o) THEN Master ELSE o[k + 1]
<1> DEFINE n == Cardinality(S)
<1>1. S \in SUBSET Nat /\ IsFiniteSet(S)
  BY WorkersFinite
<1>2. o = Ascending(S)
  BY DEF InOrder, Ascending, Rank, Below, Under
<1>3. n \in Nat /\ o \in [1 .. n -> S] /\ \A i \in 1 .. n : Rank(S, o[i]) = i - 1
  BY <1>1, <1>2, AscendingOrder
<1>4. n # 0
  BY <1>1, FS_EmptySet
<1> HIDE DEF n
<1>5. o \in Seq(Workers) /\ Len(o) = n
  BY <1>3
<1>6. \A i, j \in 1 .. Len(o) : o[i] = o[j] => i = j
  BY <1>3, <1>5
<1>7. ASSUME NEW k \in 1 .. n
      PROVE  Before(S, o[k]) = IF k = 1 THEN Master ELSE o[k - 1]
  <2>1. /\ k = 1 <=> Below(S, o[k]) = {}
        /\ k > 1 => o[k - 1] \in Below(S, o[k]) /\ \A v \in Below(S, o[k]) : v <= o[k - 1]
    BY <1>1, <1>2, AscendingPrevious DEF Below, Under, n
  <2>2. Below(S, o[k]) \in SUBSET Nat
    BY <1>1, Zenon DEF Below
  <2>3. k > 1 => Highest(Below(S, o[k])) = o[k - 1]
    BY <2>1, <2>2, BoundsUnique
  <2>4. k = 1 \/ k > 1
    BY <1>3
  <2> QED BY <2>1, <2>3, <2>4, Zenon DEF Before
<1>8. ASSUME NEW k \in 1 .. n
      PROVE  After(S, o[k]) = IF k = n THEN Master ELSE o[k + 1]
  <2>1. /\ k = n <=> Above(S, o[k]) = {}
        /\ k < n => o[k + 1] \in Above(S, o[k]) /\ \A v \in Above(S, o[k]) : o[k + 1] <= v
    BY <1>1, <1>2, AscendingNext DEF Above, Over, n
  <2>2. Above(S, o[k]) \in SUBSET Nat
    BY <1>1, Zenon DEF Above
  <2>3. k < n => Lowest(Above(S, o[k])) = o[k + 1]
    BY <2>1, <2>2, BoundsUnique
  <2>4. k = n \/ k < n
    BY <1>3
  <2> QED BY <2>1, <2>3, <2>4 DEF After
<1>9. o[1] = Lowest(S)
  <2>1. 1 \in 1 .. n
    BY <1>3, <1>4
  <2>2. Below(S, o[1]) = {} /\ o[1] \in S
    BY <1>1, <1>2, <1>3, <2>1, AscendingPrevious DEF Below, Under, n
  <2>3. \A u \in S : ~(u < o[1]) /\ u \in Nat /\ o[1] \in Nat
    BY <1>1, <2>2, Zenon DEF Below
  <2>4. \A u \in S : o[1] <= u
    BY <2>3
  <2> QED BY <1>1, <2>2, <2>4, BoundsUnique, Zenon
<1> QED BY <1>3, <1>4, <1>5, <1>6, <1>7, <1>8, <1>9, ZenonT(30)

LEMMA BeginStep ==
  ASSUME SessionInv, Begin
  PROVE  SessionInv'
<1>1. /\ master \in Masters /\ Placed(master) /\ reg \in [Workers -> Entries]
      /\ worker \in [Workers -> Processes] /\ net \subseteq Datagrams
      /\ master.sess \in Nat /\ master.seq \in Nat
  BY DEF SessionInv, Types, Masters
<1>2. master.pc = "idle" /\ worker' = worker
  BY DEF Begin
<1>3. CASE Active = {}
  <2>1. master' = [master EXCEPT !.pc = "aborted"] /\ UNCHANGED <<reg, net, disturbed, final>>
    BY <1>3 DEF Begin
  <2>2. /\ master' \in Masters /\ master'.sess = master.sess /\ master'.order = master.order
        /\ master'.seq = master.seq /\ master'.pc = "aborted"
    BY <1>1, <2>1, Zenon DEF Masters
  <2> QED BY <1>2, <2>1, <2>2, SilentStep
<1>4. CASE Active # {}
  <2> DEFINE o == InOrder(Active)
             t == Neighbours(Lowest(Active), Relinked, master.sess + 1, 1)
  <2>1. /\ reg' = Relinked /\ disturbed' = FALSE /\ final' = NoFinal
        /\ master' = [master EXCEPT !.pc = "notify", !.sess = @ + 1, !.order = o, !.k = 1, !.try = 1]
        /\ net' = net \cup {t}
    BY <1>4, SMTT(30) DEF Begin
  <2>2. /\ o \in Seq(Workers) /\ Len(o) # 0
        /\ \A i, j \in 1 .. Len(o) : o[i] = o[j] => i = j
        /\ o[1] = Lowest(Active)
        /\ \A k \in 1 .. Len(o) :
             /\ o[k] \in Active
             /\ Before(Active, o[k]) = IF k = 1 THEN Master ELSE o[k - 1]
             /\ After(Active, o[k]) = IF k = Len(o) THEN Master ELSE o[k + 1]
    <3>1. Active \in SUBSET Workers
      BY DEF Active
    <3> QED BY <1>4, <3>1, SlotOrder
  <2> HIDE DEF o
  <2>3. 1 \in 1 .. Len(o) /\ master.sess + 1 \in Nat /\ master.sess + 1 # 0
    BY <1>1, <2>2
  <2>4. /\ master' \in Masters /\ master'.pc = "notify" /\ master'.sess = master.sess + 1
        /\ master'.order = o /\ master'.k = 1 /\ master'.seq = master.seq
    BY <1>1, <2>1, <2>2, <2>3, ZenonT(30) DEF Masters
  <2>5. Placed(master')
    BY <2>2, <2>3, <2>4 DEF Placed
  <2>6. /\ Relinked \in [Workers -> Entries]
        /\ \A w \in Active : Relinked[w].prev = Before(Active, w) /\ Relinked[w].next = After(Active, w)
    <3>1. \A w \in Workers : Before(Active, w) \in Addresses /\ After(Active, w) \in Addresses
      BY Pointers DEF Active
    <3>2. \A w \in Active : w \in Workers /\ reg[w] \in Entries
      BY <1>1, Zenon DEF Active
    <3>3. \A w \in Active : /\ Relinked[w] = [reg[w] EXCEPT !.prev = Before(Active, w), !.next = After(Active, w)]
                            /\ Relinked[w] \in Entries
      BY <3>1, <3>2, Zenon DEF Relinked, Entries
    <3>4. \A w \in Workers \ Active : Relinked[w] \in Entries
      BY <1>1, Zenon DEF Relinked
    <3>5. Relinked \in [Workers -> Entries]
      <4>1. \A w \in Workers : Relinked[w] \in Entries
        BY <3>3, <3>4, Zenon
      <4> QED BY <4>1, Zenon DEF Relinked
    <3> QED BY <3>2, <3>3, <3>5, ZenonT(30) DEF Entries
  <2>7. \A k \in 1 .. Len(o) : Points(o, Relinked[o[k]], k)
    BY <2>2, <2>6, Zenon DEF Points
  <2>8. RegOk(master', reg')
    BY <2>1, <2>4, <2>7, Zenon DEF RegOk
  <2>9. Lowest(Active) \in Workers /\ Relinked[Lowest(Active)] \in Entries
    BY <2>2, <2>3, <2>6, ZenonT(30) DEF Active
  <2>10. /\ t \in Datagrams /\ t.proc = "SET_NEIGHBOR" /\ t.sess = master.sess + 1 /\ t.dst = o[1]
         /\ t.prev = Relinked[o[1]].prev /\ t.next = Relinked[o[1]].next
    BY <2>2, <2>3, <2>9, Zenon DEF Neighbours, Datagrams, Entries
  <2> HIDE DEF t
  <2>11. Points(o, t, 1)
    BY <2>3, <2>7, <2>10, ZenonT(30) DEF Points
  <2>12. MsgOk(master', t)
    BY <2>3, <2>4, <2>10, <2>11 DEF MsgOk
  <2>13. ASSUME NEW h \in Hops, HopOk(master, h)
         PROVE  HopOk(master', h) /\ h.sess # master'.sess
    BY <1>1, <2>4, <2>13, SMTT(30) DEF HopOk, Hops
  <2>14. ASSUME NEW m \in net
         PROVE  MsgOk(master', m) /\ m.sess # master'.sess
    <3>1. m \in Datagrams /\ MsgOk(master, m)
      BY <1>1, Zenon DEF SessionInv
    <3>2. m.sess \in Nat /\ m.sess <= master.sess
      BY <3>1 DEF MsgOk, Datagrams, Hops
    <3>3. m.sess # master'.sess /\ m.sess <= master'.sess
      BY <1>1, <2>4, <3>2
    <3>4. m.proc = "INFER" => HopOk(master', m)
      BY <3>1, <2>13, Activation, Zenon DEF MsgOk
    <3> QED BY <3>3, <3>4 DEF MsgOk
  <2>15. ASSUME NEW w \in Workers
         PROVE  /\ ProcOk(master', w, worker[w]) /\ Given(master', w, worker[w])
                /\ worker[w].hop # << >> => IsDue(master', worker, worker[w].hop)
    <3> DEFINE p == worker[w]
    <3>1. p \in Processes /\ ProcOk(master, w, p)
      BY <1>1, Zenon DEF SessionInv
    <3> HIDE DEF p
    <3>2. p.hop # << >> => p.hop \in Hops /\ HopOk(master', p.hop) /\ p.hop.sess # master'.sess
      BY <2>13, <3>1, Zenon DEF ProcOk, Processes
    <3>3. p.session \in Nat /\ p.session <= master.sess
      BY <3>1 DEF ProcOk, Processes
    <3>4. p.session # master'.sess /\ p.session <= master'.sess
      BY <1>1, <2>4, <3>3
    <3>5. p.asg # << >> => p.asg.sess \in Nat /\ p.asg.sess <= master.sess
      BY <3>1, Zenon DEF ProcOk, Processes, Assignments
    <3>6. p.asg # << >> => p.asg.sess # master'.sess /\ p.asg.sess <= master'.sess
      BY <1>1, <2>4, <3>5
    <3>7. p.load # << >> => p.load.sess \in Nat /\ p.load.sess <= master.sess
      BY <3>1, Zenon DEF ProcOk, Processes, Assignments
    <3>8. p.load # << >> => p.load.sess # master'.sess /\ p.load.sess <= master'.sess
      BY <1>1, <2>4, <3>7
    <3>9. ProcOk(master', w, p)
      BY <3>1, <3>2, <3>4, <3>6, <3>8, Zenon DEF ProcOk
    <3>10. Given(master', w, p) /\ (p.hop # << >> => IsDue(master', worker, p.hop))
      BY <3>2, <3>4, <3>6, <3>8, Zenon DEF Given, IsDue
    <3> QED BY <3>9, <3>10, Zenon DEF p
  <2>16. Told(master', worker)
    BY <2>4, <2>2 DEF Told
  <2>17. \A m \in net' : Acked(master', worker, m) /\ (m.proc = "INFER" => IsDue(master', worker, m))
    BY <2>1, <2>10, <2>14, ZenonT(30) DEF Acked, IsDue
  <2>18. Calm(master', worker', net')
    BY <1>2, <2>4, <2>15, <2>16, <2>17 DEF Calm, Computed
  <2>19. Types'
    BY <1>1, <1>2, <2>1, <2>4, <2>6, <2>10, ZenonT(30) DEF Types
  <2>20. FinalComplete'
    BY <2>1 DEF FinalComplete, NoFinal
  <2>21. \A m \in net' : MsgOk(master', m)
    BY <2>1, <2>12, <2>14
  <2> QED BY <1>2, <2>5, <2>8, <2>15, <2>18, <2>19, <2>20, <2>21, ZenonT(30) DEF SessionInv
<1> QED BY <1>3, <1>4

LEMMA AgeStep ==
  ASSUME SessionInv, NEW w \in Workers, Age(w)
  PROVE  SessionInv'
<1>1. reg \in [Workers -> Entries]
  BY DEF SessionInv, Types
<1>2. /\ master.pc \in {"wait", "token"} /\ UNCHANGED <<master, worker, net, disturbed, final>>
      /\ \E e \in Ageing : reg' = [reg EXCEPT ![w].state = e[2]]
  BY Zenon DEF Age, Pumping
<1>3. reg' \in [Workers -> Entries]
  BY <1>1, <1>2 DEF Ageing, Entries
<1>4. RegOk(master', reg')
  BY <1>2 DEF RegOk
<1>5. Types' /\ FinalComplete'
  BY <1>2, <1>3, SMTT(30) DEF SessionInv, Types, FinalComplete
<1> QED BY <1>2, <1>4, <1>5 DEF SessionInv

LEMMA RejoinStep ==
  ASSUME SessionInv, NEW w \in Workers, NEW heard \in BOOLEAN, NEW restarted \in BOOLEAN,
         Rejoin(w, heard, restarted)
  PROVE  SessionInv'
<1>1. /\ master \in Masters /\ reg \in [Workers -> Entries] /\ worker \in [Workers -> Processes]
      /\ net \subseteq Datagrams /\ master.sess \in Nat
  BY DEF SessionInv, Types, Masters
<1>2. master.pc \in {"wait", "token"} /\ disturbed' = TRUE /\ master' = master
  BY DEF Rejoin, Pumping
<1>3. /\ reg' \in [Workers -> Entries]
      /\ \A m \in net' : m \in Datagrams /\ MsgOk(master, m)
  <2>1. CASE Active = {}
    <3>1. reg' = [reg EXCEPT ![w] = [state |-> "ACTIVE", prev |-> Master, next |-> Master]] /\ net' = net
      BY <2>1 DEF Rejoin
    <3>2. [state |-> "ACTIVE", prev |-> Master, next |-> Master] \in Entries
      BY DEF Entries, Addresses
    <3>3. reg' \in [Workers -> Entries]
      BY <1>1, <3>1, <3>2
    <3> QED BY <1>1, <3>1, <3>3, Zenon DEF SessionInv
  <2>2. CASE Active # {}
    <3> DEFINE p == Behind(Active, w)
               e == [state |-> "ACTIVE", prev |-> p, next |-> reg[p].next]
               t == Neighbours(p, reg', 0, 1)
    <3>1. reg' = [reg EXCEPT ![p].next = w, ![w] = e] /\ net' = net \cup {t}
      BY <2>2 DEF Rejoin
    <3>2. p \in Workers
      BY <2>2, Pointers, Zenon DEF Active
    <3> HIDE DEF p
    <3>3. e \in Entries /\ w \in Addresses /\ reg[p] \in Entries
      BY <1>1, <3>2 DEF Entries, Addresses
    <3> HIDE DEF e
    <3>4. [reg[p] EXCEPT !.next = w] \in Entries
      BY <3>3 DEF Entries
    <3>5. reg' \in [Workers -> Entries]
      BY <1>1, <3>1, <3>2, <3>3, <3>4, SMTT(30)
    <3>6. t \in Datagrams /\ t.proc = "SET_NEIGHBOR" /\ t.sess = 0
      BY <3>2, <3>5, SMTT(30) DEF Neighbours, Datagrams, Entries
    <3> HIDE DEF t
    <3>7. MsgOk(master, t)
      BY <1>1, <3>6 DEF MsgOk
    <3> QED BY <1>1, <3>1, <3>5, <3>6, <3>7 DEF SessionInv
  <2> QED BY <2>1, <2>2, Zenon
<1>4. reg'[w] \in Entries
  BY <1>3
<1> DEFINE p == worker[w]
           x == [p EXCEPT !.prev = IF heard THEN reg'[w].prev ELSE @,
                          !.next = IF heard THEN reg'[w].next ELSE @,
                          !.asg = IF restarted THEN << >> ELSE @,
                          !.load = IF restarted THEN << >> ELSE @,
                          !.ready = @ /\ ~restarted,
                          !.session = IF restarted THEN 0 ELSE @,
                          !.kv = IF restarted THEN {} ELSE @,
                          !.hop = IF restarted THEN << >> ELSE @,
                          !.last = IF restarted THEN 0 ELSE @]
<1>5. worker' = [worker EXCEPT ![w] = x]
  BY DEF Rejoin
<1>6. p \in Processes /\ ProcOk(master, w, p)
  BY <1>1 DEF SessionInv
<1> HIDE DEF p
<1>7. x \in Processes /\ ProcOk(master, w, x)
  <2>1. CASE restarted
    <3>1. /\ x.asg = << >> /\ x.load = << >> /\ x.ready = FALSE /\ x.session = 0 /\ x.hop = << >>
          /\ x \in Processes
      BY <1>4, <1>6, <2>1, ZenonT(30) DEF Processes, Entries
    <3> HIDE DEF x
    <3> QED BY <1>1, <3>1 DEF ProcOk
  <2>2. CASE ~restarted
    <3>1. /\ x.asg = p.asg /\ x.load = p.load /\ x.ready = p.ready /\ x.session = p.session
          /\ x.hop = p.hop /\ x.kv = p.kv /\ x \in Processes
      BY <1>4, <1>6, <2>2, ZenonT(30) DEF Processes, Entries
    <3> HIDE DEF x
    <3> QED BY <1>6, <3>1 DEF ProcOk
  <2> QED BY <2>1, <2>2
<1> HIDE DEF x
<1>8. worker' \in [Workers -> Processes] /\ \A v \in Workers : ProcOk(master', v, worker'[v])
  BY <1>1, <1>2, <1>5, <1>7 DEF SessionInv
<1>9. Types' /\ FinalComplete' /\ RegOk(master', reg') /\ Placed(master')
  <2>1. net' \subseteq Datagrams /\ disturbed' \in BOOLEAN
    BY <1>2, <1>3
  <2>2. Types'
    BY <1>1, <1>2, <1>3, <1>8, <2>1, Zenon DEF Types
  <2> QED BY <1>2, <2>2 DEF SessionInv, FinalComplete, RegOk
<1> QED BY <1>2, <1>3, <1>8, <1>9, SMTT(30) DEF SessionInv

LEMMA SessionInit ==
  ASSUME Init
  PROVE  SessionInv
<1>1. PICK late \in Workers \cup {Master} :
        worker = [w \in Workers |->
                   [prev |-> Joined(late, w).prev, next |-> Joined(late, w).next,
                    asg |-> << >>, load |-> << >>, ready |-> FALSE, session |-> 0,
                    lo |-> 0, hi |-> 0, kv |-> {}, hop |-> << >>, last |-> 0]]
  BY Zenon DEF Init
<1>2. \A w \in Workers : Joined(late, w).prev \in Addresses /\ Joined(late, w).next \in Addresses
  <2> SUFFICES ASSUME NEW w \in Workers
               PROVE  Joined(late, w).prev \in Addresses /\ Joined(late, w).next \in Addresses
    OBVIOUS
  <2> DEFINE S == Workers \ {late}
  <2>1. S \in SUBSET Workers
    OBVIOUS
  <2>2. Joined(late, w) = IF w # late THEN [prev |-> Before(S, w), next |-> After(S, w)]
                          ELSE IF S = {} THEN [prev |-> Master, next |-> Master]
                          ELSE [prev |-> Behind(S, w), next |-> After(S, Behind(S, w))]
    BY DEF Joined
  <2> HIDE DEF S
  <2>3. Before(S, w) \in Addresses /\ After(S, w) \in Addresses
    BY <2>1, Pointers
  <2>4. S # {} => Behind(S, w) \in Workers
    BY <2>1, Pointers, Zenon
  <2>5. S # {} => Behind(S, w) \in Addresses /\ After(S, Behind(S, w)) \in Addresses
    BY <2>1, <2>4, Pointers DEF Addresses
  <2>6. Master \in Addresses
    BY SMTT(30) DEF Addresses
  <2> QED BY <2>2, <2>3, <2>5, <2>6
<1>3. /\ worker \in [Workers -> Processes]
      /\ \A w \in Workers : /\ worker[w].session = 0 /\ worker[w].asg = << >> /\ worker[w].load = << >>
                            /\ worker[w].hop = << >> /\ worker[w].ready = FALSE
  BY <1>1, <1>2 DEF Processes
<1>4. reg \in [Workers -> Entries]
  BY ZenonT(30) DEF Init, Entries, Addresses
<1>5. /\ master \in Masters /\ master.pc = "idle" /\ master.sess = 0 /\ master.order = << >>
  BY DEF Init, Masters
<1>6. net = {} /\ disturbed = FALSE /\ final = NoFinal
  BY Zenon DEF Init
<1>7. Types
  BY <1>3, <1>4, <1>5, <1>6, Zenon DEF Types
<1>8. Placed(master) /\ RegOk(master, reg)
  BY <1>5 DEF Placed, RegOk
<1>9. \A w \in Workers : ProcOk(master, w, worker[w])
  BY <1>3, <1>5 DEF ProcOk
<1>10. FinalComplete
  BY <1>6 DEF FinalComplete, NoFinal
<1> QED BY <1>5, <1>6, <1>7, <1>8, <1>9, <1>10, Zenon DEF SessionInv

LEMMA SessionStep ==
  ASSUME SessionInv, [Next]_vars
  PROVE  SessionInv'
<1>1. CASE Setup
  BY <1>1, BeginStep, ResendStep, NotifyStep, AssignAnsweredStep, SilentSteps, Zenon DEF Setup
<1>2. CASE Generate
  BY <1>2, SilentSteps, StartStep, FinalStep DEF Generate
<1>3. CASE Listen
  BY <1>3, RecvNeighborStep, RecvAssignStep, RecvHopStep, Zenon DEF Listen
<1>4. CASE Infer
  BY <1>4, TakeAssignmentStep, LoadedStep, ServeStep, Zenon DEF Infer
<1>5. CASE Registry
  BY <1>5, AgeStep, RejoinStep, Zenon DEF Registry
<1>6. CASE UNCHANGED vars
  <2>1. UNCHANGED <<master, reg, worker, net, disturbed, final>>
    BY <1>6 DEF vars
  <2>2. Types' /\ FinalComplete'
    BY <2>1 DEF SessionInv, Types, FinalComplete
  <2> QED BY <2>1, <2>2 DEF SessionInv
<1> QED BY <1>1, <1>2, <1>3, <1>4, <1>5, <1>6, Zenon DEF Next

\* distinf.c:951-959, 1144-1159: unless a session is disturbed, what
\* master_handle_final accepts for a position went through every layer once and
\* in order, over all earlier positions, for any number of workers and layers.
THEOREM FinalsComplete == Spec => []FinalComplete
<1>1. Init => SessionInv
  BY SessionInit
<1>2. SessionInv /\ [Next]_vars => SessionInv'
  BY SessionStep
<1>3. SessionInv => FinalComplete
  BY DEF SessionInv
<1> QED BY <1>1, <1>2, <1>3, PTL DEF Spec
=============================================================================
