--------------------------- MODULE TransferProofs ---------------------------
(***************************************************************************)
(* How data is passed from one owner to the next, complete or not at all.  *)
(* A model that a process fetched itself, or found at rest, is whole, for  *)
(* any number of processes and chunks (SegmentCache). Whichever threads    *)
(* send at once, every datagram is one whole message (RpcSend). A transfer *)
(* that succeeds has the bytes of its window, whatever the network loses,  *)
(* duplicates, delays and reorders, for any file size, chunk size, window  *)
(* and number of transfers (Rftp). The windows a worker fetches are the    *)
(* ones a single node reads, for every model shard_fetch_config lets       *)
(* through, and so a loaded shard computes with the right weights          *)
(* (ShardLoad).                                                            *)
(***************************************************************************)
EXTENDS SegmentCache, RpcSend, Rftp, ShardLoad, TLAPS

-----------------------------------------------------------------------------
(* The segment cache.                                                      *)

\* A process has been through the segments before its own; a fetch under way
\* has put into the segment what it received; and a segment that is not whole
\* is being fetched or was given up.
CacheInv ==
  /\ llama \in [Procs -> [pc : {"exited", "get", "create", "fetch", "run"}, k : 1 .. 3,
                          got : SUBSET FileChunks, how : Seq({"fetched", "hit", "early"})]]
  /\ \A s \in DOMAIN seg : seg[s] \subseteq FileChunks
  /\ \A p \in Procs :
       /\ llama[p].pc \in {"get", "create", "fetch"} => llama[p].k \in 1 .. 2
       /\ llama[p].pc = "run" => llama[p].k = 3
       /\ llama[p].pc # "fetch" => llama[p].got = {}
       /\ Len(llama[p].how) = llama[p].k - 1
       /\ llama[p].pc = "fetch" => Name(p) \in DOMAIN seg /\ llama[p].got \subseteq seg[Name(p)]
       /\ \A j \in 1 .. llama[p].k - 1 : llama[p].how[j] \in {"fetched", "hit"} => Complete(Segments[j])
  /\ \A s \in DOMAIN seg : Complete(s) \/ s \in left \/ Fetching(s)

LEMMA SegmentNames ==
  /\ Len(Segments) = 2 /\ DOMAIN Segments = 1 .. 2
  /\ Segments[1] # Segments[2]
  BY DEF Segments

\* The record of a process that starts, or that has ended.
LEMMA FreshRecord ==
  ASSUME NEW r \in {FromScratch, Exited}
  PROVE  /\ r \in [pc : {"exited", "get", "create", "fetch", "run"}, k : 1 .. 3,
                    got : SUBSET FileChunks, how : Seq({"fetched", "hit", "early"})]
         /\ r.pc \in {"get", "exited"} /\ r.k = 1 /\ r.got = {} /\ Len(r.how) = 0
         /\ r = Exited => r.pc = "exited"
  <1>1. PICK empty, none : empty = << >> /\ none = {}
    OBVIOUS
  <1>2. none = {} /\ none \in SUBSET FileChunks
    BY <1>1
  <1>2a. empty \in Seq({"fetched", "hit", "early"}) /\ Len(empty) = 0
    BY <1>1
  <1>3. FromScratch = [pc |-> "get", k |-> 1, got |-> none, how |-> empty]
    BY <1>1, Zenon DEF FromScratch
  <1>4. Exited = [pc |-> "exited", k |-> 1, got |-> none, how |-> empty]
    BY <1>3 DEF Exited
  <1>5. CASE r = FromScratch
    <2>1. r = [pc |-> "get", k |-> 1, got |-> none, how |-> empty]
      BY <1>3, <1>5
    <2>2. r.pc = "get" /\ r.k = 1 /\ r.got = {} /\ Len(r.how) = 0
      BY <1>2, <1>2a, <2>1
    <2>3. r # Exited
      BY <1>4, <2>1
    <2> QED
      BY <1>2, <1>2a, <2>1, <2>2, <2>3
  <1>6. CASE r = Exited
    <2>1. r = [pc |-> "exited", k |-> 1, got |-> none, how |-> empty]
      BY <1>4, <1>6
    <2>2. r.pc = "exited" /\ r.k = 1 /\ r.got = {} /\ Len(r.how) = 0
      BY <1>2, <1>2a, <2>1, SMTT(30)
    <2> QED
      BY <1>2, <1>2a, <2>1, <2>2
  <1> QED
    BY <1>5, <1>6

\* What a process does to its own record alone, the segments as they are: the
\* invariant holds if it holds of the new record.
LEMMA OwnStep ==
  ASSUME CacheInv, NEW p \in Procs, NEW r, llama' = [llama EXCEPT ![p] = r], UNCHANGED <<seg>>,
         r \in [pc : {"exited", "get", "create", "fetch", "run"}, k : 1 .. 3,
                got : SUBSET FileChunks, how : Seq({"fetched", "hit", "early"})],
         r.pc \in {"get", "create"} => r.k \in 1 .. 2,
         r.pc # "fetch", r.pc = "run" => r.k = 3, r.got = {},
         Len(r.how) = r.k - 1,
         \A j \in 1 .. r.k - 1 : r.how[j] \in {"fetched", "hit"} => Complete(Segments[j]),
         left \subseteq left',
         llama[p].pc = "fetch" => Complete(Name(p)) \/ Name(p) \in left'
  PROVE  CacheInv'
  <1>1. llama'[p] = r /\ \A q \in Procs : q # p => llama'[q] = llama[q]
    BY DEF CacheInv
  <1>2. llama' \in [Procs -> [pc : {"exited", "get", "create", "fetch", "run"}, k : 1 .. 3,
                              got : SUBSET FileChunks, how : Seq({"fetched", "hit", "early"})]]
    BY DEF CacheInv
  <1>3. \A s : Complete(s)' = Complete(s)
    BY SMTT(30) DEF Complete
  <1>4. ASSUME NEW q \in Procs
        PROVE  /\ llama'[q].pc \in {"get", "create", "fetch"} => llama'[q].k \in 1 .. 2
               /\ llama'[q].pc = "run" => llama'[q].k = 3
               /\ llama'[q].pc # "fetch" => llama'[q].got = {}
               /\ Len(llama'[q].how) = llama'[q].k - 1
               /\ llama'[q].pc = "fetch" => Name(q)' \in DOMAIN seg /\ llama'[q].got \subseteq seg[Name(q)']
               /\ \A j \in 1 .. llama'[q].k - 1 : llama'[q].how[j] \in {"fetched", "hit"} => Complete(Segments[j])'
    <2>1. CASE q = p
      BY <2>1, <1>1, <1>3, SMTT(30)
    <2>2. CASE q # p
      BY <2>2, <1>1, <1>3 DEF CacheInv, Name
    <2> QED
      BY <2>1, <2>2, Zenon
  <1>5. ASSUME NEW s \in DOMAIN seg PROVE Complete(s) \/ s \in left' \/ Fetching(s)'
    <2>1. CASE Fetching(s)
      <3>1. PICK q \in Procs : llama[q].pc = "fetch" /\ Name(q) = s
        BY <2>1 DEF Fetching
      <3>2. CASE q = p
        BY <3>1, <3>2
      <3>3. CASE q # p
        BY <3>1, <3>3, <1>1 DEF Fetching, Name
      <3> QED
        BY <3>2, <3>3
    <2>2. CASE ~Fetching(s)
      BY <2>2, SMTT(30) DEF CacheInv
    <2> QED
      BY <2>1, <2>2
  <1> QED
    BY <1>2, <1>3, <1>4, <1>5, ZenonT(30) DEF CacheInv

\* What a fetch does: the segment of the process grows, and it stays with it.
LEMMA FetchStep ==
  ASSUME CacheInv, NEW p \in Procs, NEW r, llama' = [llama EXCEPT ![p] = r], UNCHANGED left,
         r \in [pc : {"fetch"}, k : 1 .. 2, got : SUBSET FileChunks, how : Seq({"fetched", "hit", "early"})],
         r.k = llama[p].k, r.how = llama[p].how,
         DOMAIN seg' = DOMAIN seg \cup {Name(p)},
         \A s \in DOMAIN seg : seg[s] \subseteq seg'[s],
         \A s \in DOMAIN seg' : seg'[s] \subseteq FileChunks,
         r.got \subseteq seg'[Name(p)]
  PROVE  CacheInv'
  <1>1. llama'[p] = r /\ \A q \in Procs : q # p => llama'[q] = llama[q]
    BY DEF CacheInv
  <1>2. llama' \in [Procs -> [pc : {"exited", "get", "create", "fetch", "run"}, k : 1 .. 3,
                              got : SUBSET FileChunks, how : Seq({"fetched", "hit", "early"})]]
    BY DEF CacheInv
  <1>3. \A s : Complete(s) => Complete(s)'
    BY ZenonT(30) DEF Complete
  <1>4. \A q \in Procs : Name(q)' = Name(q)
    BY <1>1, SMTT(30) DEF Name
  <1>5. ASSUME NEW q \in Procs
        PROVE  /\ llama'[q].pc \in {"get", "create", "fetch"} => llama'[q].k \in 1 .. 2
               /\ llama'[q].pc = "run" => llama'[q].k = 3
               /\ llama'[q].pc # "fetch" => llama'[q].got = {}
               /\ Len(llama'[q].how) = llama'[q].k - 1
               /\ llama'[q].pc = "fetch" => Name(q) \in DOMAIN seg' /\ llama'[q].got \subseteq seg'[Name(q)]
               /\ \A j \in 1 .. llama'[q].k - 1 : llama'[q].how[j] \in {"fetched", "hit"} => Complete(Segments[j])'
    <2>1. CASE q = p
      BY <2>1, <1>1, <1>3, ZenonT(30) DEF CacheInv
    <2>2. CASE q # p
      BY <2>2, <1>1, <1>3 DEF CacheInv
    <2> QED
      BY <2>1, <2>2, SMTT(30)
  <1>6. ASSUME NEW s \in DOMAIN seg' PROVE Complete(s)' \/ s \in left \/ Fetching(s)'
    <2>1. CASE s = Name(p)
      BY <2>1, <1>1, <1>4 DEF Fetching
    <2>2. CASE s # Name(p) /\ Fetching(s)
      BY <2>2, <1>1, <1>4, SMTT(30) DEF Fetching
    <2>3. CASE s # Name(p) /\ ~Fetching(s)
      BY <2>3, <1>3 DEF CacheInv
    <2> QED
      BY <2>1, <2>2, <2>3
  <1> QED
    BY <1>2, <1>4, <1>5, <1>6, ZenonT(30) DEF CacheInv

LEMMA CacheStep == CacheInv /\ [CacheNext]_cacheVars => CacheInv'
  <1> SUFFICES ASSUME CacheInv, [CacheNext]_cacheVars PROVE CacheInv'
    OBVIOUS
  <1> DEFINE Rec == [pc : {"exited", "get", "create", "fetch", "run"}, k : 1 .. 3,
                     got : SUBSET FileChunks, how : Seq({"fetched", "hit", "early"})]
  <1>0. ASSUME NEW p \in Procs, NEW r \in {FromScratch, Exited}, llama' = [llama EXCEPT ![p] = r],
               UNCHANGED seg, left \subseteq left', llama[p].pc = "fetch" => Name(p) \in left'
        PROVE  CacheInv'
    <2>1. r \in Rec /\ r.pc \in {"get", "exited"} /\ r.k = 1 /\ r.got = {} /\ Len(r.how) = 0
      BY FreshRecord
    <2>2. 1 .. r.k - 1 = {} /\ Len(r.how) = r.k - 1
      BY <2>1
    <2>3. (r.pc \in {"get", "create"} => r.k \in 1 .. 2) /\ r.pc # "fetch" /\ (r.pc = "run" => r.k = 3)
      BY <2>1
    <2>4. \A j \in 1 .. r.k - 1 : r.how[j] \in {"fetched", "hit"} => Complete(Segments[j])
      BY <2>2, Zenon
    <2>5. UNCHANGED <<seg>> /\ (llama[p].pc = "fetch" => Complete(Name(p)) \/ Name(p) \in left')
      BY <1>0
    <2> QED
      BY <1>0, <2>1, <2>2, <2>3, <2>4, <2>5, OwnStep, ZenonT(30)
  <1>1. ASSUME NEW p \in Procs, Run(p) PROVE CacheInv'
    <2>2. llama' = [llama EXCEPT ![p] = FromScratch] /\ UNCHANGED <<seg, left>> /\ llama[p].pc = "exited"
      BY <1>1 DEF Run
    <2> QED
      BY <2>2, <1>0, Zenon
  <1>2. ASSUME NEW p \in Procs, Exit(p), UNCHANGED seg, left \subseteq left',
               llama[p].pc = "fetch" => Name(p) \in left'
        PROVE  CacheInv'
    BY <1>0, <1>2, Zenon DEF Exit
  <1>3. ASSUME NEW p \in Procs, NEW how \in {"fetched", "hit", "early"}, Got(p, how), UNCHANGED <<seg, left>>,
               llama[p].k \in 1 .. 2, how # "early" => Complete(Name(p)),
               llama[p].pc = "fetch" => Complete(Name(p))
        PROVE  CacheInv'
    <2> DEFINE r == [pc |-> IF llama[p].k < Len(Segments) THEN "get" ELSE "run",
                     k |-> llama[p].k + 1, got |-> {}, how |-> Append(llama[p].how, how)]
    <2>1. llama[p] \in Rec /\ Len(llama[p].how) = llama[p].k - 1
      BY DEF CacheInv
    <2>2. llama' = [llama EXCEPT ![p] = r]
      BY <1>3, SMTT(30) DEF Got
    <2>3. /\ r \in Rec /\ r.pc # "fetch" /\ r.pc # "create" /\ (r.pc = "get" => r.k \in 1 .. 2) /\ (r.pc = "run" => r.k = 3)
          /\ r.k = llama[p].k + 1 /\ r.got = {} /\ r.how = Append(llama[p].how, how) /\ Len(r.how) = r.k - 1
      BY <1>3, <2>1, SegmentNames
    <2>4. ASSUME NEW j \in 1 .. r.k - 1, r.how[j] \in {"fetched", "hit"} PROVE Complete(Segments[j])
      <3>1. CASE j = llama[p].k
        <4>1. r.how[j] = how
          BY <3>1, <2>1, SMTT(30)
        <4> QED
          BY <1>3, <2>4, <3>1, <4>1, Zenon DEF Name
      <3>2. CASE j # llama[p].k
        <4>1. j \in 1 .. llama[p].k - 1
          BY <3>2, <1>3, <2>3, SMTT(30)
        <4>2. r.how[j] = llama[p].how[j]
          <5>1. r.how = Append(llama[p].how, how) /\ llama[p].how \in Seq({"fetched", "hit", "early"})
            BY <2>1, <2>3, Zenon
          <5>2. PICK old \in Seq({"fetched", "hit", "early"}) : old = llama[p].how
            BY <5>1
          <5>3. Len(old) = llama[p].k - 1 /\ r.how = Append(old, how)
            BY <2>1, <5>1, <5>2, Zenon
          <5> HIDE DEF r
          <5>4. Append(old, how)[j] = old[j]
            BY <4>1, <5>3
          <5> QED
            BY <5>2, <5>3, <5>4, Zenon
        <4> QED
          BY <4>1, <4>2, <2>4, SMTT(30) DEF CacheInv
      <3> QED
        BY <3>1, <3>2
    <2> HIDE DEF r
    <2> QED
      BY <1>3, <2>2, <2>3, <2>4, OwnStep, ZenonT(30)
  <1>4. ASSUME NEW p \in Procs, Hit(p) PROVE CacheInv'
    <2>1. CASE Exit(p)
      BY <1>2, <1>4, <2>1 DEF Hit
    <2>2. CASE Got(p, IF Name(p) \in left \/ Fetching(Name(p)) THEN "early" ELSE "hit")
      <3> DEFINE how == IF Name(p) \in left \/ Fetching(Name(p)) THEN "early" ELSE "hit"
      <3>1. llama[p].pc = "get" /\ Name(p) \in DOMAIN seg /\ llama[p].k \in 1 .. 2 /\ UNCHANGED <<seg, left>>
        BY <1>4, SMTT(30) DEF Hit, CacheInv
      <3>2. how # "early" => Complete(Name(p))
        BY <3>1 DEF CacheInv
      <3>3. how \in {"fetched", "hit", "early"} /\ Got(p, how)
        BY <2>2
      <3> HIDE DEF how
      <3> QED
        BY <3>1, <3>2, <3>3, <1>3, SMTT(30)
    <2> QED
      BY <1>4, <2>1, <2>2 DEF Hit
  <1>5. ASSUME NEW p \in Procs, Miss(p) PROVE CacheInv'
    <2> DEFINE r == [llama[p] EXCEPT !.pc = "create"]
    <2>1. llama[p] \in Rec
      BY DEF CacheInv
    <2>2. r \in Rec /\ r.pc = "create" /\ r.k = llama[p].k /\ r.got = llama[p].got /\ r.how = llama[p].how
      BY <2>1
    <2>3. llama' = [llama EXCEPT ![p] = r] /\ UNCHANGED <<seg, left>> /\ llama[p].pc = "get"
      BY <1>5 DEF Miss
    <2> HIDE DEF r
    <2>4. llama[p].k \in 1 .. 2 /\ r.got = {} /\ Len(r.how) = r.k - 1
      BY <2>2, <2>3 DEF CacheInv
    <2>5. \A j \in 1 .. r.k - 1 : r.how[j] \in {"fetched", "hit"} => Complete(Segments[j])
      BY <2>2 DEF CacheInv
    <2> QED
      BY <2>2, <2>3, <2>4, <2>5, OwnStep, Zenon
  <1>6. ASSUME NEW p \in Procs, Create(p), ~Exit(p) PROVE CacheInv'
    <2> DEFINE r == [llama[p] EXCEPT !.pc = "fetch"]
    <2>1. llama[p] \in Rec
      BY DEF CacheInv
    <2>2. /\ llama' = [llama EXCEPT ![p] = r] /\ UNCHANGED left /\ llama[p].pc = "create"
          /\ seg' = [s \in DOMAIN seg \cup {Name(p)} |-> IF s \in DOMAIN seg THEN seg[s] ELSE {}]
      BY <1>6 DEF Create
    <2>3. llama[p].k \in 1 .. 2
      BY <2>2 DEF CacheInv
    <2>4. r \in [pc : {"fetch"}, k : 1 .. 2, got : SUBSET FileChunks, how : Seq({"fetched", "hit", "early"})]
      BY <2>1, <2>3
    <2>5. r.k = llama[p].k /\ r.how = llama[p].how /\ r.got = {}
      BY <2>1, <2>2 DEF CacheInv
    <2>6. /\ DOMAIN seg' = DOMAIN seg \cup {Name(p)}
          /\ \A s \in DOMAIN seg : seg[s] \subseteq seg'[s]
          /\ \A s \in DOMAIN seg' : seg'[s] \subseteq FileChunks
      BY <2>2 DEF CacheInv
    <2> HIDE DEF r
    <2> QED
      BY <2>2, <2>4, <2>5, <2>6, FetchStep, Zenon
  <1>7. ASSUME NEW p \in Procs, NEW c \in FileChunks, ChunkArrives(p, c) PROVE CacheInv'
    <2> DEFINE r == [llama[p] EXCEPT !.got = @ \cup {c}]
    <2>1. llama[p] \in Rec
      BY DEF CacheInv
    <2>2. /\ llama' = [llama EXCEPT ![p] = r] /\ UNCHANGED left /\ llama[p].pc = "fetch"
          /\ seg' = [seg EXCEPT ![Name(p)] = @ \cup {c}]
      BY <1>7 DEF ChunkArrives
    <2>3. llama[p].k \in 1 .. 2 /\ Name(p) \in DOMAIN seg /\ llama[p].got \subseteq seg[Name(p)]
      BY <2>2 DEF CacheInv
    <2>4. r \in [pc : {"fetch"}, k : 1 .. 2, got : SUBSET FileChunks, how : Seq({"fetched", "hit", "early"})]
      BY <2>1, <2>2, <2>3
    <2>5. r.k = llama[p].k /\ r.how = llama[p].how /\ r.got = llama[p].got \cup {c}
      BY <2>1
    <2>6. /\ DOMAIN seg' = DOMAIN seg \cup {Name(p)}
          /\ \A s \in DOMAIN seg : seg[s] \subseteq seg'[s]
          /\ \A s \in DOMAIN seg' : seg'[s] \subseteq FileChunks
          /\ seg'[Name(p)] = seg[Name(p)] \cup {c}
      BY <2>2, <2>3, Zenon DEF CacheInv
    <2> HIDE DEF r
    <2> QED
      BY <2>2, <2>3, <2>4, <2>5, <2>6, FetchStep, ZenonT(30)
  <1>8. ASSUME NEW p \in Procs, FetchDone(p) PROVE CacheInv'
    <2>1. llama[p].pc = "fetch" /\ llama[p].got = FileChunks /\ Got(p, "fetched") /\ UNCHANGED <<seg, left>>
      BY <1>8 DEF FetchDone
    <2>2. llama[p].k \in 1 .. 2 /\ Complete(Name(p))
      BY <2>1, ZenonT(30) DEF CacheInv, Complete
    <2> QED
      BY <2>1, <2>2, <1>3
  <1>9. ASSUME NEW p \in Procs, GiveUp(p) PROVE CacheInv'
    BY <1>2, <1>9 DEF GiveUp
  <1>10. ASSUME NEW p \in Procs, Done(p) PROVE CacheInv'
    BY <1>2, <1>10 DEF Done
  <1>11. ASSUME NEW p \in Procs, Create(p), Exit(p) PROVE CacheInv'
    <2>1. llama[p].pc = "create" /\ UNCHANGED left
      BY <1>11 DEF Create
    <2>2. CASE UNCHANGED seg
      BY <1>2, <1>11, <2>1, <2>2
    <2>3. CASE llama' = [llama EXCEPT ![p].pc = "fetch"]
      <3>1. llama'[p].pc = "fetch" /\ llama'[p] = Exited
        BY <1>11, <2>3 DEF CacheInv, Exit
      <3> QED
        BY <3>1 DEF Exited, FromScratch
    <2> QED
      BY <1>11, <2>2, <2>3 DEF Create
  <1>12. CASE UNCHANGED cacheVars
    BY <1>12 DEF cacheVars, CacheInv, Complete, Fetching, Name
  <1> QED
    BY <1>1, <1>4, <1>5, <1>6, <1>7, <1>8, <1>9, <1>10, <1>11, <1>12 DEF CacheNext

\* llama.c:93-95, for any number of processes, chunks and starts: a model that a
\* process runs is whole when it fetched it itself, also into a segment that
\* another fills at the same time, and when it found it at rest.
THEOREM ModelsWhole == CacheSpec => []ModelWhole
  <1>1. CacheInit => CacheInv
    <2> SUFFICES ASSUME CacheInit PROVE CacheInv
      OBVIOUS
    <2>1. llama = [p \in Procs |-> Exited] /\ Exited \in {FromScratch, Exited}
      BY DEF CacheInit
    <2>2. \A p \in Procs : llama[p] = Exited
      BY <2>1, Zenon
    <2>3. llama \in [Procs -> [pc : {"exited", "get", "create", "fetch", "run"}, k : 1 .. 3,
                               got : SUBSET FileChunks, how : Seq({"fetched", "hit", "early"})]]
      BY <2>1, FreshRecord
    <2>4. DOMAIN seg = {}
      BY SMTT(30) DEF CacheInit
    <2> QED
      BY <2>1, <2>2, <2>3, <2>4, FreshRecord DEF CacheInv
  <1>2. CacheInv => ModelWhole
    BY SegmentNames DEF CacheInv, ModelWhole
  <1> QED
    BY <1>1, <1>2, CacheStep, PTL DEF CacheSpec

-----------------------------------------------------------------------------
(* RpcSend: the send buffer.                                               *)

Busy == {"load", "store", "lock", "encode"}

Inside(t) == spc[t] \in {"encode", "unlock"}

\* The lock is held while a thread is between mutex_lock and mutex_unlock, and
\* one thread is.
Exclusive ==
  /\ \A t \in Senders : Inside(t) => g_tx_lock = 1
  /\ \A t, u \in Senders : Inside(t) /\ Inside(u) => t = u

\* The words the encoding thread has written are still its own.
OwnWords ==
  /\ \A t \in Senders : spc[t] \in Busy => msg[t] \in Messages
  /\ \A t \in Senders : spc[t] = "encode" =>
       encoded[t] <= msg[t] /\ \A j \in 1 .. encoded[t] : g_tx_wire[j] = <<t, msg[t]>>

SendInv == SendTypeInv /\ Exclusive /\ OwnWords /\ sent \in Seq(WholeDatagrams)

\* A whole datagram names its message in its first word.
LEMMA FirstWord ==
  ASSUME NEW t \in Senders, NEW m \in Messages
  PROVE  /\ [j \in 1 .. m |-> <<t, m>>] \in WholeDatagrams
         /\ Whole([j \in 1 .. m |-> <<t, m>>])
         /\ [j \in 1 .. m |-> <<t, m>>][1] = <<t, m>>
<1>1. 1 \in 1 .. m
  BY WireAssumption DEF Messages
<1> QED
  BY <1>1 DEF WholeDatagrams, Whole

LEMMA SendInitInv == SendInit => SendInv
<1> SUFFICES ASSUME SendInit PROVE SendInv
  OBVIOUS
<1>1. SendTypeInv
  BY WireAssumption DEF SendInit, SendTypeInv, Messages, Locations
<1>2. Exclusive /\ OwnWords
  BY DEF SendInit, Exclusive, OwnWords, Inside, Busy
<1>3. sent \in Seq(WholeDatagrams)
  BY DEF SendInit
<1> QED
  BY <1>1, <1>2, <1>3 DEF SendInv

\* Every step of a sending thread preserves the invariant (rpc.c:401-445).
LEMMA StepIInv == SendInv /\ [SendNext]_sendVars => SendInv'
<1> SUFFICES ASSUME SendInv, [SendNext]_sendVars PROVE SendInv'
  OBVIOUS
<1> SendTypeInv /\ Exclusive /\ OwnWords
  BY DEF SendInv
<1>1. ASSUME NEW t \in Senders, NEW m \in Messages, NEW loc \in {"load", "lock"}, Begin(t, m, loc)
      PROVE  SendInv'
  <2>1. SendTypeInv'
    BY <1>1, WireAssumption DEF Begin, Goto, SendTypeInv, wireVars, xidVars, Locations
  <2>2. Exclusive' /\ OwnWords'
    BY <1>1 DEF Begin, Goto, SendTypeInv, Exclusive, OwnWords, Inside, Busy, wireVars, xidVars
  <2> QED
    BY <1>1, <2>1, <2>2 DEF SendInv, Begin, wireVars
<1>2. ASSUME NEW t \in Senders, LoadXid(t) \/ StoreXid(t)
      PROVE  SendInv'
  <2>1. SendTypeInv'
    <3>1. CASE LoadXid(t)
      BY <3>1 DEF LoadXid, Goto, SendTypeInv, wireVars, Locations
    <3>2. CASE StoreXid(t)
      BY <3>2 DEF StoreXid, Goto, SendTypeInv, wireVars, Locations
    <3> QED
      BY <1>2, <3>1, <3>2
  <2>2. Exclusive' /\ OwnWords'
    BY <1>2, ZenonT(30) DEF LoadXid, StoreXid, Goto, SendTypeInv, Exclusive, OwnWords, Inside, Busy, wireVars
  <2> QED
    BY <1>2, <2>1, <2>2 DEF SendInv, LoadXid, StoreXid, wireVars
<1>3. ASSUME NEW t \in Senders, Acquire(t)
      PROVE  SendInv'
  <2>1. SendTypeInv'
    BY <1>3, WireAssumption DEF Acquire, Goto, SendTypeInv, xidVars, Locations
  <2>2. Exclusive'
    BY <1>3 DEF Acquire, Goto, SendTypeInv, Exclusive, Inside
  <2>3. OwnWords'
    BY <1>3, WireAssumption, SMTT(30) DEF Acquire, Goto, SendTypeInv, OwnWords, Busy, Messages
  <2> QED
    BY <1>3, <2>1, <2>2, <2>3 DEF SendInv, Acquire
<1>4. ASSUME NEW t \in Senders, EncodeWord(t)
      PROVE  SendInv'
  <2>0. encoded[t] \in Nat /\ encoded[t] + 1 \in Messages /\ msg[t] \in Messages
    BY <1>4, WireAssumption DEF EncodeWord, SendTypeInv, OwnWords, Messages, Busy
  <2>1. SendTypeInv'
    BY <1>4, <2>0, WireAssumption, SMTT(30) DEF EncodeWord, SendTypeInv, xidVars, Locations, Messages
  <2>2. Exclusive'
    BY <1>4 DEF EncodeWord, Exclusive, Inside
  <2>3. \A u \in Senders : spc[u] = "encode" => u = t
    BY <1>4 DEF EncodeWord, Exclusive, Inside
  <2>4. encoded'[t] = encoded[t] + 1 /\ msg' = msg /\ spc' = spc
    BY <1>4 DEF EncodeWord, SendTypeInv
  <2>5. encoded'[t] <= msg'[t]
    <3>1. encoded[t] < msg[t]
      BY <1>4, Zenon DEF EncodeWord
    <3>2. msg[t] \in Nat
      BY <2>0, WireAssumption DEF Messages
    <3> QED
      BY <2>0, <2>4, <3>1, <3>2
  <2>6. ASSUME NEW j \in 1 .. encoded'[t]
        PROVE  g_tx_wire'[j] = <<t, msg'[t]>>
    <3>1. CASE j = encoded[t] + 1
      BY <1>4, <2>0, <2>4, <3>1 DEF EncodeWord, SendTypeInv
    <3>2. CASE j # encoded[t] + 1
      <4>1. j \in 1 .. encoded[t] /\ j \in Messages
        BY <2>0, <2>4, <3>2, WireAssumption DEF Messages
      <4> QED
        BY <1>4, <2>4, <3>2, <4>1, SMTT(30) DEF EncodeWord, SendTypeInv, OwnWords
    <3> QED
      BY <3>1, <3>2
  <2>7. OwnWords'
    BY <2>3, <2>4, <2>5, <2>6, ZenonT(30) DEF OwnWords
  <2> QED
    BY <1>4, <2>1, <2>2, <2>7, SMTT(30) DEF SendInv, EncodeWord
<1>5. ASSUME NEW t \in Senders, EncodeFails(t) \/ SendFails(t)
      PROVE  SendInv'
  <2>1. SendTypeInv'
    BY <1>5, Zenon DEF EncodeFails, SendFails, Goto, SendTypeInv, wireVars, xidVars, Locations
  <2>2. Exclusive' /\ OwnWords'
    BY <1>5, Zenon DEF EncodeFails, SendFails, Goto, SendTypeInv, Exclusive, OwnWords, Inside, Busy, wireVars
  <2> QED
    BY <1>5, <2>1, <2>2, SMTT(30) DEF SendInv, EncodeFails, SendFails, wireVars
<1>6. ASSUME NEW t \in Senders, Send(t)
      PROVE  SendInv'
  <2>1. SendTypeInv'
    BY <1>6 DEF Send, Goto, SendTypeInv, xidVars, Locations
  <2>2. Exclusive' /\ OwnWords'
    BY <1>6 DEF Send, Goto, SendTypeInv, Exclusive, OwnWords, Inside, Busy
  <2>3. msg[t] \in Messages /\ \A j \in 1 .. encoded[t] : g_tx_wire[j] = <<t, msg[t]>>
    BY <1>6, SMTT(30) DEF Send, OwnWords, Busy
  <2>4. [j \in 1 .. encoded[t] |-> g_tx_wire[j]] = [j \in 1 .. msg[t] |-> <<t, msg[t]>>]
    BY <1>6, <2>3 DEF Send
  <2>5. [j \in 1 .. encoded[t] |-> g_tx_wire[j]] \in WholeDatagrams
    BY <2>3, <2>4, FirstWord, Zenon
  <2>6. sent' \in Seq(WholeDatagrams)
    <3> DEFINE d == [j \in 1 .. encoded[t] |-> g_tx_wire[j]]
    <3>1. sent \in Seq(WholeDatagrams) /\ sent' = Append(sent, d) /\ d \in WholeDatagrams
      BY <1>6, <2>5, Zenon DEF Send, SendInv
    <3> HIDE DEF d
    <3> QED
      BY <3>1
  <2> QED
    BY <2>1, <2>2, <2>6 DEF SendInv
<1>7. ASSUME NEW t \in Senders, Release(t)
      PROVE  SendInv'
  <2>1. SendTypeInv'
    BY <1>7 DEF Release, Goto, SendTypeInv, xidVars, Locations
  <2>2. Exclusive' /\ OwnWords'
    BY <1>7, SMTT(30) DEF Release, Goto, SendTypeInv, Exclusive, OwnWords, Inside, Busy
  <2> QED
    BY <1>7, <2>1, <2>2 DEF SendInv, Release
<1>8. CASE UNCHANGED sendVars
  BY <1>8 DEF SendInv, sendVars, SendTypeInv, Exclusive, OwnWords, Inside
<1> QED
  BY <1>1, <1>2, <1>3, <1>4, <1>5, <1>6, <1>7, <1>8 DEF SendNext, Sender, Critical

\* The lock excludes and the buffer holds the encoder's own words, always
\* (mutex.c:36-54, rpc.c:401-445).
THEOREM SendInvariant == SendSpec => []SendInv
<1> QED
  BY SendInitInv, StepIInv, PTL DEF SendSpec

\* Whichever threads send at once, every datagram is one whole message
\* (rpc.c:401-445).
THEOREM DatagramsWhole == SendSpec => []SentWhole
<1>1. SendInv => SentWhole
  <2> SUFFICES ASSUME SendInv, NEW j \in 1 .. Len(sent) PROVE Whole(sent[j])
    BY SMTT(30) DEF SentWhole
  <2> QED
    BY DEF SendInv, Whole
<1> QED
  BY <1>1, SendInvariant, PTL

\* A step of a thread that sends nothing changes nothing the abstract
\* specification sees but what the thread wants.
LEMMA SameLog == ASSUME sent' = sent PROVE Logged' = Logged
  BY SMTT(30) DEF Logged, Whole

\* Each step of the threads is a step of atomic sending or none (rpc.c:401-445).
LEMMA StepRefines == SendInv /\ SendInv' /\ [SendNext]_sendVars => [Abstract!ANext]_(Abstract!avars)
<1> SUFFICES ASSUME SendInv, SendInv', [SendNext]_sendVars
             PROVE  Abstract!ANext \/ UNCHANGED Abstract!avars
  OBVIOUS
<1> SendTypeInv /\ Exclusive /\ OwnWords
  BY DEF SendInv
<1>1. ASSUME NEW t \in Senders, NEW m \in Messages, NEW loc \in {"load", "lock"}, Begin(t, m, loc)
      PROVE  Abstract!ANext
  <2>1. Wanted[t] = 0 /\ Wanted' = [Wanted EXCEPT ![t] = m]
    BY <1>1, Zenon DEF Begin, Goto, SendTypeInv, Wanted
  <2>2. Logged' = Logged
    BY <1>1, SameLog DEF Begin, wireVars
  <2> QED
    BY <2>1, <2>2, Zenon DEF Abstract!ANext, Abstract!Ask
<1>2. ASSUME NEW t \in Senders,
             LoadXid(t) \/ StoreXid(t) \/ Acquire(t) \/ EncodeWord(t) \/ Release(t)
      PROVE  UNCHANGED Abstract!avars
  <2>1. Wanted' = Wanted
    BY <1>2, ZenonT(30) DEF LoadXid, StoreXid, Acquire, EncodeWord, Release, Goto, SendTypeInv, Wanted
  <2>2. Logged' = Logged
    BY <1>2, SameLog, SMTT(30) DEF LoadXid, StoreXid, Acquire, EncodeWord, Release, wireVars
  <2> QED
    BY <2>1, <2>2 DEF Abstract!avars
<1>3. ASSUME NEW t \in Senders, EncodeFails(t) \/ SendFails(t)
      PROVE  Abstract!ANext
  <2>1. msg[t] \in Messages
    BY <1>3, SMTT(30) DEF EncodeFails, SendFails, OwnWords, Busy
  <2>0. msg[t] # 0
    BY <2>1, WireAssumption DEF Messages
  <2>2. Wanted[t] # 0 /\ Wanted' = [Wanted EXCEPT ![t] = 0]
    BY <1>3, <2>0, ZenonT(30) DEF EncodeFails, SendFails, Goto, SendTypeInv, Wanted, wireVars
  <2>3. Logged' = Logged
    BY <1>3, SameLog DEF EncodeFails, SendFails, wireVars
  <2> QED
    BY <2>2, <2>3, ZenonT(30) DEF Abstract!ANext, Abstract!Drop
<1>4. ASSUME NEW t \in Senders, Send(t)
      PROVE  Abstract!ANext
  <2>1. msg[t] \in Messages /\ \A j \in 1 .. encoded[t] : g_tx_wire[j] = <<t, msg[t]>>
    BY <1>4, Zenon DEF Send, OwnWords, Busy
  <2>0. msg[t] # 0
    BY <2>1, WireAssumption DEF Messages
  <2>2. Wanted[t] = msg[t] /\ Wanted[t] # 0 /\ Wanted' = [Wanted EXCEPT ![t] = 0]
    BY <1>4, <2>0, Zenon DEF Send, Goto, SendTypeInv, Wanted
  <2> DEFINE d == [j \in 1 .. msg[t] |-> <<t, msg[t]>>]
  <2>3. [j \in 1 .. encoded[t] |-> g_tx_wire[j]] = d
    BY <1>4, <2>1, SMTT(30) DEF Send
  <2>4. Whole(d) /\ d[1] = <<t, msg[t]>>
    BY <2>1, FirstWord
  <2>5. sent' = Append(sent, d)
    BY <1>4, <2>3, Zenon DEF Send
  <2> HIDE DEF d
  <2>6. /\ Len(sent') = Len(sent) + 1 /\ Len(sent) \in Nat
        /\ sent'[Len(sent) + 1] = d
        /\ \A j \in 1 .. Len(sent) : sent'[j] = sent[j]
    BY <2>5 DEF SendInv
  <2> DEFINE V(e) == IF Whole(e) THEN e[1] ELSE << >>
  <2>7. /\ Logged = [j \in 1 .. Len(sent) |-> V(sent[j])]
        /\ Logged' = [j \in 1 .. Len(sent) + 1 |-> V(sent'[j])]
    BY <2>6 DEF Logged, Whole
  <2>8. V(d) = <<t, Wanted[t]>>
    BY <2>2, <2>4
  <2> HIDE DEF V
  <2>9. Logged' = Append(Logged, <<t, Wanted[t]>>)
    BY <2>6, <2>7, <2>8, SMTT(30)
  <2> QED
    BY <2>2, <2>9, Zenon DEF Abstract!ANext, Abstract!Deliver
<1>5. CASE UNCHANGED sendVars
  BY <1>5, SameLog, SMTT(30) DEF sendVars, Abstract!avars, Wanted
<1> QED
  BY <1>1, <1>2, <1>3, <1>4, <1>5 DEF SendNext, Sender, Critical

\* Sending through g_tx_wire under g_tx_lock implements atomic sending
\* (rpc.c:401-445).
THEOREM SendsAreAtomic == SendSpec => SendsAtomically
<1>1. SendInit => Abstract!AInit
  BY DEF SendInit, Abstract!AInit, Wanted, Logged
<1> QED
  BY <1>1, StepRefines, SendInvariant, PTL DEF SendSpec, SendsAtomically, Abstract!ASpec

-----------------------------------------------------------------------------
(* The transfer of a window.                                               *)

\* The client compares neither DATA nor META_RESP with the file it asks for.  Once
\* one that exists was asked for, only that one is asked for on this port.
OneFileAsked ==
  \A t, u \in 1 .. Len(Transfers) :
    t < u /\ Transfers[t][2] \in DOMAIN Sizes => Transfers[u][2] = Transfers[t][2]

-----------------------------------------------------------------------------
(* The inductive invariant.                                                *)

File == Transfers[turn][2]

Asked(f) == \E t \in 1 .. turn : Transfers[t][2] = f

\* Requests are for the files asked for so far; answers are true of their file.
PacketOk(p) ==
  /\ p.type \in {"meta_req", "range_req", "retrans_req", "meta_resp", "data", "error"}
  /\ p.type # "error" => Asked(p.file)
  /\ p.type \in {"meta_resp", "data"} => p.file \in DOMAIN Sizes
  /\ p.type = "meta_resp" => p.size = Sizes[p.file]
  /\ p.type = "data" => p.idx \in Int /\ p.len = Least(CHUNK_SIZE, Sizes[p.file] - p.idx * CHUNK_SIZE)

\* The window lies in the file, and the chunks marked as received are in place.
Filling ==
  /\ File \in DOMAIN Sizes /\ file.size = Sizes[File]
  /\ off + len <= Sizes[File]
  /\ buf = [j \in 0 .. len - 1 |-> buf[j]]
  /\ \A j \in 0 .. len - 1 : (off + j) \div CHUNK_SIZE \in got => buf[j] = <<File, off + j>>

TransferInv ==
  /\ pc \in {"probe", "meta", "range", "round", "retrans", "ok", "failed", "end"}
  /\ turn \in 1 .. Len(Transfers)
  /\ off \in Nat /\ len \in Int
  /\ \A p \in net : PacketOk(p)
  /\ pc \in {"range", "round", "retrans"} => Filling
  /\ WindowIntact

-----------------------------------------------------------------------------
(* Chunks and offsets.                                                     *)

LEMMA Product ==
  ASSUME NEW a \in Int, NEW b \in Int, NEW c \in Nat \ {0}
  PROVE  /\ a * c \in Int /\ b * c \in Int
         /\ a * c < b * c + c => a <= b
         /\ a * c < b * c => a < b
<1>1. a * c \in Int /\ b * c \in Int
  OBVIOUS
<1>2. a > b => a * c >= b * c + c
  <2> SUFFICES ASSUME a > b PROVE a * c >= b * c + c
    OBVIOUS
  <2> DEFINE d == a - b - 1
  <2>1. d \in Nat /\ a = b + 1 + d
    OBVIOUS
  <2> HIDE DEF d
  <2>2. a * c = b * c + c + d * c /\ d * c \in Nat
    BY <2>1
  <2> QED BY <1>1, <2>2
<1>3. a >= b => a * c >= b * c
  <2> SUFFICES ASSUME a >= b PROVE a * c >= b * c
    OBVIOUS
  <2> DEFINE d == a - b
  <2>1. d \in Nat /\ a = b + d
    OBVIOUS
  <2> HIDE DEF d
  <2>2. a * c = b * c + d * c /\ d * c \in Nat
    BY <2>1
  <2> QED BY <1>1, <2>2
<1> QED BY <1>1, <1>2, <1>3

LEMMA ChunkOf ==
  ASSUME NEW x \in Nat
  PROVE  /\ x \div CHUNK_SIZE \in Nat
         /\ (x \div CHUNK_SIZE) * CHUNK_SIZE \in Nat
         /\ (x \div CHUNK_SIZE) * CHUNK_SIZE <= x
         /\ x < (x \div CHUNK_SIZE) * CHUNK_SIZE + CHUNK_SIZE
<1> DEFINE c == CHUNK_SIZE
           q == x \div c
<1>1. c \in Nat \ {0}
  BY ChunkAssumption
<1>2. q \in Nat /\ x % c \in 0 .. c - 1 /\ x = c * q + (x % c)
  BY <1>1
<1>3. c * q = q * c /\ q * c \in Nat
  BY <1>1, <1>2
<1> QED BY <1>1, <1>2, <1>3

\* Every byte of the window is in one of the window's chunks.
LEMMA WindowChunks ==
  ASSUME off \in Nat, len \in Int, NEW j \in 0 .. len - 1
  PROVE  (off + j) \div CHUNK_SIZE \in Chunks
<1> DEFINE c == CHUNK_SIZE
           x == off + j
           y == off + len + c - 1
           q == x \div c
           a == off \div c
           b == y \div c
<1>1. c \in Nat \ {0} /\ x \in Nat /\ y \in Nat /\ off <= x /\ x + c <= y
  BY ChunkAssumption
<1>2. q \in Nat /\ q * c \in Nat /\ q * c <= x /\ x < q * c + c
  BY <1>1, ChunkOf
<1>3. a \in Nat /\ a * c \in Nat /\ a * c <= off
  BY <1>1, ChunkOf
<1>4. b \in Nat /\ b * c \in Nat /\ y < b * c + c
  BY <1>1, ChunkOf
<1>5. EndChunk = b /\ FirstChunk = a
  BY DEF EndChunk, FirstChunk, CeilDiv
<1> HIDE DEF c, x, y, q, a, b
<1>6. a * c < q * c + c /\ q * c < b * c
  BY <1>1, <1>2, <1>3, <1>4
<1>7. a <= q /\ q < b
  BY <1>1, <1>2, <1>3, <1>4, <1>6, Product
<1>8. q \in FirstChunk .. EndChunk - 1
  BY <1>2, <1>3, <1>4, <1>5, <1>7
<1> QED BY <1>8 DEF Chunks, q, x, c

-----------------------------------------------------------------------------
(* The file a packet is about is the file of the transfer that runs.       *)

LEMMA AskedIsFile ==
  ASSUME OneFileAsked, turn \in 1 .. Len(Transfers), NEW f, Asked(f), f \in DOMAIN Sizes
  PROVE  f = File
<1>1. PICK t \in 1 .. turn : Transfers[t][2] = f
  BY DEF Asked
<1>2. t \in 1 .. Len(Transfers) /\ (t < turn \/ t = turn)
  BY <1>1, TransfersAssumption
<1> QED BY <1>1, <1>2 DEF OneFileAsked, File

\* process_data_packet puts the chunk's part of the window in place.
LEMMA CopiedInPlace ==
  ASSUME OneFileAsked, TransferInv, Filling, NEW p, PacketOk(p), Accepted(p)
  PROVE  /\ Copied(p) = [j \in 0 .. len - 1 |-> Copied(p)[j]]
         /\ \A j \in 0 .. len - 1 :
              (off + j) \div CHUNK_SIZE \in got \cup {p.idx} => Copied(p)[j] = <<File, off + j>>
<1> DEFINE c == CHUNK_SIZE
           lo == p.idx * c
           from == Most(lo, off)
           to == Least(lo + p.len, off + len)
<1>1. /\ c \in Nat \ {0} /\ off \in Nat /\ len \in Int /\ p.idx \in Int /\ lo \in Int
      /\ off + len <= Sizes[File] /\ Sizes[File] \in Nat
  BY ChunkAssumption, SizesAssumption, SMTT(30) DEF TransferInv, Filling, Accepted, PacketOk
<1>2. p.file = File /\ p.len = Least(c, Sizes[File] - lo)
  BY AskedIsFile, SMTT(30) DEF TransferInv, Accepted, PacketOk
<1>3. p.len \in Int /\ (lo + p.len >= off + len \/ p.len = c)
  <2> HIDE DEF lo, c
  <2>1. p.len = c \/ p.len = Sizes[File] - lo
    BY <1>2, Zenon DEF Least
  <2>2. CASE p.len = c
    BY <1>1, <2>2
  <2>3. CASE p.len = Sizes[File] - lo
    BY <1>1, <2>3
  <2> QED BY <2>1, <2>2, <2>3, Zenon
<1>4. DOMAIN buf = 0 .. len - 1
  BY DEF Filling
<1>5. Copied(p) = [j \in 0 .. len - 1 |-> IF j + off \in from .. to - 1 THEN <<p.file, j + off>> ELSE buf[j]]
  BY <1>4, Zenon DEF Copied
<1>6. ASSUME NEW j \in 0 .. len - 1
      PROVE  /\ Copied(p)[j] = IF j + off \in from .. to - 1 THEN <<File, off + j>> ELSE buf[j]
             /\ (off + j) \div c = p.idx => j + off \in from .. to - 1
  <2>1. j + off = off + j /\ off + j \in Nat
    BY <1>1
  <2>2. Copied(p)[j] = IF j + off \in from .. to - 1 THEN <<File, off + j>> ELSE buf[j]
    BY <1>2, <1>5, <2>1
  <2>3. ASSUME (off + j) \div c = p.idx
        PROVE  j + off \in from .. to - 1
    <3>1. lo <= off + j /\ off + j < lo + c
      BY <2>1, <2>3, ChunkOf
    <3> HIDE DEF lo, c
    <3>2. off + j < lo + p.len /\ off + j < off + len
      BY <1>1, <1>3, <3>1
    <3> QED BY <1>1, <1>3, <3>1, <3>2 DEF Most, Least
  <2> QED BY <2>2, <2>3
<1>7. \A j \in 0 .. len - 1 : (off + j) \div c \in got => buf[j] = <<File, off + j>>
  BY DEF Filling
<1>8. ASSUME NEW j \in 0 .. len - 1, (off + j) \div c \in got \cup {p.idx}
      PROVE  Copied(p)[j] = <<File, off + j>>
  BY <1>6, <1>7, <1>8, Zenon
<1>9. Copied(p) = [j \in 0 .. len - 1 |-> Copied(p)[j]]
  BY <1>5, Zenon
<1> QED BY <1>8, <1>9, ZenonT(30)

-----------------------------------------------------------------------------
(* The steps.                                                              *)

\* server.py tells the truth about the file it was asked for.
LEMMA AnswersTrue ==
  ASSUME NEW r, PacketOk(r), ~ToClient(r), NEW p \in Answer(r)
  PROVE  PacketOk(p)
<1>1. Asked(r.file) /\ r.type \in {"meta_req", "range_req", "retrans_req"}
  BY DEF PacketOk, ToClient
<1>2. PacketOk(Error)
  BY DEF PacketOk, Error
<1>3. CASE r.file \notin DOMAIN Sizes
  <2>1. Answer(r) = {Error}
    BY <1>3, SMTT(30) DEF Answer
  <2> QED BY <1>2, <2>1
<1>4. CASE r.file \in DOMAIN Sizes /\ r.type = "meta_req"
  <2>1. Answer(r) = {[type |-> "meta_resp", file |-> r.file, size |-> Sizes[r.file]]}
    BY <1>4 DEF Answer
  <2> QED BY <1>1, <1>4, <2>1 DEF PacketOk
<1>5. CASE r.file \in DOMAIN Sizes /\ r.type = "range_req"
  <2> DEFINE total == TotalChunks(Sizes[r.file])
             span == r.start .. Least(r.start + r.count, total) - 1
  <2>1. Answer(r) = IF r.start >= total THEN {Error} ELSE DataPackets(r.file, span)
    BY <1>5 DEF Answer
  <2>2. \A j \in span : j \in Int
    OBVIOUS
  <2> HIDE DEF total, span
  <2>3. p = Error \/ p \in DataPackets(r.file, span)
    BY <2>1, SMTT(30)
  <2>4. ASSUME p \in DataPackets(r.file, span)
        PROVE  PacketOk(p)
    <3>1. PICK j \in span : p = [type |-> "data", file |-> r.file, idx |-> j,
                                 len |-> Least(CHUNK_SIZE, Sizes[r.file] - j * CHUNK_SIZE)]
      BY <2>4 DEF DataPackets
    <3> QED BY <1>1, <1>5, <2>2, <3>1, SMTT(30) DEF PacketOk
  <2> QED BY <1>2, <2>3, <2>4
<1>6. CASE r.file \in DOMAIN Sizes /\ r.type = "retrans_req"
  <2>1. Answer(r) = {Error}
    BY <1>6 DEF Answer
  <2> QED BY <1>2, <2>1
<1> QED BY <1>1, <1>3, <1>4, <1>5, <1>6, SMTT(30)

\* A batch leads to the next one or to the end of the pass.
LEMMA BatchLeads ==
  ASSUME NEW x, LoopTurn(x) \/ NextBatch(Step)
  PROVE  pc' \in {pc, "round"}
  BY DEF LoopTurn, NextBatch

\* A step within the chunks of a window.
LEMMA FillingStep ==
  ASSUME TransferInv, pc \in {"range", "retrans"}, pc' \in {pc, "round"},
         UNCHANGED windowVars, \A p \in net' : PacketOk(p),
         Filling'
  PROVE  TransferInv'
<1>1. UNCHANGED <<turn, file, off, len>>
  BY SMTT(30) DEF windowVars
<1>2. \A p \in net' : PacketOk(p)'
  BY <1>1 DEF PacketOk, Asked
<1>3. WindowIntact'
  BY DEF WindowIntact
<1> QED BY <1>1, <1>2, <1>3 DEF TransferInv

LEMMA FillingKept ==
  ASSUME Filling, UNCHANGED <<windowVars, got, buf>>
  PROVE  Filling'
  BY DEF Filling, windowVars, File

LEMMA ServeStep ==
  ASSUME TransferInv, Lose \/ Serve
  PROVE  TransferInv'
<1>1. UNCHANGED <<pc, windowVars, got, buf>>
  BY Zenon DEF Lose, Serve
<1>2. \A p \in net' : PacketOk(p)
  BY AnswersTrue, Zenon DEF Lose, Serve, TransferInv
<1>3. \A p \in net' : PacketOk(p)'
  BY <1>1, <1>2, SMTT(30) DEF PacketOk, Asked, windowVars
<1>4. WindowIntact' /\ (pc' \in {"range", "round", "retrans"} => Filling')
  BY <1>1, FillingKept, SMTT(30) DEF TransferInv, WindowIntact, windowVars
<1> QED BY <1>1, <1>3, <1>4 DEF TransferInv, windowVars

LEMMA SendMetaStep ==
  ASSUME TransferInv, SendMeta
  PROVE  TransferInv'
<1>1. UNCHANGED <<pc, windowVars, got, buf>> /\ pc \in {"probe", "meta"}
  BY SMTT(30) DEF SendMeta
<1>2. PacketOk([type |-> "meta_req", file |-> Transfers[turn][2]])
  BY SMTT(30) DEF PacketOk, Asked, TransferInv
<1>3. \A p \in net' : PacketOk(p)
  BY <1>2, SMTT(30) DEF SendMeta, TransferInv
<1>4. \A p \in net' : PacketOk(p)'
  BY <1>1, <1>3 DEF PacketOk, Asked, windowVars
<1> QED BY <1>1, <1>4, SMTT(30) DEF TransferInv, WindowIntact, windowVars

LEMMA SendBatchStep ==
  ASSUME TransferInv, SendBatch
  PROVE  TransferInv'
<1>1. /\ pc \in {"range", "retrans"} /\ UNCHANGED <<windowVars, got, buf>>
      /\ NextBatch(Step) \/ pc' = pc
      /\ net' = net \/ net' = net \cup {Request}
  BY DEF SendBatch
<1>2. pc' \in {pc, "round"}
  BY <1>1, BatchLeads
<1>3. PacketOk(Request)
  <2>1. Asked(Transfers[turn][2])
    BY SMTT(30) DEF TransferInv, Asked
  <2>2. Request.type \in {"range_req", "retrans_req"} /\ Request.file = Transfers[turn][2]
    BY DEF Request
  <2> QED BY <2>1, <2>2 DEF PacketOk
<1>4. \A p \in net' : PacketOk(p)
  BY <1>1, <1>3 DEF TransferInv
<1> QED BY <1>1, <1>2, <1>4, FillingKept, FillingStep DEF TransferInv

LEMMA TimeoutStep ==
  ASSUME TransferInv, Timeout
  PROVE  TransferInv'
<1>1. pc \in {"range", "retrans"} /\ UNCHANGED <<windowVars, got, buf, net>> /\ LoopTurn(idle + 1)
  BY DEF Timeout, netVars
<1>2. pc' \in {pc, "round"}
  BY <1>1, BatchLeads
<1> QED BY <1>1, <1>2, FillingKept, FillingStep DEF TransferInv

LEMMA RoundStep ==
  ASSUME TransferInv, Round
  PROVE  TransferInv'
<1>1. /\ pc = "round" /\ pc' \in {"ok", "failed", "retrans"} /\ (pc' = "ok" => Chunks \subseteq got)
      /\ UNCHANGED <<turn, file, off, len, got, buf, net>> /\ Filling /\ off \in Nat /\ len \in Int
  BY DEF Round, TransferInv, windowVars, netVars
<1>2. ASSUME pc' = "ok"
      PROVE  buf = [j \in 0 .. len - 1 |-> <<File, off + j>>]
  <2>1. \A j \in 0 .. len - 1 : buf[j] = <<File, off + j>>
    BY <1>1, <1>2, WindowChunks, SMTT(30) DEF Filling
  <2> QED BY <1>1, <2>1 DEF Filling
<1>3. WindowIntact'
  BY <1>1, <1>2, SMTT(30) DEF WindowIntact, File
<1>4. \A p \in net' : PacketOk(p)'
  BY <1>1, ZenonT(30) DEF TransferInv, PacketOk, Asked
<1>5. Filling'
  BY <1>1, FillingKept DEF windowVars
<1> QED BY <1>1, <1>3, <1>4, <1>5 DEF TransferInv

LEMMA AgainStep ==
  ASSUME TransferInv, Again
  PROVE  TransferInv'
<1>1. /\ net' = net /\ turn \in 1 .. Len(Transfers)
      /\ \/ turn' = turn /\ off' = off /\ len' = len /\ pc' = "end"
         \/ /\ turn < Len(Transfers) /\ turn' = turn + 1 /\ pc' = Entry(turn + 1)
            /\ off' = Transfers[turn + 1][3] /\ len' = Transfers[turn + 1][4]
  BY ZenonT(30) DEF Again, netVars, TransferInv
<1>2. turn' \in 1 .. Len(Transfers) /\ turn <= turn' /\ turn' \in Nat /\ turn \in Nat
  BY <1>1, TransfersAssumption, SMTT(30)
<1>3. off' \in Nat /\ len' \in Int
  BY <1>1, <1>2, TransfersAssumption DEF TransferInv
<1>4. pc' \in {"probe", "meta", "end"}
  BY <1>1 DEF Entry
<1>5. \A f : Asked(f) => Asked(f)'
  BY <1>2, SMTT(30) DEF Asked
<1>6. \A p \in net' : PacketOk(p)'
  BY <1>1, <1>5 DEF TransferInv, PacketOk
<1> QED BY <1>2, <1>3, <1>4, <1>6, ZenonT(30) DEF TransferInv, WindowIntact

LEMMA ReceiveStep ==
  ASSUME OneFileAsked, TransferInv, Receive
  PROVE  TransferInv'
<1>1. PICK p \in net : net' \subseteq net /\ (Probed(p) \/ Opened(p) \/ NotMeta(p) \/ Chunk(p))
  BY DEF Receive
<1>2. PacketOk(p) /\ off \in Nat /\ len \in Int /\ turn \in 1 .. Len(Transfers)
  BY SMTT(30) DEF TransferInv
<1>3. turn' = turn /\ off' = off
  BY <1>1, SMTT(30) DEF Probed, Opened, NotMeta, Chunk, windowVars
<1>4. \A q \in net' : PacketOk(q)'
  BY <1>1, <1>3, SMTT(30) DEF TransferInv, PacketOk, Asked
<1>5. p.type = "meta_resp" => p.file = File /\ File \in DOMAIN Sizes /\ p.size = Sizes[File] /\ p.size \in Nat
  BY <1>2, AskedIsFile, SizesAssumption, SMTT(30) DEF PacketOk
<1>6. CASE Probed(p)
  BY <1>2, <1>3, <1>4, <1>5, <1>6, SMTT(30) DEF TransferInv, Probed, WindowIntact
<1>7. CASE NotMeta(p)
  BY <1>2, <1>3, <1>4, <1>7 DEF TransferInv, NotMeta, WindowIntact, windowVars
<1>8. CASE Opened(p)
  <2>1. len' \in Int /\ file'.size = Sizes[File] /\ pc' \in {"failed", "range"}
    BY <1>2, <1>5, <1>8, SMTT(30) DEF Opened
  <2>2. ASSUME pc' = "range"
        PROVE  Filling'
    <3>0. ~(off >= p.size \/ off + len' > p.size) /\ got' = {} /\ buf' = [j \in 0 .. len' - 1 |-> NoByte]
      <4>1. off >= p.size \/ off + len' > p.size => pc' = "failed"
        BY <1>8, Zenon DEF Opened
      <4>2. ~(off >= p.size \/ off + len' > p.size) => got' = {} /\ buf' = [j \in 0 .. len' - 1 |-> NoByte]
        BY <1>8, Zenon DEF Opened
      <4> QED BY <2>2, <4>1, <4>2
    <3>3. p.size = Sizes[File] /\ p.size \in Nat
      BY <1>5, <1>8, Zenon DEF Opened
    <3>1. off + len' <= Sizes[File] /\ got' = {} /\ buf' = [j \in 0 .. len' - 1 |-> NoByte]
      BY <1>2, <2>1, <3>0, <3>3
    <3>2. buf' = [j \in 0 .. len' - 1 |-> buf'[j]]
      BY <3>1
    <3> QED BY <1>3, <1>5, <1>8, <2>1, <3>1, <3>2 DEF Filling, File, Opened
  <2> QED BY <1>2, <1>3, <1>4, <2>1, <2>2, ZenonT(30) DEF TransferInv, WindowIntact
<1>9. CASE Chunk(p)
  <2>1. pc \in {"range", "retrans"} /\ LoopTurn(0) /\ UNCHANGED windowVars /\ Filling
    BY <1>9 DEF Chunk, TransferInv
  <2>2. pc' \in {pc, "round"}
    BY <2>1, BatchLeads
  <2>3. \A q \in net' : PacketOk(q)
    BY <1>1 DEF TransferInv
  <2>4. CASE Accepted(p)
    <3>1. got' = got \cup {p.idx} /\ buf' = Copied(p) /\ UNCHANGED <<turn, file, off, len>>
      BY <1>9, <2>4 DEF Chunk, windowVars
    <3>2. /\ buf' = [j \in 0 .. len - 1 |-> buf'[j]]
          /\ \A j \in 0 .. len - 1 : (off + j) \div CHUNK_SIZE \in got' => buf'[j] = <<File, off + j>>
      BY <1>2, <2>1, <2>4, <3>1, CopiedInPlace, SMTT(30)
    <3>3. Filling'
      BY <2>1, <3>1, <3>2 DEF Filling, File
    <3> QED BY <2>1, <2>2, <2>3, <3>3, FillingStep
  <2>5. CASE ~Accepted(p)
    BY <1>9, <2>1, <2>2, <2>3, <2>5, FillingKept, FillingStep, SMTT(30) DEF Chunk
  <2> QED BY <2>4, <2>5
<1> QED BY <1>1, <1>6, <1>7, <1>8, <1>9

LEMMA TransferInit ==
  ASSUME Init
  PROVE  TransferInv
<1>1. 1 \in 1 .. Len(Transfers) /\ turn = 1 /\ net = {} /\ pc \in {"probe", "meta"}
  BY TransfersAssumption, SMTT(30) DEF Init, Entry
<1>2. off \in Nat /\ len \in Int
  BY <1>1, TransfersAssumption DEF Init
<1> QED BY <1>1, <1>2, SMTT(30) DEF TransferInv, WindowIntact

\* ftpclient.c:527-528: as long as one file is asked for at a time, a transfer
\* that llm_fetch_window reports as done has every byte of its window in place.
THEOREM WindowsIntact ==
  ASSUME OneFileAsked
  PROVE  Spec => []WindowIntact
<1>1. Init => TransferInv
  BY TransferInit
<1>2. TransferInv /\ [Next]_vars => TransferInv'
  <2> SUFFICES ASSUME TransferInv, [Next]_vars PROVE TransferInv'
    OBVIOUS
  <2>1. CASE Next
    BY <2>1, ServeStep, ReceiveStep, SendMetaStep, SendBatchStep, TimeoutStep, RoundStep, AgainStep DEF Next, Client
  <2>2. CASE UNCHANGED vars
    <3>1. UNCHANGED <<pc, turn, file, off, len, got, buf, net>>
      BY <2>2, SMTT(30) DEF vars, windowVars, netVars
    <3>2. WindowIntact' /\ (Filling => Filling') /\ \A p \in net' : PacketOk(p) => PacketOk(p)'
      BY <3>1 DEF TransferInv, WindowIntact, Filling, File, PacketOk, Asked
    <3> QED BY <3>1, <3>2 DEF TransferInv
  <2> QED BY <2>1, <2>2
<1>3. TransferInv => WindowIntact
  BY DEF TransferInv
<1> QED BY <1>1, <1>2, <1>3, PTL DEF Spec

-----------------------------------------------------------------------------
(* The shards made of the windows.                                         *)

\* An exact quotient: a number of heads that divides dim, and dim again.
LEMMA ExactQuotient ==
  ASSUME NEW a \in Nat, NEW d \in Nat \ {0}, a % d = 0
  PROVE  a \div d \in Nat /\ d * (a \div d) = a
  <1>1. a \div d \in Nat /\ a = d * (a \div d) + (a % d)
    OBVIOUS
  <1> QED
    BY <1>1

\* Dividing a product by one of its factors.
LEMMA CancelQuotient ==
  ASSUME NEW d \in Nat \ {0}, NEW x \in Nat
  PROVE  (d * x) \div d = x
  <1>1. /\ d * x \in Nat
        /\ (d * x) \div d \in Int
        /\ d * ((d * x) \div d) <= d * x
        /\ d * x < d * ((d * x) \div d) + d
    OBVIOUS
  <1> DEFINE y == (d * x) \div d
  <1>2. y \in Int /\ d * y <= d * x /\ d * x < d * y + d
    BY <1>1
  <1> HIDE DEF y
  <1>3. CASE y < x
    <2>1. d * (x - y) >= d
      BY <1>2, <1>3
    <2>2. d * (x - y) = d * x - d * y
      BY <1>2
    <2> QED
      BY <1>2, <2>1, <2>2
  <1>4. CASE y > x
    <2>1. d * (y - x) >= d
      BY <1>2, <1>4
    <2>2. d * (y - x) = d * y - d * x
      BY <1>2
    <2> QED
      BY <1>2, <2>1, <2>2
  <1>5. y = x
    BY <1>2, <1>3, <1>4
  <1> QED
    BY <1>5 DEF y

\* The heads make up dim, and both ways to compute the key and value length agree.
LEMMA HeadsExact ==
  ASSUME NEW c \in Headers, Plausible(c)
  PROVE  /\ HeadSize(c) \in Nat
         /\ c.n_heads * HeadSize(c) = c.dim
         /\ KvDim(c) = HeadSize(c) * c.n_kv_heads
  <1> DEFINE h == HeadSize(c)
  <1>1. /\ c.dim \in Nat /\ c.n_heads \in Nat \ {0} /\ c.n_kv_heads \in Nat
        /\ c.dim % c.n_heads = 0
    BY DEF Headers, Plausible
  <1>2. h \in Nat /\ c.n_heads * h = c.dim
    BY <1>1, ExactQuotient DEF HeadSize
  <1> HIDE DEF h
  <1>3. c.dim * c.n_kv_heads = c.n_heads * (h * c.n_kv_heads)
    BY <1>1, <1>2
  <1>4. h * c.n_kv_heads \in Nat
    BY <1>1, <1>2
  <1>5. (c.n_heads * (h * c.n_kv_heads)) \div c.n_heads = h * c.n_kv_heads
    BY <1>1, <1>4, CancelQuotient
  <1>6. KvDim(c) = h * c.n_kv_heads
    BY <1>3, <1>5 DEF KvDim
  <1> QED
    BY <1>2, <1>6 DEF h

\* A layer of a tensor is as long for ckpt_geometry as for llama_layer_at, and
\* as llama_block reads.
LEMMA StridesAgree ==
  ASSUME NEW c \in Headers, Plausible(c)
  PROVE  Stride(c) = LayerSizes(c) /\ BlockReads(c) = LayerSizes(c)
  <1>1. c.dim \in Int /\ c.hidden_dim \in Int
    BY DEF Headers
  <1>2. KvDim(c) = HeadSize(c) * c.n_kv_heads /\ KvDim(c) \in Int
    <2>1. c.n_kv_heads \in Int
      BY DEF Headers
    <2> QED
      BY <2>1, HeadsExact
  <1>3. /\ c.hidden_dim * c.dim = c.dim * c.hidden_dim
        /\ KvDim(c) * c.dim = c.dim * KvDim(c)
    BY <1>1, <1>2, SMTT(30)
  <1> QED
    BY <1>2, <1>3, Zenon DEF Stride, LayerSizes, BlockReads

\* All layers of a tensor are as long as memory_map_weights says.
LEMMA SizesAgree ==
  ASSUME NEW c \in Headers, Plausible(c)
  PROVE  WholeSizes(c) = [t \in Tensors |-> c.n_layers * Stride(c)[t]]
  <1> DEFINE n == c.n_layers
             d == c.dim
             h == c.hidden_dim
             q == c.n_heads * HeadSize(c)
             kv == c.n_kv_heads * HeadSize(c)
             kw == HeadSize(c) * c.n_kv_heads
  <1>1. n \in Int /\ d \in Int /\ h \in Int /\ q = d /\ kv = kw /\ kv \in Int
    <2>1. c.n_kv_heads \in Int /\ n \in Int /\ d \in Int /\ h \in Int
      BY DEF Headers
    <2>2. HeadSize(c) \in Nat /\ q = d
      BY HeadsExact
    <2> QED
      BY <2>1, <2>2
  <1>2. Stride(c) = << d, d * d, d * kw, d * kw, d * d, d, d * h, h * d, d * h >>
    BY SMTT(30) DEF Stride
  <1>3. WholeSizes(c) = << n * d, n * d * q, n * d * kv, n * d * kv, n * q * d,
                           n * d, n * d * h, n * h * d, n * d * h >>
    BY DEF WholeSizes
  <1> HIDE DEF n, d, h, q, kv, kw
  <1>4. /\ n * d * q = n * (d * d) /\ n * d * kv = n * (d * kw) /\ n * q * d = n * (d * d)
        /\ n * d * h = n * (d * h) /\ n * h * d = n * (h * d)
    BY <1>1, SMTT(30)
  <1>5. WholeSizes(c) = << n * d, n * (d * d), n * (d * kw), n * (d * kw), n * (d * d),
                           n * d, n * (d * h), n * (h * d), n * (d * h) >>
    BY <1>3, <1>4
  <1>6. [t \in Tensors |-> n * Stride(c)[t]]
          = << n * d, n * (d * d), n * (d * kw), n * (d * kw), n * (d * d),
               n * d, n * (d * h), n * (h * d), n * (d * h) >>
    BY <1>2 DEF Tensors
  <1> QED
    BY <1>5, <1>6 DEF n

\* Whatever plausible header the checkpoint has, a worker fetches for every
\* tensor and layer exactly the floats a single node would read
\* (shard.c:39-60 against llama_core.c:401-430, 618-637 and 652-729).
THEOREM WindowsAgree ==
  ASSUME NEW c \in Headers, Plausible(c), NEW k, NEW t \in Tensors
  PROVE  Fetched(c, k, t) = ForwardReads(c, k, t)
  <1>1. Base(c) = Mapped(c)
    BY SizesAgree, Zenon DEF Base, Mapped
  <1>2. Stride(c) = LayerSizes(c) /\ BlockReads(c) = LayerSizes(c)
    BY StridesAgree, SMTT(30)
  <1> QED
    BY <1>1, <1>2, Zenon DEF Fetched, ForwardReads, LayerAt

-----------------------------------------------------------------------------
(* The inductive invariant of a load.  LoadedAsMapped speaks of finished   *)
(* loads only, so it needs to be known of an unfinished one which tensors  *)
(* it has already put in place.                                            *)

\* What a tensor's place in a segment can hold.
Contents == {Empty} \cup {<<m, Fetched(Config[m], k, t)>> : m \in Models, k \in Layers, t \in Tensors}

TypeOK ==
  /\ segment \in [Layers -> [Tensors -> Contents]]
  /\ sh \in [loaded : BOOLEAN, model : Models \cup {0}, from : 0 .. NLayers, to : 0 .. NLayers]
  /\ stage \in {"idle", "attach", "fetch"}
  /\ l \in Nat /\ i \in Tensors

\* A load under way is of some model and at a layer of its range.
UnderWay ==
  stage # "idle" => /\ ~sh.loaded /\ sh.model \in Models
                 /\ sh.from <= l /\ l < sh.to

\* The tensors that the load of sh has put in place.
InPlace(k, t) ==
  /\ sh.from <= k /\ k < sh.to
  /\ \/ sh.loaded
     \/ stage # "idle" /\ k < l
     \/ stage = "fetch" /\ k = l /\ t < i

Placed ==
  /\ sh.loaded => sh.model \in Models
  /\ \A k \in Layers, t \in Tensors : InPlace(k, t) => segment[k][t] = Window(k, t)

IInv == TypeOK /\ UnderWay /\ Placed

\* A step of the master, or none, leaves the worker's load alone.
LEMMA ShardUnchanged ==
  ASSUME IInv, UNCHANGED <<segment, sh, stage, l, i>>
  PROVE  IInv'
  <1>1. TypeOK' /\ UnderWay'
    BY SMTT(30) DEF IInv, TypeOK, UnderWay
  <1>2. \A k, t : InPlace(k, t)' = InPlace(k, t) /\ Window(k, t)' = Window(k, t)
    BY DEF InPlace, Window
  <1> QED
    BY <1>1, <1>2 DEF IInv, Placed

\* A load that is given up has nothing in place that counts.
LEMMA GivenUp ==
  ASSUME stage' = "idle", ~sh.loaded', NEW k, NEW t
  PROVE  ~InPlace(k, t)'
  BY DEF InPlace

LEMMA AssignKeeps ==
  ASSUME IInv, NEW m \in Models, NEW from \in 0 .. NLayers, NEW to \in 0 .. NLayers,
         NEW agreed \in BOOLEAN, Assign(m, from, to, agreed)
  PROVE  IInv'
  <1>1. CASE agreed /\ RangeFits(Config[m], from, to)
    <2>1. /\ sh' = [loaded |-> FALSE, model |-> m, from |-> from, to |-> to]
          /\ stage' = "attach" /\ l' = from /\ segment' = segment /\ i' = i
      BY <1>1, SMTT(30) DEF Assign, Fresh
    <2>5. TypeOK'
      <3>1. sh' \in [loaded : BOOLEAN, model : Models \cup {0}, from : 0 .. NLayers, to : 0 .. NLayers] /\ l' \in Nat
        BY <2>1, NLayersAssumption, SMTT(30)
      <3> QED BY <2>1, <3>1, Zenon DEF IInv, TypeOK
    <2>6. UnderWay'
      <3>1. from < to /\ from <= from
        BY <1>1, NLayersAssumption, SMTT(30) DEF RangeFits
      <3>2. ~sh'.loaded /\ sh'.model = m /\ sh'.from = from /\ sh'.to = to
        BY <2>1, Zenon
      <3> QED BY <2>1, <3>1, <3>2, Zenon DEF UnderWay
    <2>2. TypeOK' /\ UnderWay'
      BY <2>5, <2>6, Zenon
    <2>3. \A k \in Layers, t \in Tensors : ~InPlace(k, t)'
      BY <2>1, NLayersAssumption DEF InPlace, Layers
    <2>4. ~sh'.loaded
      BY <2>1, SMTT(30)
    <2> QED
      BY <2>2, <2>3, <2>4, ZenonT(30) DEF IInv, Placed
  <1>2. CASE ~(agreed /\ RangeFits(Config[m], from, to))
    <2>1. /\ sh' = [sh EXCEPT !.loaded = FALSE]
          /\ stage = "idle" /\ stage' = stage /\ l' = l /\ segment' = segment /\ i' = i
      BY <1>2 DEF Assign
    <2>2. TypeOK' /\ UnderWay' /\ ~sh'.loaded
      BY <2>1, Zenon DEF IInv, TypeOK, UnderWay
    <2>3. \A k, t : ~InPlace(k, t)'
      BY <2>1, <2>2, GivenUp
    <2> QED
      BY <2>2, <2>3, ZenonT(30) DEF IInv, Placed
  <1> QED
    BY <1>1, <1>2, SMTT(30)

LEMMA AttachKeeps ==
  ASSUME IInv, Attach
  PROVE  IInv'
  <1>1. /\ stage = "attach" /\ stage' = "fetch" /\ i' = 1
        /\ segment' = segment /\ sh' = sh /\ l' = l
    BY DEF Attach
  <1>2. TypeOK' /\ UnderWay'
    BY <1>1 DEF IInv, TypeOK, UnderWay, Tensors
  <1>3. \A k \in Layers, t \in Tensors : InPlace(k, t)' => InPlace(k, t)
    BY <1>1, SMTT(30) DEF InPlace, Tensors
  <1>4. \A k, t : Window(k, t)' = Window(k, t)
    BY <1>1, SMTT(30) DEF Window
  <1> QED
    BY <1>1, <1>2, <1>3, <1>4 DEF IInv, Placed

LEMMA FailureKeeps ==
  ASSUME IInv, AttachFails \/ FetchFails
  PROVE  IInv'
  <1>1. stage # "idle" /\ stage' = "idle" /\ sh' = sh /\ l' = l /\ i' = i
    BY DEF AttachFails, FetchFails
  <1>2. ~sh.loaded /\ l \in Layers
    BY <1>1, NLayersAssumption DEF IInv, UnderWay, TypeOK, Layers
  <1>3. segment' \in [Layers -> [Tensors -> Contents]]
    <2>1. CASE AttachFails
      BY <2>1 DEF AttachFails, IInv, TypeOK
    <2>2. CASE FetchFails
      <3>1. PICK b \in {segment[l][i], Empty} : segment' = [segment EXCEPT ![l][i] = b]
        BY <2>2, ZenonT(30) DEF FetchFails
      <3>2. b \in Contents
        BY <1>2, SMTT(30) DEF IInv, TypeOK, Contents
      <3> QED
        BY <1>2, <3>1, <3>2 DEF IInv, TypeOK
    <2> QED
      BY <2>1, <2>2
  <1>4. TypeOK' /\ UnderWay'
    BY <1>1, <1>3 DEF IInv, TypeOK, UnderWay
  <1>5. ~sh'.loaded
    BY <1>1, <1>2
  <1>6. \A k, t : ~InPlace(k, t)'
    BY <1>1, <1>5, GivenUp, SMTT(30)
  <1> QED
    BY <1>4, <1>5, <1>6 DEF IInv, Placed

LEMMA RestartKeeps ==
  ASSUME IInv, Restart
  PROVE  IInv'
  <1>1. sh' = NoShard /\ stage' = "idle" /\ segment' = segment /\ l' = l /\ i' = i
    BY DEF Restart
  <1>2. TypeOK' /\ UnderWay' /\ ~sh'.loaded
    BY <1>1, NLayersAssumption DEF IInv, TypeOK, UnderWay, NoShard
  <1>3. \A k, t : ~InPlace(k, t)'
    BY <1>1, <1>2, GivenUp
  <1> QED
    BY <1>2, <1>3, ZenonT(30) DEF IInv, Placed

\* The step that matters: the next tensor of the layer is put in place, and the
\* layer and the load are finished only with the ninth.
LEMMA FetchKeeps ==
  ASSUME IInv, FetchTensor
  PROVE  IInv'
  <1>1. /\ stage = "fetch" /\ ~sh.loaded /\ sh.model \in Models /\ sh.from <= l /\ l < sh.to
        /\ l \in Layers /\ i \in Tensors /\ l \in Nat /\ sh.from \in Nat /\ sh.to \in Nat
    BY NLayersAssumption DEF FetchTensor, IInv, UnderWay, TypeOK, Layers
  <1>2. segment' = [segment EXCEPT ![l][i] = Window(l, i)]
    BY DEF FetchTensor
  <1>3. segment' \in [Layers -> [Tensors -> Contents]]
    <2>1. Window(l, i) \in Contents
      BY <1>1, SMTT(30) DEF Window, Contents
    <2> QED
      BY <1>1, <1>2, <2>1, SMTT(30) DEF IInv, TypeOK
  <1>4. /\ sh'.model = sh.model /\ sh'.from = sh.from /\ sh'.to = sh.to
        /\ \/ i < 9 /\ i' = i + 1 /\ l' = l /\ stage' = stage /\ sh' = sh
           \/ i = 9 /\ i' = i /\ l + 1 < sh.to /\ l' = l + 1 /\ stage' = "attach" /\ sh' = sh
           \/ /\ i = 9 /\ i' = i /\ l + 1 = sh.to /\ l' = l /\ stage' = "idle"
              /\ sh' = [sh EXCEPT !.loaded = TRUE]
    BY <1>1 DEF FetchTensor, After, Tensors, IInv, TypeOK
  <1>5. TypeOK'
    <2>1. sh' = sh \/ sh' = [sh EXCEPT !.loaded = TRUE]
      BY <1>4
    <2>2. sh' \in [loaded : BOOLEAN, model : Models \cup {0}, from : 0 .. NLayers, to : 0 .. NLayers]
      BY <2>1, Zenon DEF IInv, TypeOK
    <2>3. /\ stage' \in {"idle", "attach", "fetch"}
          /\ l' \in Nat /\ i' \in Tensors
      BY <1>1, <1>4 DEF Tensors
    <2> QED
      BY <1>3, <2>2, <2>3 DEF TypeOK
  <1>6. UnderWay'
    BY <1>1, <1>4 DEF UnderWay
  <1>7. \A k, t : Window(k, t)' = Window(k, t)
    BY <1>4 DEF Window
  <1>8. \A k \in Layers, t \in Tensors : InPlace(k, t)' => InPlace(k, t) \/ (k = l /\ t = i)
    BY <1>1, <1>4 DEF InPlace, Layers, Tensors
  <1>9. \A k \in Layers, t \in Tensors :
          segment'[k][t] = IF k = l /\ t = i THEN Window(l, i) ELSE segment[k][t]
    BY <1>1, <1>2, SMTT(30) DEF IInv, TypeOK
  <1>10. \A k \in Layers, t \in Tensors : InPlace(k, t)' => segment'[k][t] = Window(k, t)'
    BY <1>7, <1>8, <1>9 DEF IInv, Placed
  <1> QED
    BY <1>1, <1>4, <1>5, <1>6, <1>10 DEF IInv, Placed

\* Every step of every action preserves IInv.
LEMMA NextKeeps ==
  ASSUME IInv, [LoadNext]_loadVars
  PROVE  IInv'
  <1>1. CASE Worker
    BY <1>1, AssignKeeps, AttachKeeps, FailureKeeps, RestartKeeps, FetchKeeps DEF Worker
  <1>2. CASE Master
    <2>1. UNCHANGED <<segment, sh, stage, l, i>>
      BY <1>2, Zenon DEF Master, HeadConfig, HeadEmbed, HeadFinal, HeadRestart, shardVars
    <2> QED
      BY <2>1, ShardUnchanged
  <1>3. CASE UNCHANGED loadVars
    <2>1. UNCHANGED <<segment, sh, stage, l, i>>
      BY <1>3 DEF loadVars
    <2> QED
      BY <2>1, ShardUnchanged
  <1> QED
    BY <1>1, <1>2, <1>3 DEF LoadNext

\* In a shard that serves hops every tensor holds what a single node's forward()
\* reads there, for every set of plausible models, every number of layers and
\* every sequence of assignments, failures and restarts (shard.c:28-38, 84-199).
THEOREM Loaded == LoadSpec => []LoadedAsMapped
  <1>1. LoadInit => IInv
    <2> SUFFICES ASSUME LoadInit PROVE IInv
      OBVIOUS
    <2>1. TypeOK /\ UnderWay /\ ~sh.loaded /\ stage = "idle"
      BY NLayersAssumption, SMTT(30) DEF LoadInit, NoShard, TypeOK, UnderWay, Contents, Tensors
    <2> QED
      BY <2>1, SMTT(30) DEF IInv, Placed, InPlace
  <1>2. IInv /\ [LoadNext]_loadVars => IInv'
    BY NextKeeps, SMTT(30)
  <1>3. IInv => LoadedAsMapped
    <2> SUFFICES ASSUME IInv, NEW k \in Layers, NEW t \in Tensors, Mine(k)
                 PROVE  segment[k][t] = <<sh.model, ForwardReads(Config[sh.model], k, t)>>
      BY ZenonT(30) DEF LoadedAsMapped
    <2>1. sh.model \in Models /\ segment[k][t] = Window(k, t)
      BY SMTT(30) DEF Mine, IInv, Placed, InPlace
    <2>2. Config[sh.model] \in Headers /\ Plausible(Config[sh.model])
      BY <2>1, ConfigsPlausible, SMTT(30)
    <2>3. Fetched(Config[sh.model], k, t) = ForwardReads(Config[sh.model], k, t)
      BY <2>2, WindowsAgree, ZenonT(30)
    <2> QED
      BY <2>1, <2>3, ZenonT(30) DEF Window
  <1> QED
    BY <1>1, <1>2, <1>3, PTL DEF LoadSpec

-----------------------------------------------------------------------------
(* The master's ends.                                                      *)

\* The running offset over nine sizes: where it starts and where it ends.  The sum
\* is written out to show that the function Running defines exists.
LEMMA RunningEnds ==
  ASSUME NEW first \in Int, NEW sizes, Len(sizes) = 9, \A t \in Tensors : sizes[t] \in Int
  PROVE  /\ Running(first, sizes)[1] = first
         /\ Running(first, sizes)[10]
              = first + sizes[1] + sizes[2] + sizes[3] + sizes[4] + sizes[5]
                + sizes[6] + sizes[7] + sizes[8] + sizes[9]
  <1> DEFINE Satisfies(at) ==
               at = [t \in 1 .. Len(sizes) + 1 |-> IF t = 1 THEN first ELSE at[t - 1] + sizes[t - 1]]
             o2 == first + sizes[1]
             o3 == o2 + sizes[2]
             o4 == o3 + sizes[3]
             o5 == o4 + sizes[4]
             o6 == o5 + sizes[5]
             o7 == o6 + sizes[6]
             o8 == o7 + sizes[7]
             o9 == o8 + sizes[8]
             o10 == o9 + sizes[9]
             sums == <<first, o2, o3, o4, o5, o6, o7, o8, o9, o10>>
             run == Running(first, sizes)
  <1>1. Satisfies(sums)
    BY SMTT(30) DEF Tensors
  <1>2. run = CHOOSE at : Satisfies(at)
    BY DEF Running
  <1> HIDE DEF run
  <1>3. Satisfies(run)
    BY <1>1, <1>2, ZenonT(30)
  <1>4. \A t \in 1 .. 10 : run[t] = IF t = 1 THEN first ELSE run[t - 1] + sizes[t - 1]
    <2>1. Len(sizes) + 1 = 10
      OBVIOUS
    <2> QED
      BY <1>3, <2>1, Zenon
  <1>5. run[1] = first /\ run[2] = run[1] + sizes[1] /\ run[3] = run[2] + sizes[2]
    BY <1>4
  <1>6. run[4] = run[3] + sizes[3] /\ run[5] = run[4] + sizes[4] /\ run[6] = run[5] + sizes[5]
    BY <1>4
  <1>7. run[7] = run[6] + sizes[6] /\ run[8] = run[7] + sizes[7]
    BY <1>4
  <1>8. run[9] = run[8] + sizes[8] /\ run[10] = run[9] + sizes[9]
    BY <1>4
  <1> QED
    BY <1>5, <1>6, <1>7, <1>8, SMTT(30) DEF run

\* What llama_head_tail_offsets adds up is where memory_map_weights finds the
\* tensors.
LEMMA EndsMapped ==
  ASSUME NEW c \in Headers, Plausible(c)
  PROVE  HeadTail(c).embed = EndReads(c).embed /\ HeadTail(c).final = EndReads(c).final
  <1> DEFINE n == c.n_layers
             q == c.n_heads * HeadSize(c)
             kv == c.n_kv_heads * HeadSize(c)
             table == Vocab(c) * c.dim
             s1 == n * c.dim
             s2 == n * c.dim * q
             s3 == n * c.dim * kv
             s5 == n * q * c.dim
             s7 == n * c.dim * c.hidden_dim
             s8 == n * c.hidden_dim * c.dim
             s == <<s1, s2, s3, s3, s5, s1, s7, s8, s7>>
  <1>1. c.dim \in Int /\ c.hidden_dim \in Int /\ n \in Int /\ q \in Int /\ kv \in Int /\ table \in Int
    <2>1. /\ c.n_kv_heads \in Int /\ c.n_heads \in Int /\ c.vocab_size \in Int
          /\ c.dim \in Int /\ c.hidden_dim \in Int /\ n \in Int
      BY DEF Headers
    <2>2. HeadSize(c) \in Int /\ Vocab(c) \in Int
      BY <2>1, HeadsExact, SMTT(30) DEF Vocab
    <2> QED
      BY <2>1, <2>2
  <1>2. WholeSizes(c) = s
    BY SMTT(30) DEF WholeSizes
  <1>3. /\ HeadTail(c).embed = << 0, table >>
        /\ HeadTail(c).final = << table + s1 + s2 + s3 + s3 + s5 + s1 + s7 + s8 + s7, c.dim >>
    BY ZenonT(30) DEF HeadTail
  <1> HIDE DEF q, kv, table
  <1>4. s1 \in Int /\ s2 \in Int /\ s3 \in Int /\ s5 \in Int /\ s7 \in Int /\ s8 \in Int
    BY <1>1
  <1> HIDE DEF s1, s2, s3, s5, s7, s8
  <1>5. Len(s) = 9 /\ \A t \in Tensors : s[t] \in Int
    BY <1>4 DEF Tensors
  <1>6. /\ s[1] = s1 /\ s[2] = s2 /\ s[3] = s3 /\ s[4] = s3 /\ s[5] = s5 /\ s[6] = s1
        /\ s[7] = s7 /\ s[8] = s8 /\ s[9] = s7
    OBVIOUS
  <1> HIDE DEF s
  <1>7. /\ Running(table, s)[1] = table
        /\ Running(table, s)[10] = table + s1 + s2 + s3 + s3 + s5 + s1 + s7 + s8 + s7
    <2>1. /\ Running(table, s)[1] = table
          /\ Running(table, s)[10]
               = table + s[1] + s[2] + s[3] + s[4] + s[5] + s[6] + s[7] + s[8] + s[9]
      BY <1>1, <1>5, RunningEnds
    <2> QED
      BY <1>6, <2>1
  <1>8. Mapped(c) = Running(table, s)
    BY <1>2 DEF Mapped, table
  <1>9. EndReads(c).embed = << 0, Mapped(c)[1] >> /\ EndReads(c).final = << Mapped(c)[10], c.dim >>
    BY SMTT(30) DEF EndReads
  <1> QED
    BY <1>3, <1>7, <1>8, <1>9, Zenon

\* A shared classifier is the embedding.
LEMMA SharedMapped ==
  ASSUME NEW c \in Headers, Plausible(c), Shared(c)
  PROVE  EndReads(c).wcls = HeadTail(c).embed
  <1>1. HeadTail(c).embed = << 0, Vocab(c) * c.dim >>
    BY DEF HeadTail
  <1> QED
    BY <1>1, SMTT(30) DEF EndReads, ClassifierAt

\* What master_load_head_tail has already fetched is of the model it loads, and
\* that model's classifier is shared.
HeadInv ==
  /\ head \in [pc : {"start", "embed", "final", "loaded", "failed"}, model : Models \cup {0},
              embed : {Empty} \cup {<<m, HeadTail(Config[m]).embed>> : m \in Models},
              final : {Empty} \cup {<<m, HeadTail(Config[m]).final>> : m \in Models}]
  /\ head.pc \in {"embed", "final", "loaded"} => head.model \in Models /\ Shared(Config[head.model])
  /\ head.pc \in {"final", "loaded"} => head.embed = <<head.model, HeadTail(Config[head.model]).embed>>
  /\ head.pc = "loaded" => head.final = <<head.model, HeadTail(Config[head.model]).final>>

LEMMA HeadKeeps ==
  ASSUME HeadInv, [LoadNext]_loadVars
  PROVE  HeadInv'
  <1>1. ASSUME NEW m \in Models, NEW ok \in BOOLEAN, HeadConfig(m, ok)
        PROVE  HeadInv'
    BY <1>1, ZenonT(30) DEF HeadInv, HeadConfig
  <1>2. ASSUME NEW ok \in BOOLEAN, HeadEmbed(ok)
        PROVE  HeadInv'
    BY <1>2, ZenonT(30) DEF HeadInv, HeadEmbed
  <1>3. ASSUME NEW ok \in BOOLEAN, HeadFinal(ok)
        PROVE  HeadInv'
    BY <1>3, ZenonT(30) DEF HeadInv, HeadFinal
  <1>4. CASE HeadRestart
    BY <1>4, SMTT(30) DEF HeadInv, HeadRestart, NoHead
  <1>5. CASE Worker
    <2>1. head' = head
      BY <1>5, SMTT(30) DEF Worker, Assign, Attach, AttachFails, FetchTensor, FetchFails, Restart
    <2> QED
      BY <2>1, ZenonT(30) DEF HeadInv
  <1>6. CASE UNCHANGED loadVars
    <2>1. head' = head
      BY <1>6, SMTT(30) DEF loadVars
    <2> QED
      BY <2>1, ZenonT(30) DEF HeadInv
  <1> QED
    BY <1>1, <1>2, <1>3, <1>4, <1>5, <1>6 DEF LoadNext, Master

\* A master that was just started has loaded nothing.
LEMMA HeadStarts ==
  ASSUME LoadInit
  PROVE  HeadInv
  <1> DEFINE E == {Empty} \cup {<<m, HeadTail(Config[m]).embed>> : m \in Models}
             F == {Empty} \cup {<<m, HeadTail(Config[m]).final>> : m \in Models}
  <1>1. head = NoHead
    BY ZenonT(30) DEF LoadInit
  <1>2. Empty \in E /\ Empty \in F
    BY ZenonT(30)
  <1>3. head \in [pc : {"start", "embed", "final", "loaded", "failed"}, model : Models \cup {0}, embed : E, final : F]
    <2> HIDE DEF E, F
    <2> QED BY <1>1, <1>2, SMTT(30) DEF NoHead
  <1>4. head.pc = "start"
    BY <1>1, ZenonT(30) DEF NoHead
  <1>5. head.pc \notin {"embed", "final", "loaded"}
    BY <1>4, ZenonT(30)
  <1> QED
    BY <1>3, <1>5, ZenonT(30) DEF HeadInv

\* What the invariant says of a master that has loaded.
LEMMA HeadEnds ==
  ASSUME HeadInv
  PROVE  HeadAsMapped
  <1> DEFINE c == Config[head.model]
  <1> SUFFICES ASSUME head.pc = "loaded"
               PROVE  /\ head.embed = <<head.model, EndReads(c).embed>>
                      /\ head.final = <<head.model, EndReads(c).final>>
                      /\ head.embed = <<head.model, EndReads(c).wcls>>
    BY ZenonT(30) DEF HeadAsMapped
  <1>1. head.model \in Models /\ Shared(c)
        /\ head.embed = <<head.model, HeadTail(c).embed>> /\ head.final = <<head.model, HeadTail(c).final>>
    BY ZenonT(30) DEF HeadInv
  <1>2. c \in Headers /\ Plausible(c)
    BY <1>1, ConfigsPlausible, ZenonT(30)
  <1> HIDE DEF c
  <1>3. HeadTail(c).embed = EndReads(c).embed /\ HeadTail(c).final = EndReads(c).final
    BY <1>2, EndsMapped, ZenonT(30)
  <1>4. EndReads(c).wcls = HeadTail(c).embed
    BY <1>1, <1>2, SharedMapped, ZenonT(30)
  <1> QED
    BY <1>1, <1>3, <1>4, ZenonT(30)

\* A master that embeds and classifies does it with the floats a single node would
\* read, for every plausible header: llama_head_tail_offsets adds up to where
\* memory_map_weights stops, a model with a classifier of its own is refused, and
\* no failed fetch or restart leaves another model's table in llm_embed to be used
\* (distinf.c:752-843, llama_core.c:401-474).
THEOREM HeadLoaded == LoadSpec => []HeadAsMapped
  <1>1. LoadInit => HeadInv
    BY HeadStarts, Zenon
  <1>2. HeadInv /\ [LoadNext]_loadVars => HeadInv'
    BY HeadKeeps, Zenon
  <1>3. HeadInv => HeadAsMapped
    BY HeadEnds, Zenon
  <1> QED
    BY <1>1, <1>2, <1>3, PTL DEF LoadSpec
=============================================================================
