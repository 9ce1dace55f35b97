----------------------------- MODULE NodeProofs -----------------------------
(***************************************************************************)
(* What goes on within a node: the thread pool for any number of threads,  *)
(* rows and calls; rpc_call for any number of calls, retransmissions,      *)
(* drained datagrams and kinds of answers; the mailboxes of a worker for   *)
(* any number of words, assignments and sequence numbers.                  *)
(***************************************************************************)
EXTENDS ThreadPool, RpcCall, Mailbox, TLAPS

-----------------------------------------------------------------------------
(* ThreadPool.                                                             *)

-----------------------------------------------------------------------------
(* The partition covers the rows.                                          *)

\* Division rounded up, as (a + b - 1) / b computes it.
LEMMA CeilDivBounds ==
  ASSUME NEW a \in Nat, NEW b \in Nat \ {0}
  PROVE  /\ CeilDiv(a, b) \in Nat
         /\ a <= CeilDiv(a, b) * b
         /\ a > 0 => CeilDiv(a, b) > 0
  <1> DEFINE s == a + b - 1
             q == s \div b
  <1>1. s \in Nat
    OBVIOUS
  <1>2. q \in Nat /\ s % b \in 0 .. b - 1 /\ s = b * q + (s % b)
    BY <1>1
  <1>3. q * b = b * q /\ (q = 0 => b * q = 0)
    BY <1>2
  <1>4. a <= q * b /\ (a > 0 => q > 0)
    <2> DEFINE p == b * q
    <2>1. p \in Int
      BY <1>2
    <2>2. q \in Nat /\ s % b \in 0 .. b - 1 /\ s = p + (s % b) /\ q * b = p /\ (q = 0 => p = 0)
      BY <1>2, <1>3
    <2> HIDE DEF p, q
    <2> QED
      BY <2>1, <2>2
  <1> QED
    BY <1>2, <1>4 DEF CeilDiv

\* All threads together have room for all rows.
LEMMA ChunkBounds ==
  ASSUME NEW d \in Nat \ {0}, NEW a \in Nat \ {0}
  PROVE  /\ Chunk(d, a) \in Nat \ {0}
         /\ d <= NumThreads * Chunk(d, a)
  <1> DEFINE x == CeilDiv(d, NumThreads)
             y == CeilDiv(x, a)
  <1>1. x \in Nat /\ d <= x * NumThreads /\ x > 0
    BY CeilDivBounds, ThreadsAssumption
  <1>2. y \in Nat /\ x <= y * a /\ y > 0
    BY CeilDivBounds, <1>1
  <1> HIDE DEF x, y
  <1>3. y * a \in Nat \ {0}
    BY <1>1, <1>2
  <1>4. x * NumThreads <= NumThreads * (y * a)
    <2> DEFINE c == y * a
    <2>1. c \in Nat /\ x <= c
      BY <1>2, <1>3
    <2> HIDE DEF c
    <2>2. NumThreads * c = x * NumThreads + (c - x) * NumThreads /\ (c - x) * NumThreads >= 0
      BY <2>1, <1>1, ThreadsAssumption
    <2>3. x * NumThreads \in Int /\ NumThreads * c \in Int /\ (c - x) * NumThreads \in Int
      BY <2>1, <1>1, ThreadsAssumption
    <2>4. x * NumThreads <= NumThreads * c
      BY <2>2, <2>3
    <2> QED
      BY <2>4 DEF c
  <1>5. Chunk(d, a) = y * a
    BY DEF Chunk, x, y
  <1>6. x * NumThreads \in Int /\ NumThreads * (y * a) \in Int
    BY <1>1, <1>3, ThreadsAssumption
  <1> QED
    BY <1>1, <1>3, <1>4, <1>5, <1>6

\* The number of threads a call uses.
LEMMA BusyBounds ==
  ASSUME NEW d \in Nat \ {0}, NEW a \in Nat \ {0}
  PROVE  Busy(d, a) \in Nat /\ Busy(d, a) <= NumThreads
  <1>1. Chunk(d, a) \in Nat \ {0}
    BY ChunkBounds
  <1>2. CeilDiv(d, Chunk(d, a)) \in Nat
    BY CeilDivBounds, <1>1
  <1> QED
    BY <1>2, ThreadsAssumption DEF Busy

\* The bounds of a range are natural numbers.
LEMMA RangeType ==
  ASSUME NEW d \in Nat \ {0}, NEW a \in Nat \ {0}, NEW t \in Nat
  PROVE  Lo(d, a, t) \in Nat /\ Hi(d, a, t) \in Nat
  <1>1. Chunk(d, a) \in Nat
    BY ChunkBounds
  <1>2. t * Chunk(d, a) \in Nat
    BY <1>1
  <1> QED
    BY <1>1, <1>2 DEF Lo, Hi

\* A product of a larger factor is larger.
LEMMA Larger ==
  ASSUME NEW m \in Nat, NEW n \in Nat, NEW c \in Nat, m <= n
  PROVE  m * c <= n * c
  <1>1. n * c = m * c + (n - m) * c /\ (n - m) * c >= 0
    OBVIOUS
  <1>2. n * c \in Int /\ m * c \in Int /\ (n - m) * c \in Int
    OBVIOUS
  <1> QED
    BY <1>1, <1>2

\* Dividing a row by the size of a chunk.
LEMMA ChunkOf ==
  ASSUME NEW a \in Nat, NEW d \in Nat \ {0}
  PROVE  \E q \in Nat : q * d <= a /\ a < (q + 1) * d
  <1>1. a \div d \in Nat /\ a % d \in 0 .. d - 1 /\ a = d * (a \div d) + (a % d)
    OBVIOUS
  <1>2. (a \div d) * d = d * (a \div d) /\ (a \div d + 1) * d = d * (a \div d) + d
    BY <1>1
  <1>3. (a \div d) * d <= a /\ a < (a \div d + 1) * d
    BY <1>1, <1>2
  <1> QED
    BY <1>1, <1>3, Zenon

\* Every row is in the range of a thread the call uses.
LEMMA Partition ==
  ASSUME NEW d \in Nat \ {0}, NEW a \in Nat \ {0}, NEW r \in 0 .. d - 1
  PROVE  \E t \in 0 .. Busy(d, a) - 1 : Lo(d, a, t) <= r /\ r < Hi(d, a, t)
  <1> DEFINE c == Chunk(d, a)
             m == CeilDiv(d, c)
  <1>1. c \in Nat \ {0} /\ d <= NumThreads * c
    BY ChunkBounds
  <1>2. m \in Nat /\ d <= m * c
    BY CeilDivBounds, <1>1
  <1>3. r \in Nat /\ c \in Nat \ {0}
    BY <1>1
  <1>4. PICK q \in Nat : q * c <= r /\ r < (q + 1) * c
    BY <1>3, ChunkOf, Zenon
  <1>5. Busy(d, a) = IF m > NumThreads THEN NumThreads ELSE m
    BY DEF Busy
  <1>6. Lo(d, a, q) = q * c
    BY DEF Lo
  <1>7. Hi(d, a, q) = IF q * c + c > d THEN d ELSE q * c + c
    BY DEF Hi, Lo
  <1> HIDE DEF c, m
  <1>8. (q + 1) * c = q * c + c /\ q * c \in Int
    BY <1>1
  <1>9. q < m
    <2>1. SUFFICES ASSUME m <= q PROVE FALSE
      BY <1>2
    <2>2. m * c <= q * c
      BY <2>1, <1>2, <1>1
    <2>3. m * c \in Int
      BY <1>1, <1>2
    <2> QED
      BY <2>2, <2>3, <1>2, <1>4, <1>8
  <1>10. q < NumThreads
    <2>1. SUFFICES ASSUME NumThreads <= q PROVE FALSE
      BY ThreadsAssumption
    <2>2. NumThreads * c <= q * c
      BY <2>1, <1>1, ThreadsAssumption
    <2>3. NumThreads * c \in Int
      BY <1>1, ThreadsAssumption
    <2> QED
      BY <2>2, <2>3, <1>1, <1>4, <1>8
  <1>11. q \in 0 .. Busy(d, a) - 1
    BY <1>2, <1>5, <1>9, <1>10, ThreadsAssumption
  <1>12. Lo(d, a, q) <= r /\ r < Hi(d, a, q)
    BY <1>4, <1>6, <1>7, <1>8, <1>1
  <1> QED
    BY <1>11, <1>12

-----------------------------------------------------------------------------
(* The inductive invariant.                                                *)

\* Thread t has been given its range of the call in progress.
Given(t) == \/ pc \in {"fill", "clear", "raise"} /\ t < k
            \/ pc = "wait" /\ t < Busy(size, align)

\* The rows of thread t are those of the call in progress.
Written(t) == \A r \in Rows :
                Lo(size, align, t) <= r /\ r < Hi(size, align, t) => out[r] = job

\* A thread that works, or is about to, was given its range in this call.
WorkIsGiven ==
  \A t \in Threads :
    (pcT[t] \in {"work", "signal"} \/ (pcT[t] = "spin" /\ work_ready[t]))
      => Given(t) /\ ~work_done[t]

ItemsCurrent ==
  \A t \in Threads : Given(t) \/ (pc \in {"clear", "raise"} /\ t = k) =>
    item[t] = [job |-> job, lo |-> Lo(size, align, t), hi |-> Hi(size, align, t)]

DoneMeansWritten ==
  \A t \in Threads : (Given(t) /\ work_done[t]) \/ pcT[t] = "signal" => Written(t)

LoopInv ==
  /\ pc \in {"fill", "clear", "raise", "wait"} => size > 0 /\ k <= Busy(size, align)
  /\ pc \in {"clear", "raise"} => k < Busy(size, align)
  /\ pc = "raise" => ~work_done[k]
  /\ pc = "wait" => \A t \in Threads : t < k => work_done[t]

IInv == TypeInv /\ WorkIsGiven /\ ItemsCurrent /\ DoneMeansWritten /\ LoopInv
        /\ ResultComplete

\* The calls the code makes keep the size, so the number of busy threads is one.
LEMMA BusyType ==
  ASSUME TypeInv, size > 0
  PROVE  Busy(size, align) \in Nat /\ Busy(size, align) <= NumThreads
  <1>1. size \in Nat \ {0} /\ align \in Nat \ {0}
    BY DEF TypeInv
  <1> QED
    BY <1>1, BusyBounds

\* The inductive invariant holds in every reachable state.
THEOREM PoolInvariant == Spec => []IInv
  <1>1. Init => IInv
    <2> SUFFICES ASSUME Init PROVE IInv
      OBVIOUS
    <2>1. TypeInv
      <3>1. /\ pc \in Pcs /\ k \in Nat /\ job \in Nat /\ size \in 0 .. MaxRows
            /\ align \in Nat \ {0}
            /\ item \in [Threads -> [job : Nat, lo : Nat, hi : Nat]]
            /\ pcT \in [Threads -> {"spin", "work", "signal", "lower", "gone"}]
            /\ out \in [Rows -> Nat]
        BY JobsAssumption DEF Init, Pcs
      <3>2. work_ready \in [Threads -> BOOLEAN] /\ work_done \in [Threads -> BOOLEAN]
            /\ exit \in BOOLEAN
        BY Zenon DEF Init
      <3> QED
        BY <3>1, <3>2 DEF TypeInv
    <2>2. WorkIsGiven /\ ItemsCurrent /\ DoneMeansWritten /\ LoopInv
      BY DEF Init, WorkIsGiven, ItemsCurrent, DoneMeansWritten, LoopInv, Given
    <2>3. ResultComplete
      BY DEF Init, ResultComplete
    <2> QED
      BY <2>1, <2>2, <2>3 DEF IInv
  <1>2. IInv /\ [Next]_vars => IInv'
    <2> SUFFICES ASSUME IInv, [Next]_vars
                 PROVE  IInv'
      OBVIOUS
    <2> USE DEF IInv
    <2>0. CASE UNCHANGED vars
      BY <2>0 DEF vars, TypeInv, WorkIsGiven, ItemsCurrent, DoneMeansWritten, LoopInv,
         ResultComplete, Given, Written
    <2>1. ASSUME NEW d \in 1 .. MaxRows, NEW a \in Aligns, Call(d, a) PROVE IInv'
      <3>1. TypeInv'
        BY <2>1, JobsAssumption DEF Call, TypeInv, Pcs
      <3>2. WorkIsGiven'
        BY <2>1 DEF Call, Given, WorkIsGiven
      <3>3. ItemsCurrent'
        BY <2>1 DEF Call, Threads, Given, ItemsCurrent
      <3>4. DoneMeansWritten'
        BY <2>1 DEF Call, Threads, Given, WorkIsGiven, DoneMeansWritten
      <3>5. LoopInv'
        <4>1. d \in Nat \ {0} /\ a \in Nat \ {0}
          BY JobsAssumption
        <4>2. Busy(d, a) \in Nat
          BY <4>1, BusyBounds
        <4> QED
          BY <2>1, <4>1, <4>2 DEF Call, LoopInv
      <3>6. ResultComplete'
        BY <2>1 DEF Call, ResultComplete
      <3> QED
        BY <3>1, <3>2, <3>3, <3>4, <3>5, <3>6
    <2>2. CASE Fill
      <3>1. TypeInv'
        <4>1. k \in Threads /\ size \in Nat \ {0} /\ align \in Nat \ {0}
          BY <2>2, BusyType, ThreadsAssumption, SMTT(30) DEF Fill, TypeInv, LoopInv, Threads
        <4>2. Lo(size, align, k) \in Nat /\ Hi(size, align, k) \in Nat
          BY <4>1, RangeType DEF Threads
        <4> QED
          BY <2>2, <4>1, <4>2 DEF Fill, TypeInv, Pcs
      <3>2. WorkIsGiven'
        BY <2>2 DEF Fill, Given, WorkIsGiven
      <3>3. ItemsCurrent'
        BY <2>2 DEF Fill, TypeInv, Given, ItemsCurrent
      <3>4. DoneMeansWritten'
        BY <2>2 DEF Fill, Given, Written, DoneMeansWritten
      <3>5. LoopInv'
        BY <2>2 DEF Fill, LoopInv
      <3>6. ResultComplete'
        BY <2>2 DEF Fill, ResultComplete
      <3> QED
        BY <3>1, <3>2, <3>3, <3>4, <3>5, <3>6
    <2>3. CASE ClearDone
      <3>1. TypeInv'
        BY <2>3, Zenon DEF ClearDone, TypeInv, Pcs
      <3>2. WorkIsGiven'
        BY <2>3 DEF ClearDone, Given, WorkIsGiven
      <3>3. ItemsCurrent'
        BY <2>3 DEF ClearDone, Given, ItemsCurrent
      <3>4. DoneMeansWritten'
        BY <2>3 DEF ClearDone, Given, Written, DoneMeansWritten
      <3>5. LoopInv'
        BY <2>3, ThreadsAssumption, BusyType, SMTT(30) DEF ClearDone, TypeInv, Threads, LoopInv
      <3>6. ResultComplete'
        BY <2>3 DEF ClearDone, ResultComplete
      <3> QED
        BY <3>1, <3>2, <3>3, <3>4, <3>5, <3>6
    <2>4. CASE RaiseReady
      <3>1. TypeInv'
        <4>1. k' \in Nat
          BY <2>4 DEF RaiseReady, TypeInv
        <4>2. work_ready' \in [Threads -> BOOLEAN]
          BY <2>4, Zenon DEF RaiseReady, TypeInv
        <4> QED
          BY <2>4, <4>1, <4>2 DEF RaiseReady, TypeInv, Pcs
      <3>2. WorkIsGiven'
        BY <2>4 DEF RaiseReady, TypeInv, Threads, Given, LoopInv, WorkIsGiven
      <3>3. ItemsCurrent'
        <4> SUFFICES ASSUME NEW t \in Threads,
                            Given(t)' \/ (pc' \in {"clear", "raise"} /\ t = k')
                     PROVE  item'[t] = [job |-> job', lo |-> Lo(size, align, t)',
                                        hi |-> Hi(size, align, t)']
          BY DEF ItemsCurrent
        <4>1. Given(t) \/ t = k
          BY <2>4 DEF RaiseReady, Given, TypeInv, Threads
        <4>2. item[t] = [job |-> job, lo |-> Lo(size, align, t), hi |-> Hi(size, align, t)]
          BY <2>4, <4>1 DEF RaiseReady, ItemsCurrent
        <4> QED
          BY <2>4, <4>2 DEF RaiseReady
      <3>4. DoneMeansWritten'
        <4> SUFFICES ASSUME NEW t \in Threads,
                            (Given(t)' /\ work_done'[t]) \/ pcT'[t] = "signal"
                     PROVE  Written(t)'
          BY DEF DoneMeansWritten
        <4>1. work_done' = work_done /\ pcT' = pcT /\ Written(t)' = Written(t)
          BY <2>4 DEF RaiseReady, Written
        <4>2. CASE t = k
          BY <2>4, <4>1, <4>2 DEF RaiseReady, LoopInv, DoneMeansWritten
        <4>3. CASE t # k
          <5>1. Given(t)' => Given(t)
            BY <2>4, <4>3 DEF RaiseReady, Given, TypeInv, Threads
          <5> QED
            BY <4>1, <5>1 DEF DoneMeansWritten
        <4> QED
          BY <4>2, <4>3
      <3>5. LoopInv'
        BY <2>4, BusyType DEF RaiseReady, TypeInv, LoopInv
      <3>6. ResultComplete'
        BY <2>4 DEF RaiseReady, ResultComplete
      <3> QED
        BY <3>1, <3>2, <3>3, <3>4, <3>5, <3>6
    <2>5. CASE Dispatched
      <3>1. TypeInv'
        BY <2>5 DEF Dispatched, TypeInv, Pcs
      <3>2. WorkIsGiven'
        BY <2>5 DEF Dispatched, Given, WorkIsGiven
      <3>3. ItemsCurrent'
        BY <2>5 DEF Dispatched, Given, ItemsCurrent
      <3>4. DoneMeansWritten'
        BY <2>5 DEF Dispatched, Given, Written, DoneMeansWritten
      <3>5. LoopInv'
        BY <2>5, BusyType DEF Dispatched, Threads, LoopInv
      <3>6. ResultComplete'
        BY <2>5 DEF Dispatched, ResultComplete
      <3> QED
        BY <3>1, <3>2, <3>3, <3>4, <3>5, <3>6
    <2>6. CASE Await
      <3>1. TypeInv'
        <4>1. k' \in Nat
          BY <2>6 DEF Await, TypeInv
        <4> QED
          BY <2>6, <4>1 DEF Await, TypeInv
      <3>2. WorkIsGiven'
        BY <2>6 DEF Await, Given, WorkIsGiven
      <3>3. ItemsCurrent'
        BY <2>6 DEF Await, Given, ItemsCurrent
      <3>4. DoneMeansWritten'
        BY <2>6 DEF Await, Given, Written, DoneMeansWritten
      <3>5. LoopInv'
        BY <2>6, BusyType DEF Await, TypeInv, Threads, LoopInv
      <3>6. ResultComplete'
        BY <2>6 DEF Await, ResultComplete
      <3> QED
        BY <3>1, <3>2, <3>3, <3>4, <3>5, <3>6
    <2>7. CASE Return
      <3>1. TypeInv'
        BY <2>7 DEF Return, TypeInv, Pcs
      <3>2. WorkIsGiven'
        BY <2>7 DEF Return, Given, LoopInv, WorkIsGiven
      <3>3. ItemsCurrent'
        BY <2>7 DEF Return, Given, ItemsCurrent
      <3>4. DoneMeansWritten'
        BY <2>7 DEF Return, Given, Written, DoneMeansWritten
      <3>5. LoopInv'
        BY <2>7 DEF Return, LoopInv
      <3>6. ResultComplete'
        <4> SUFFICES ASSUME NEW r \in 0 .. size - 1
                     PROVE  out[r] = job
          BY <2>7 DEF Return, ResultComplete
        <4>1. size \in Nat \ {0} /\ align \in Nat \ {0} /\ r \in Rows
          BY <2>7, JobsAssumption DEF TypeInv, Rows
        <4>2. PICK t \in 0 .. Busy(size, align) - 1 :
                Lo(size, align, t) <= r /\ r < Hi(size, align, t)
          BY <4>1, Partition, Zenon
        <4>3. t \in Threads /\ t < Busy(size, align)
          BY <4>1, BusyType, ThreadsAssumption DEF Threads
        <4>4. work_done[t] /\ Given(t)
          BY <2>7, <4>3 DEF Return, LoopInv, Given
        <4> QED
          BY <4>1, <4>2, <4>3, <4>4 DEF DoneMeansWritten, Written
      <3> QED
        BY <3>1, <3>2, <3>3, <3>4, <3>5, <3>6
    <2>8. CASE Shutdown
      <3>1. TypeInv'
        BY <2>8 DEF Shutdown, TypeInv, Pcs
      <3>2. WorkIsGiven'
        BY <2>8 DEF Shutdown, Given, WorkIsGiven
      <3>3. ItemsCurrent'
        BY <2>8 DEF Shutdown, Given, ItemsCurrent
      <3>4. DoneMeansWritten'
        BY <2>8 DEF Shutdown, Given, Written, DoneMeansWritten
      <3>5. LoopInv'
        BY <2>8 DEF Shutdown, LoopInv
      <3>6. ResultComplete'
        BY <2>8 DEF Shutdown, ResultComplete
      <3> QED
        BY <3>1, <3>2, <3>3, <3>4, <3>5, <3>6
    <2>9. CASE Join
      <3>1. TypeInv'
        BY <2>9 DEF Join, TypeInv, Pcs
      <3>2. WorkIsGiven'
        BY <2>9, SMTT(30) DEF Join, WorkIsGiven
      <3>3. ItemsCurrent'
        BY <2>9 DEF Join, Given, ItemsCurrent
      <3>4. DoneMeansWritten'
        BY <2>9 DEF Join, Given, DoneMeansWritten
      <3>5. LoopInv'
        BY <2>9 DEF Join, LoopInv
      <3>6. ResultComplete'
        BY <2>9 DEF Join, ResultComplete
      <3> QED
        BY <3>1, <3>2, <3>3, <3>4, <3>5, <3>6
    <2>10. ASSUME NEW t \in Threads, Wake(t) PROVE IInv'
      <3>1. TypeInv'
        BY <2>10 DEF Wake, TypeInv
      <3>2. WorkIsGiven'
        BY <2>10 DEF Wake, Given, WorkIsGiven
      <3>3. ItemsCurrent'
        BY <2>10 DEF Wake, Given, ItemsCurrent
      <3>4. DoneMeansWritten'
        BY <2>10 DEF Wake, Given, Written, DoneMeansWritten
      <3>5. LoopInv'
        BY <2>10 DEF Wake, LoopInv
      <3>6. ResultComplete'
        BY <2>10 DEF Wake, ResultComplete
      <3> QED
        BY <3>1, <3>2, <3>3, <3>4, <3>5, <3>6
    <2>11. ASSUME NEW t \in Threads, Leave(t) PROVE IInv'
      <3>1. TypeInv'
        BY <2>11 DEF Leave, TypeInv
      <3>2. WorkIsGiven'
        BY <2>11 DEF Leave, Given, WorkIsGiven
      <3>3. ItemsCurrent'
        BY <2>11 DEF Leave, Given, ItemsCurrent
      <3>4. DoneMeansWritten'
        BY <2>11 DEF Leave, Given, Written, DoneMeansWritten
      <3>5. LoopInv'
        BY <2>11 DEF Leave, LoopInv
      <3>6. ResultComplete'
        BY <2>11 DEF Leave, ResultComplete
      <3> QED
        BY <3>1, <3>2, <3>3, <3>4, <3>5, <3>6
    <2>12. ASSUME NEW t \in Threads, Compute(t) PROVE IInv'
      <3>1. TypeInv'
        BY <2>12 DEF Compute, TypeInv
      <3>2. WorkIsGiven'
        BY <2>12 DEF Compute, Given, WorkIsGiven
      <3>3. ItemsCurrent'
        BY <2>12 DEF Compute, Given, ItemsCurrent
      <3>4. DoneMeansWritten'
        <4>1. Given(t) /\ item[t] = [job |-> job, lo |-> Lo(size, align, t),
                                     hi |-> Hi(size, align, t)]
          BY <2>12, SMTT(30) DEF Compute, WorkIsGiven, ItemsCurrent
        <4> SUFFICES ASSUME NEW u \in Threads, NEW r \in Rows,
                            (Given(u)' /\ work_done'[u]) \/ pcT'[u] = "signal",
                            Lo(size, align, u) <= r, r < Hi(size, align, u)
                     PROVE  out'[r] = job
          BY <2>12 DEF Compute, DoneMeansWritten, Written
        <4>2. Given(u)' = Given(u)
          BY <2>12 DEF Compute, Given
        <4>3. out'[r] = IF Lo(size, align, t) <= r /\ r < Hi(size, align, t) THEN job
                        ELSE out[r]
          BY <2>12, <4>1, SMTT(30) DEF Compute
        <4>4. CASE u = t
          BY <4>3, <4>4
        <4>5. CASE u # t
          <5>1. (Given(u) /\ work_done[u]) \/ pcT[u] = "signal"
            BY <2>12, <4>2, <4>5 DEF Compute
          <5>2. out[r] = job
            BY <5>1 DEF DoneMeansWritten, Written
          <5> QED
            BY <4>3, <5>2, SMTT(30)
        <4> QED
          BY <4>4, <4>5, SMTT(30)
      <3>5. LoopInv'
        BY <2>12 DEF Compute, LoopInv
      <3>6. ResultComplete'
        BY <2>12 DEF Compute, ResultComplete, WorkIsGiven, Given
      <3> QED
        BY <3>1, <3>2, <3>3, <3>4, <3>5, <3>6
    <2>13. ASSUME NEW t \in Threads, SignalDone(t) PROVE IInv'
      <3>1. TypeInv'
        BY <2>13 DEF SignalDone, TypeInv
      <3>2. WorkIsGiven'
        BY <2>13, SMTT(30) DEF SignalDone, TypeInv, Given, WorkIsGiven
      <3>3. ItemsCurrent'
        BY <2>13 DEF SignalDone, Given, ItemsCurrent
      <3>4. DoneMeansWritten'
        BY <2>13 DEF SignalDone, Given, Written, DoneMeansWritten
      <3>5. LoopInv'
        <4>1. Given(t)
          BY <2>13 DEF SignalDone, WorkIsGiven
        <4>2. pc = "raise" => t # k
          BY <4>1 DEF Given, Threads
        <4> QED
          BY <2>13, <4>2 DEF SignalDone, LoopInv
      <3>6. ResultComplete'
        BY <2>13 DEF SignalDone, ResultComplete
      <3> QED
        BY <3>1, <3>2, <3>3, <3>4, <3>5, <3>6
    <2>14. ASSUME NEW t \in Threads, LowerReady(t) PROVE IInv'
      <3>1. TypeInv'
        BY <2>14 DEF LowerReady, TypeInv
      <3>2. WorkIsGiven'
        BY <2>14, SMTT(30) DEF LowerReady, TypeInv, Given, WorkIsGiven
      <3>3. ItemsCurrent'
        BY <2>14 DEF LowerReady, Given, ItemsCurrent
      <3>4. DoneMeansWritten'
        BY <2>14 DEF LowerReady, Given, Written, DoneMeansWritten
      <3>5. LoopInv'
        BY <2>14 DEF LowerReady, LoopInv
      <3>6. ResultComplete'
        BY <2>14 DEF LowerReady, ResultComplete
      <3> QED
        BY <3>1, <3>2, <3>3, <3>4, <3>5, <3>6
    <2> QED
      BY <2>0, <2>1, <2>2, <2>3, <2>4, <2>5, <2>6, <2>7, <2>8, <2>9, <2>10, <2>11,
         <2>12, <2>13, <2>14 DEF Next, Caller, Worker
  <1> QED
    BY <1>1, <1>2, PTL DEF Spec

\* What matmul and multihead_attention return is complete, for every number of
\* threads and every sequence of calls.
THEOREM CallsComplete == Spec => []ResultComplete
  BY PoolInvariant, PTL DEF IInv

-----------------------------------------------------------------------------
(* RpcCall: the answer taken is the answer to this call.                   *)

\* A datagram under the xid of the call it belongs to; a reply only to a call
\* that was executed.
Datagrams ==
  [mtype : {"CALL"}, xid : Nat, n : Nat]
    \cup [mtype : {"REPLY"}, xid : Nat, n : Nat, stat : Stats \cup {"denied"}]

NetInv ==
  /\ net \subseteq Datagrams
  /\ \A m \in net : m.xid = m.n /\ m.n \in 1 .. call.n
  /\ \A m \in net : m.mtype = "REPLY" => m.n \in executed

\* Xids are drawn in step with the calls; with rpc_call idle the xid is that of
\* the last call, or 0.
CallInv ==
  /\ call \in [n : Nat, xid : Nat, attempt : Nat, remaining : Int, pc : {"idle", "send", "recv"}]
  /\ g_xid = call.n + 1
  /\ call.xid = call.n
  /\ call.pc # "idle" => call.n > 0

\* The inductive invariant behind AnswerIsOwn.
AnswerInv == CallInv /\ NetInv /\ AnswerIsOwn
-----------------------------------------------------------------------------
\* What rpc_recv does with a datagram off the network.
LEMMA ReceiveKeeps ==
  ASSUME AnswerInv, NEW m \in Datagrams \cup {[mtype |-> "malformed"]} \cup [mtype : {"CALL"}, xid : Nat, n : {0}],
         rpc_recv(m), net' \subseteq net,
         m.mtype = "REPLY" => m \in net
  PROVE AnswerInv'
<1>1. UNCHANGED <<g_xid, executed>>
  BY DEF rpc_recv
<1>2. CASE m.mtype = "CALL" \/ (m.mtype = "REPLY" /\ m.xid # call.xid)
  <2>1. Passed
    BY <1>2, Zenon DEF rpc_recv
  <2> QED BY <1>1, <2>1 DEF Passed, AnswerInv, CallInv, NetInv, AnswerIsOwn
<1>3. CASE m.mtype = "REPLY" /\ m.xid = call.xid
  <2>1. Matched(m)
    BY <1>3, Zenon DEF rpc_recv
  <2>2. m.n = call.n /\ m.n \in executed
    BY <1>3 DEF AnswerInv, CallInv, NetInv
  <2>3. \E ret : CallReturn(ret, m.n)
    BY <2>1, Zenon DEF Matched
  <2> QED BY <1>1, <2>2, <2>3 DEF CallReturn, AnswerInv, CallInv, NetInv, AnswerIsOwn
<1>4. CASE m.mtype = "malformed"
  <2>1. CallReturn("RPC_ERR_DECODE", 0)
    BY <1>4, Zenon DEF rpc_recv
  <2> QED BY <1>1, <2>1 DEF CallReturn, AnswerInv, CallInv, NetInv, AnswerIsOwn
<1> QED
  BY <1>2, <1>3, <1>4 DEF Datagrams

LEMMA AnswerInit == CallInit => AnswerInv
  BY DEF CallInit, AnswerInv, CallInv, NetInv, AnswerIsOwn

LEMMA AnswerStep ==
  ASSUME AnswerInv, [CallNext]_callVars
  PROVE AnswerInv'
<1>1. CASE rpc_call
  BY <1>1 DEF rpc_call, rpc_next_xid, AnswerInv, CallInv, NetInv, AnswerIsOwn, Datagrams
<1>2. CASE Send
  <2>1. CASE \E ret : CallReturn(ret, 0) /\ UNCHANGED <<g_xid, net, executed>>
    BY <2>1 DEF CallReturn, AnswerInv, CallInv, NetInv, AnswerIsOwn
  <2>2. CASE /\ net' = net \cup {[mtype |-> "CALL", xid |-> call.xid, n |-> call.n]}
             /\ call.pc = "send" /\ call' = [call EXCEPT !.pc = "recv", !.attempt = @ + 1, !.remaining = Drains]
             /\ UNCHANGED <<g_xid, executed, result>>
    <3>1. call' = [n |-> call.n, xid |-> call.xid, attempt |-> call.attempt + 1, remaining |-> Drains, pc |-> "recv"]
      BY <2>2, Zenon DEF AnswerInv, CallInv
    <3>2. CallInv' /\ AnswerIsOwn' /\ call'.n = call.n /\ call.n > 0
      BY <2>2, <3>1, DrainsAssumption, SMTT(30) DEF AnswerInv, CallInv, AnswerIsOwn
    <3> QED BY <2>2, <3>1, <3>2 DEF AnswerInv, CallInv, NetInv, Datagrams
  <2> QED BY <1>2, <2>1, <2>2, Zenon DEF Send
<1>3. CASE Receive
  <2>1. ASSUME NEW m \in net, m.mtype = "REPLY", net' = net \ {m}, rpc_recv(m) PROVE AnswerInv'
    BY <2>1, ReceiveKeeps DEF AnswerInv, NetInv
  <2>2. ASSUME NEW x \in {call.xid, call.xid + 1}, rpc_recv([mtype |-> "CALL", xid |-> x, n |-> 0]), UNCHANGED net
        PROVE AnswerInv'
    <3>1. [mtype |-> "CALL", xid |-> x, n |-> 0] \in [mtype : {"CALL"}, xid : Nat, n : {0}]
      BY <2>2 DEF AnswerInv, CallInv
    <3> QED BY <2>2, <3>1, ReceiveKeeps
  <2>3. ASSUME rpc_recv([mtype |-> "malformed"]), UNCHANGED net PROVE AnswerInv'
    BY <2>3, ReceiveKeeps
  <2> QED BY <1>3, <2>1, <2>2, <2>3 DEF Receive
<1>4. CASE Retry
  BY <1>4, SMTT(30) DEF Retry, AnswerInv, CallInv, NetInv, AnswerIsOwn
<1>5. CASE Serve
  <2>1. PICK m \in net, stat \in Stats \cup {"denied"} :
          /\ m.mtype = "CALL"
          /\ net' = (net \ {m}) \cup {[mtype |-> "REPLY", xid |-> m.xid, n |-> m.n, stat |-> stat]}
          /\ executed' = executed \cup {m.n}
          /\ UNCHANGED <<g_xid, call, result>>
    BY <1>5 DEF Serve
  <2>2. m.xid \in Nat /\ m.n \in Nat
    BY <2>1 DEF AnswerInv, NetInv, Datagrams
  <2> QED BY <2>1, <2>2 DEF AnswerInv, CallInv, NetInv, AnswerIsOwn, Datagrams
<1>6. CASE Lose
  BY <1>6 DEF Lose, AnswerInv, CallInv, NetInv, AnswerIsOwn
<1>7. CASE UNCHANGED callVars
  BY <1>7 DEF callVars, AnswerInv, CallInv, NetInv, AnswerIsOwn
<1> QED
  BY <1>1, <1>2, <1>3, <1>4, <1>5, <1>6, <1>7 DEF CallNext, CallingNode

\* rpc.c:523-540: whatever is lost, delayed, overtaken or sent by others, and
\* however often a call is repeated, an answer that rpc_call returns is the
\* callee's answer to that call.
THEOREM AnswersOwn == CallSpec => []AnswerIsOwn
<1>1. AnswerInv /\ [CallNext]_callVars => AnswerInv'
  BY AnswerStep
<1>2. AnswerInv => AnswerIsOwn
  BY DEF AnswerInv
<1> QED
  BY AnswerInit, <1>1, <1>2, PTL DEF CallSpec

-----------------------------------------------------------------------------
(* Mailbox: the hand-overs from the listen to the inference thread.        *)

ListenIn == lpc \in {"fill", "unlock"}
InferIn == ipc \in {"drain", "unlock"}

\* The inference thread holds a drained hop it has not forwarded.
Holding == ipc = "forward" \/ (ipc = "unlock" /\ iw = Words)

MailboxExclusive ==
  /\ ListenIn \/ InferIn => mutex = 1
  /\ ~ (ListenIn /\ InferIn)

\* A parked hop is forwarded, held or in the mailbox.
Conserved ==
  Len(committed) = Len(served) + (IF Holding THEN 1 ELSE 0) + have_hop

BeingFilled ==
  /\ lpc \in {"check", "lock"} => lw = 0
  /\ lpc = "fill" => have_hop = 0 /\ \A w \in 1 .. lw : activation[w] = lval

Parked ==
  have_hop = 1 => activation = Filled(committed[Len(committed)])

Draining ==
  ipc = "drain" => have_hop = 1 /\ \A w \in 1 .. iw : compute[w] = activation[w]

Held ==
  Holding => compute = Filled(committed[Len(served) + 1])

Past ==
  \A j \in 1 .. Len(served) : served[j] = Filled(committed[j])

HopInv == MailboxExclusive /\ Conserved /\ BeingFilled /\ Parked /\ Draining /\ Held /\ Past

\* What makes a hop safe to serve, whoever wrote ready last.
ReadyInv == ready = 1 \/ ipc \in {"ready", "lock", "drain", "unlock", "forward"} => shard

LEMMA LengthsAreNumbers == MailboxTypeInv => Len(served) \in Nat /\ Len(committed) \in Nat
  BY DEF MailboxTypeInv

LEMMA MailboxInitInv == MailboxInit => MailboxTypeInv /\ HopInv
<1> SUFFICES ASSUME MailboxInit PROVE MailboxTypeInv /\ HopInv
  OBVIOUS
<1>1. MailboxTypeInv
  BY WordsAssumption DEF MailboxInit, MailboxTypeInv, Flag, Value
<1>2. MailboxExclusive /\ BeingFilled /\ Parked /\ Draining
  BY DEF MailboxInit, MailboxExclusive, BeingFilled, Parked, Draining, ListenIn, InferIn
<1>3. ~ Holding
  BY DEF MailboxInit, Holding
<1>4. Conserved /\ Held /\ Past
  BY <1>3 DEF MailboxInit, Conserved, Held, Past
<1> QED
  BY <1>1, <1>2, <1>4 DEF HopInv

\* The steps that leave the activation mailbox and the private copy alone.
Quiet ==
  \/ AssignArrives \/ AssignWord \/ Refuse \/ Post \/ Reply
  \/ (\E h \in Hops : HopArrives(h)) \/ CheckSeq
  \/ SeeAssignment \/ CopyWord \/ ClearFlag \/ ReleaseShard \/ LoadFails \/ Load \/ SetReady \/ SeeHop

LEMMA StepType == MailboxTypeInv /\ [MailboxNext]_mailboxVars => MailboxTypeInv'
<1> SUFFICES ASSUME MailboxTypeInv, [MailboxNext]_mailboxVars PROVE MailboxTypeInv'
  OBVIOUS
<1> USE DEF MailboxTypeInv
<1>1. CASE AssignArrives
  BY <1>1, WordsAssumption DEF AssignArrives, hopVars, inferVars
<1>2. CASE AssignWord
  BY <1>2, WordsAssumption DEF AssignWord, hopVars, inferVars
<1>3. CASE Refuse \/ Post \/ Reply
  BY <1>3, Zenon DEF Refuse, Post, Reply, hopVars, inferVars
<1>4. CASE CheckSeq
  <2>1. lpc' \in {"lock", "idle"} /\ lpc = "check" /\ UNCHANGED <<hopVars, inferVars, lval, lw, committed>>
    BY <1>4 DEF CheckSeq
  <2> QED
    BY <2>1 DEF hopVars, inferVars
<1>5. ASSUME NEW h \in Hops, HopArrives(h) PROVE MailboxTypeInv'
  BY <1>5, WordsAssumption DEF HopArrives, hopVars, inferVars
<1>6. CASE ListenLock \/ ListenUnlock
  BY <1>6, Zenon DEF ListenLock, ListenUnlock, inferVars, Flag
<1>7. CASE FillWord
  BY <1>7, WordsAssumption DEF FillWord, inferVars, Value, Word
<1>8. CASE Commit
  BY <1>8 DEF Commit, inferVars, Flag
<1>9. CASE SeeAssignment
  BY <1>9, WordsAssumption DEF SeeAssignment, hopVars, listenVars
<1>10. CASE CopyWord
  BY <1>10, WordsAssumption DEF CopyWord, hopVars, listenVars
<1>11. CASE ClearFlag \/ ReleaseShard \/ LoadFails \/ Load \/ SetReady \/ SeeHop
  BY <1>11, Zenon DEF ClearFlag, ReleaseShard, LoadFails, Load, SetReady, SeeHop, hopVars, listenVars
<1>12. CASE InferLock
  BY <1>12, WordsAssumption DEF InferLock, listenVars, Flag
<1>13. CASE Drained
  BY <1>13 DEF Drained, listenVars, Flag
<1>14. CASE InferUnlock
  BY <1>14 DEF InferUnlock, listenVars, Flag
<1>15. CASE DrainWord
  BY <1>15, WordsAssumption DEF DrainWord, hopVars, listenVars, Word
<1>16. CASE Forward
  BY <1>16 DEF Forward, hopVars, listenVars
<1>17. CASE UNCHANGED mailboxVars
  BY <1>17 DEF mailboxVars, hopVars, listenVars, inferVars
<1> QED
  BY <1>1, <1>2, <1>3, <1>4, <1>5, <1>6, <1>7, <1>8, <1>9, <1>10, <1>11, <1>12, <1>13, <1>14, <1>15,
     <1>16, <1>17, ZenonT(30) DEF MailboxNext, MailboxListen, Infer

LEMMA QuietHop == MailboxTypeInv /\ HopInv /\ (Quiet \/ UNCHANGED mailboxVars) => HopInv'
<1> SUFFICES ASSUME MailboxTypeInv, HopInv, Quiet \/ UNCHANGED mailboxVars PROVE HopInv'
  OBVIOUS
<1>1. /\ UNCHANGED <<have_hop, activation, mutex, compute, committed, served>>
      /\ lpc' = "fill" => lpc = "fill" /\ lw' = lw /\ lval' = lval
      /\ lpc' \in {"check", "lock"} => lw' = 0
      /\ ListenIn' => ListenIn
      /\ InferIn' <=> InferIn
      /\ ipc' = "drain" <=> ipc = "drain"
      /\ Holding' <=> Holding
      /\ ipc' = "drain" => iw' = iw
  <2>1. CASE \/ AssignArrives \/ AssignWord \/ Refuse \/ Post \/ Reply \/ CheckSeq
             \/ (\E h \in Hops : HopArrives(h))
    BY <2>1, Zenon DEF AssignArrives, AssignWord, Refuse, Post, Reply, CheckSeq, HopArrives, hopVars, inferVars,
       ListenIn, InferIn, Holding, HopInv, BeingFilled
  <2>2. CASE \/ SeeAssignment \/ CopyWord \/ ClearFlag \/ ReleaseShard \/ LoadFails \/ Load \/ SetReady \/ SeeHop
    BY <2>2, Zenon DEF SeeAssignment, CopyWord, ClearFlag, ReleaseShard, LoadFails, Load, SetReady, SeeHop,
       hopVars, listenVars, ListenIn, InferIn, Holding, HopInv, BeingFilled
  <2>3. CASE UNCHANGED mailboxVars
    BY <2>3 DEF mailboxVars, hopVars, listenVars, inferVars, ListenIn, InferIn, Holding, HopInv, BeingFilled
  <2> QED
    BY <2>1, <2>2, <2>3, Zenon DEF Quiet
<1>2. MailboxExclusive' /\ Conserved'
  BY <1>1, SMTT(30) DEF HopInv, MailboxExclusive, Conserved
<1>3. Held' /\ Past'
  BY <1>1, SMTT(30) DEF HopInv, Held, Past, Filled
<1>4. BeingFilled'
  BY <1>1, SMTT(30) DEF HopInv, BeingFilled, Filled
<1>5. Parked' /\ Draining'
  BY <1>1, SMTT(30) DEF HopInv, Parked, Draining, Filled
<1> QED
  BY <1>2, <1>3, <1>4, <1>5 DEF HopInv

\* The steps of the two critical sections and the forward pass
\* (distinf.c:507-516, 674-686).
LEMMA StepHop == MailboxTypeInv /\ HopInv /\ [MailboxNext]_mailboxVars => HopInv'
<1> SUFFICES ASSUME MailboxTypeInv, HopInv, [MailboxNext]_mailboxVars PROVE HopInv'
  OBVIOUS
<1> USE DEF HopInv
<1>0. Len(served) \in Nat /\ Len(committed) \in Nat /\ Words \in Nat \ {0}
  BY LengthsAreNumbers, WordsAssumption
<1>1. CASE ListenLock \/ ListenUnlock
  <2>1. UNCHANGED <<have_hop, activation, compute, committed, served, ipc, iw, lw, lval>>
    BY <1>1, Zenon DEF ListenLock, ListenUnlock, inferVars
  <2>2. MailboxExclusive'
    BY <1>1, <2>1 DEF ListenLock, ListenUnlock, MailboxExclusive, ListenIn, InferIn
  <2>3. BeingFilled'
    <3>1. CASE ListenLock
      <4>1. lpc' = "fill" => lw = 0 /\ have_hop = 0
        BY <3>1 DEF ListenLock, MailboxTypeInv, Flag, BeingFilled
      <4>2. lpc' \notin {"check", "lock"}
        BY <3>1 DEF ListenLock
      <4> QED
        BY <2>1, <4>1, <4>2 DEF BeingFilled
    <3>2. CASE ListenUnlock
      BY <3>2 DEF ListenUnlock, BeingFilled
    <3> QED
      BY <1>1, <3>1, <3>2
  <2>4. Conserved' /\ Parked' /\ Draining' /\ Held' /\ Past'
    BY <2>1 DEF Conserved, Parked, Draining, Held, Past, Holding, Filled
  <2> QED
    BY <2>2, <2>3, <2>4
<1>2. CASE FillWord
  <2>1. /\ UNCHANGED <<have_hop, mutex, compute, committed, served, lpc, ipc, iw, lval>>
        /\ lpc = "fill" /\ have_hop = 0 /\ lw \in Nat /\ lw' = lw + 1 /\ lw + 1 \in Word
        /\ \A w \in Word : activation'[w] = IF w = lw + 1 THEN lval ELSE activation[w]
    BY <1>2, <1>0 DEF FillWord, inferVars, MailboxTypeInv, Word, BeingFilled
  <2>2. ipc # "drain"
    BY <2>1 DEF MailboxExclusive, ListenIn, InferIn
  <2>3. BeingFilled'
    <3> SUFFICES ASSUME NEW w \in 1 .. lw' PROVE activation'[w] = lval
      BY <2>1 DEF BeingFilled
    <3>1. w \in Word /\ (w = lw + 1 \/ w \in 1 .. lw)
      BY <2>1, <1>0, SMTT(30) DEF Word
    <3> QED
      BY <2>1, <3>1 DEF BeingFilled
  <2>4. MailboxExclusive' /\ Conserved' /\ Parked' /\ Draining' /\ Held' /\ Past'
    BY <2>1, <2>2 DEF MailboxExclusive, Conserved, Parked, Draining, Held, Past, Holding, Filled, ListenIn, InferIn
  <2> QED
    BY <2>3, <2>4
<1>3. CASE Commit
  <2>1. /\ UNCHANGED <<activation, mutex, compute, served, ipc, iw, lw, lval>>
        /\ lpc = "fill" /\ lpc' = "unlock" /\ have_hop = 0 /\ have_hop' = 1 /\ lw = Words
        /\ lval \in Hops /\ committed' = Append(committed, lval)
    BY <1>3 DEF Commit, inferVars, MailboxTypeInv, BeingFilled
  <2>2. ipc # "drain"
    BY <2>1, SMTT(30) DEF MailboxExclusive, ListenIn, InferIn
  <2>3. /\ Len(committed') = Len(committed) + 1
        /\ committed'[Len(committed) + 1] = lval
        /\ \A j \in 1 .. Len(committed) : committed'[j] = committed[j]
    BY <2>1 DEF MailboxTypeInv
  <2>4. Holding' <=> Holding
    BY <2>1 DEF Holding
  <2>5. activation = Filled(lval)
    BY <2>1 DEF BeingFilled, MailboxTypeInv, Filled, Word
  <2>6. MailboxExclusive' /\ BeingFilled' /\ Draining'
    BY <2>1, <2>2, SMTT(30) DEF MailboxExclusive, BeingFilled, Draining, ListenIn, InferIn
  <2>7. Conserved'
    BY <2>1, <2>3, <2>4, <1>0 DEF Conserved
  <2>8. Parked'
    BY <2>1, <2>3, <2>5 DEF Parked, Filled
  <2>9. Held'
    <3> SUFFICES ASSUME Holding PROVE compute = Filled(committed'[Len(served) + 1])
      BY <2>1, <2>4, Zenon DEF Held, Filled
    <3>1. Len(served) + 1 \in 1 .. Len(committed)
      BY <2>1, <1>0 DEF Conserved
    <3> QED
      BY <2>3, <3>1 DEF Held
  <2>10. Past'
    <3>1. \A j \in 1 .. Len(served) : j \in 1 .. Len(committed)
      BY <2>1, <1>0 DEF Conserved
    <3> QED
      BY <2>1, <2>3, <3>1, ZenonT(30) DEF Past, Filled
  <2> QED
    BY <2>6, <2>7, <2>8, <2>9, <2>10
<1>4. CASE InferLock
  <2>1. /\ UNCHANGED <<have_hop, activation, compute, committed, served, lpc, lw, lval>>
        /\ ipc = "lock" /\ mutex = 0 /\ mutex' = 1 /\ iw' = 0
        /\ ipc' = "drain" \/ ipc' = "unlock"
        /\ ipc' = "drain" => have_hop = 1
    BY <1>4 DEF InferLock, listenVars
  <2>2. ~ Holding /\ ~ Holding'
    BY <2>1, <1>0 DEF Holding
  <2>3. MailboxExclusive' /\ BeingFilled' /\ Parked' /\ Draining'
    BY <2>1, SMTT(30) DEF MailboxExclusive, BeingFilled, Parked, Draining, ListenIn, InferIn, Filled
  <2>4. Conserved' /\ Held' /\ Past'
    BY <2>1, <2>2 DEF Conserved, Held, Past, Filled
  <2> QED
    BY <2>3, <2>4
<1>5. CASE DrainWord
  <2>1. /\ UNCHANGED <<have_hop, activation, mutex, committed, served, lpc, lw, lval, ipc>>
        /\ ipc = "drain" /\ iw \in Nat /\ iw' = iw + 1 /\ iw + 1 \in Word
        /\ \A w \in Word : compute'[w] = IF w = iw + 1 THEN activation[w] ELSE compute[w]
    BY <1>5, <1>0 DEF DrainWord, hopVars, listenVars, MailboxTypeInv, Word
  <2>2. ~ Holding /\ ~ Holding'
    BY <2>1, ZenonT(30) DEF Holding
  <2>3. Draining'
    <3> SUFFICES ASSUME NEW w \in 1 .. iw' PROVE compute'[w] = activation[w]
      BY <2>1, SMTT(30) DEF Draining
    <3>1. w \in Word /\ (w = iw + 1 \/ w \in 1 .. iw)
      BY <2>1, <1>0, SMTT(30) DEF Word
    <3> QED
      BY <2>1, <3>1, SMTT(30) DEF Draining
  <2>4. MailboxExclusive' /\ BeingFilled' /\ Parked'
    BY <2>1, SMTT(30) DEF MailboxExclusive, BeingFilled, Parked, ListenIn, InferIn, Filled
  <2>5. Conserved' /\ Held' /\ Past'
    BY <2>1, <2>2, SMTT(30) DEF Conserved, Held, Past, Filled
  <2> QED
    BY <2>3, <2>4, <2>5
<1>6. CASE Drained
  <2>1. /\ UNCHANGED <<activation, mutex, compute, committed, served, lpc, lw, lval, iw>>
        /\ ipc = "drain" /\ ipc' = "unlock" /\ iw = Words /\ have_hop = 1 /\ have_hop' = 0
    BY <1>6, ZenonT(30) DEF Drained, listenVars, Draining
  <2>2. ~ Holding /\ Holding'
    BY <2>1 DEF Holding
  <2>3. compute = activation
    BY <2>1 DEF Draining, MailboxTypeInv, Word
  <2>4. Len(committed) = Len(served) + 1
    BY <2>1, <2>2, <1>0 DEF Conserved
  <2>5. Conserved' /\ Held' /\ Past'
    BY <2>1, <2>2, <2>3, <2>4, <1>0, SMTT(30) DEF Conserved, Held, Past, Parked, Filled
  <2>6. MailboxExclusive' /\ BeingFilled' /\ Parked' /\ Draining'
    BY <2>1 DEF MailboxExclusive, BeingFilled, Parked, Draining, ListenIn, InferIn
  <2> QED
    BY <2>5, <2>6
<1>7. CASE InferUnlock
  <2>1. /\ UNCHANGED <<have_hop, activation, compute, committed, served, lpc, lw, lval, iw>>
        /\ ipc = "unlock" /\ ipc' = IF iw = Words THEN "forward" ELSE "idle"
    BY <1>7 DEF InferUnlock, listenVars
  <2>2. Holding' <=> Holding
    BY <2>1 DEF Holding
  <2>3. MailboxExclusive' /\ BeingFilled' /\ Parked' /\ Draining'
    BY <2>1, SMTT(30) DEF MailboxExclusive, BeingFilled, Parked, Draining, ListenIn, InferIn, Filled
  <2>4. Conserved' /\ Held' /\ Past'
    BY <2>1, <2>2 DEF Conserved, Held, Past, Filled
  <2> QED
    BY <2>3, <2>4
<1>8. CASE Forward
  <2>1. /\ UNCHANGED <<have_hop, activation, mutex, compute, committed, lpc, lw, lval, iw>>
        /\ ipc = "forward" /\ ipc' = "idle" /\ served' = Append(served, compute)
    BY <1>8 DEF Forward, hopVars, listenVars
  <2>2. Holding /\ ~ Holding'
    BY <2>1 DEF Holding
  <2>3. /\ Len(served') = Len(served) + 1
        /\ served'[Len(served) + 1] = compute
        /\ \A j \in 1 .. Len(served) : served'[j] = served[j]
    BY <2>1 DEF MailboxTypeInv
  <2>4. MailboxExclusive' /\ BeingFilled' /\ Parked' /\ Draining' /\ Held'
    BY <2>1, <2>2, SMTT(30) DEF MailboxExclusive, BeingFilled, Parked, Draining, Held, ListenIn, InferIn, Filled
  <2>5. Conserved'
    BY <2>1, <2>2, <2>3, <1>0 DEF Conserved
  <2>6. Past'
    <3> SUFFICES ASSUME NEW j \in 1 .. Len(served') PROVE served'[j] = Filled(committed[j])
      BY <2>1, Zenon DEF Past, Filled
    <3>1. j = Len(served) + 1 \/ j \in 1 .. Len(served)
      BY <2>3, <1>0
    <3> QED
      BY <2>2, <2>3, <3>1, Zenon DEF Past, Held
  <2> QED
    BY <2>4, <2>5, <2>6
<1>9. CASE Quiet \/ UNCHANGED mailboxVars
  BY <1>9, QuietHop
<1> QED
  BY <1>1, <1>2, <1>3, <1>4, <1>5, <1>6, <1>7, <1>8, <1>9 DEF MailboxNext, MailboxListen, Infer, Quiet

\* The mailbox invariant holds always (distinf.c:507-516, 674-686).
THEOREM MailboxInvariant == MailboxSpec => [](MailboxTypeInv /\ HopInv)
<1>1. MailboxInit => MailboxTypeInv /\ HopInv
  BY MailboxInitInv
<1>2. (MailboxTypeInv /\ HopInv) /\ [MailboxNext]_mailboxVars => (MailboxTypeInv /\ HopInv)'
  BY StepType, StepHop
<1> QED
  BY <1>1, <1>2, PTL DEF MailboxSpec

\* The hops forwarded are the hops parked, whole, in their order, each once
\* (distinf.c:303-314).
THEOREM HandedOverIntact == MailboxSpec => []ServedAsCommitted
<1>1. MailboxTypeInv /\ HopInv => ServedAsCommitted
  <2> SUFFICES ASSUME MailboxTypeInv, HopInv PROVE Len(served) <= Len(committed) /\ Past
    BY DEF ServedAsCommitted, Past
  <2>1. have_hop \in {0, 1}
    BY DEF MailboxTypeInv, Flag
  <2> QED
    BY <2>1, LengthsAreNumbers DEF HopInv, Conserved
<1> QED
  BY <1>1, MailboxInvariant, PTL

\* No hop is served on a shard that is released, half loaded or failed to load
\* (distinf.c:430-432, 460-461).
THEOREM NothingServedUnloaded == MailboxSpec => []ServesLoaded
<1>1. MailboxInit => ReadyInv
  BY DEF MailboxInit, ReadyInv
<1>2. ReadyInv /\ [MailboxNext]_mailboxVars => ReadyInv'
  <2> SUFFICES ASSUME ReadyInv, [MailboxNext]_mailboxVars PROVE ReadyInv'
    OBVIOUS
  <2> USE DEF ReadyInv
  <2>1. CASE MailboxListen
    <3>1. UNCHANGED <<shard, ipc>> /\ (ready' = ready \/ ready' = 0)
      BY <2>1, Zenon DEF MailboxListen, AssignArrives, AssignWord, Refuse, Post, Reply, HopArrives, CheckSeq,
         ListenLock, FillWord, Commit, ListenUnlock, inferVars
    <3> QED
      BY <3>1
  <2>2. CASE SeeAssignment \/ CopyWord \/ ClearFlag \/ LoadFails \/ SetReady
    BY <2>2, Zenon DEF SeeAssignment, CopyWord, ClearFlag, LoadFails, SetReady
  <2>5. CASE ReleaseShard
    <3>1. ready' = 0 /\ ipc' = "load"
      BY <2>5 DEF ReleaseShard
    <3> QED
      BY <3>1
  <2>6. CASE Load
    BY <2>6, Zenon DEF Load
  <2>3. CASE SeeHop \/ InferLock \/ DrainWord \/ Drained \/ InferUnlock \/ Forward
    BY <2>3, Zenon DEF SeeHop, InferLock, DrainWord, Drained, InferUnlock, Forward
  <2>4. CASE UNCHANGED mailboxVars
    BY <2>4 DEF mailboxVars, inferVars
  <2> QED
    BY <2>1, <2>2, <2>3, <2>4, <2>5, <2>6 DEF MailboxNext, Infer
<1>3. ReadyInv => ServesLoaded
  BY DEF ReadyInv, ServesLoaded
<1> QED
  BY <1>1, <1>2, <1>3, PTL DEF MailboxSpec
=============================================================================
