----------------------------- MODULE WireProofs -----------------------------
(***************************************************************************)
(* At most one of a worker's threads receives from the port at a time, and *)
(* an eviction taken from it is acted on (WorkerThreads). Any list of      *)
(* values written with the routines of xdr.c is read as it was written     *)
(* (XdrStream). The digest of a message is taken of the standard's padding *)
(* of it, whatever its length (Sha256).                                    *)
(***************************************************************************)
EXTENDS WorkerThreads, XdrStream, Sha256, TLAPS

-----------------------------------------------------------------------------
(* WorkerThreads: the port.                                                *)

\* The values rpc_call gives its attempt counter stay within the budget.
LEMMA Budget ==
  /\ 0 \in 0 .. RPC_MAX_RETRIES
  /\ 1 \in 0 .. RPC_MAX_RETRIES
  /\ \A a \in 0 .. RPC_MAX_RETRIES :
       a < RPC_MAX_RETRIES => a + 1 \in 0 .. RPC_MAX_RETRIES
  BY RetriesAssumption

\* The threads start outside the handshake, so the invariant holds initially.
LEMMA InitIInv == Init => IInv
  BY Budget, ZenonT(30) DEF Init, IInv, TypeInv, ClaimedInv, ParkedInv, OwnedInv,
     SingleRecvOwner, EvictionNotLost, Owning, Calling, Datagrams

\* No step of the listen thread breaks the handshake's invariant.
LEMMA ListenIInv == IInv /\ Listen => IInv'
  <1> SUFFICES ASSUME IInv, Listen PROVE IInv'
    OBVIOUS
  <1> USE DEF IInv, TypeInv, ClaimedInv, ParkedInv, OwnedInv, SingleRecvOwner,
              EvictionNotLost, Owning, Calling
  <1>1. CASE ListenTop
    BY <1>1 DEF ListenTop
  <1>2. CASE ListenPark
    BY <1>2 DEF ListenPark
  <1>3. CASE ListenLeaveSpin
    BY <1>3 DEF ListenLeaveSpin
  <1>4. CASE ListenResume
    BY <1>4, Zenon DEF ListenResume
  <1>5. CASE ListenTimeout
    BY <1>5 DEF ListenTimeout
  <1>6. ASSUME NEW d \in Datagrams, ListenRecv(d) PROVE IInv'
    BY <1>6 DEF ListenRecv
  <1>7. QED
    BY <1>1, <1>2, <1>3, <1>4, <1>5, <1>6 DEF Listen

\* No step of the heartbeat thread inside rpc_call does.
LEMMA CallIInv == IInv /\ Call => IInv'
  <1> SUFFICES ASSUME IInv, Call PROVE IInv'
    OBVIOUS
  <1> USE DEF IInv, TypeInv, ClaimedInv, ParkedInv, OwnedInv, SingleRecvOwner,
              EvictionNotLost, Owning, Calling
  <1>1. ASSUME NEW d \in Datagrams, CallDrain(d) PROVE IInv'
    BY <1>1 DEF CallDrain
  <1>2. CASE CallTimeout
    BY <1>2, Budget, Zenon DEF CallTimeout
  <1>3. CASE CallFail
    BY <1>3, Budget, Zenon DEF CallFail
  <1>4. CASE HelloAnswered
    BY <1>4, Budget DEF HelloAnswered, Outdated, Datagrams
  <1>5. CASE AckAnswered
    BY <1>5, Budget, ZenonT(30) DEF AckAnswered
  <1>6. QED
    BY <1>1, <1>2, <1>3, <1>4, <1>5 DEF Call

\* Nor does any other step of the heartbeat thread.
LEMMA HeartbeatIInv == IInv /\ Heartbeat => IInv'
  <1> SUFFICES ASSUME IInv, Heartbeat PROVE IInv'
    OBVIOUS
  <1>1. CASE Call
    BY <1>1, CallIInv
  <1> USE DEF IInv, TypeInv, ClaimedInv, ParkedInv, OwnedInv, SingleRecvOwner,
              EvictionNotLost, Owning, Calling
  <1>2. CASE HeartbeatWake
    BY <1>2 DEF HeartbeatWake
  <1>3. CASE HeartbeatCheck
    BY <1>3 DEF HeartbeatCheck
  <1>4. CASE HeartbeatRaise
    BY <1>4 DEF HeartbeatRaise
  <1>5. CASE HeartbeatTakeSocket
    BY <1>5, Budget, Zenon DEF HeartbeatTakeSocket, Outdated, Datagrams
  <1>6. CASE HeartbeatAdopt
    BY <1>6, Zenon DEF HeartbeatAdopt
  <1>7. CASE HeartbeatRelease
    BY <1>7, Zenon DEF HeartbeatRelease
  <1>8. CASE HeartbeatRecheck
    BY <1>8 DEF HeartbeatRecheck
  <1>9. CASE HeartbeatSend
    BY <1>9 DEF HeartbeatSend
  <1>10. QED
    BY <1>1, <1>2, <1>3, <1>4, <1>5, <1>6, <1>7, <1>8, <1>9 DEF Heartbeat

\* The invariant is inductive.
LEMMA NextIInv == IInv /\ [Next]_vars => IInv'
  <1> SUFFICES ASSUME IInv, [Next]_vars PROVE IInv'
    OBVIOUS
  <1>1. CASE Listen
    BY <1>1, ListenIInv
  <1>2. CASE Heartbeat
    BY <1>2, HeartbeatIInv
  <1>3. ASSUME NEW d \in Datagrams, Deliver(d) PROVE IInv'
    BY <1>3 DEF Deliver, IInv, TypeInv, ClaimedInv, ParkedInv, OwnedInv,
       SingleRecvOwner, EvictionNotLost, Owning, Calling
  <1>4. CASE UNCHANGED vars
    BY <1>4 DEF vars, IInv, TypeInv, ClaimedInv, ParkedInv, OwnedInv,
       SingleRecvOwner, EvictionNotLost, Owning, Calling
  <1>5. QED
    BY <1>1, <1>2, <1>3, <1>4 DEF Next

\* Every reachable state satisfies the invariant.
THEOREM WorkerInvariant == Spec => []IInv
  BY InitIInv, NextIInv, PTL DEF Spec

\* distinf.c:241-279, discovery.c:383-429: the flags, the places of the two
\* threads and the attempts of a call stay within their ranges.
THEOREM HandoffTyped == Spec => []TypeInv
  <1>1. IInv => TypeInv
    BY DEF IInv
  <1>2. QED
    BY WorkerInvariant, <1>1, PTL

\* discovery.c:383-390: the worker's port has a single receiver at any time.
THEOREM OneReceiver == Spec => []SingleRecvOwner
  <1>1. IInv => SingleRecvOwner
    BY DEF IInv
  <1>2. QED
    BY WorkerInvariant, <1>1, PTL

\* distinf.c:259-274: no eviction the listen thread took in is forgotten.
THEOREM NoEvictionLost == Spec => []EvictionNotLost
  <1>1. IInv => EvictionNotLost
    BY DEF IInv
  <1>2. QED
    BY WorkerInvariant, <1>1, PTL

-----------------------------------------------------------------------------
(* XDR: the routines of xdr.c on the wire.                                 *)

\* A function from 1 .. n is a sequence.
LEMMA ByteString ==
  ASSUME NEW len \in Nat, NEW S, NEW v \in [1 .. len -> S]
  PROVE  v \in Seq(S) /\ Len(v) = len
OBVIOUS

\* A concatenation, byte by byte.
LEMMA Concatenated ==
  ASSUME NEW len \in Nat, NEW k \in Nat, NEW s \in Seq(Byte), NEW v \in Seq(Byte), Len(s) = len, Len(v) = k
  PROVE  s \o v = [o \in 1 .. len + k |-> IF o <= len THEN s[o] ELSE v[o - len]]
<1> DEFINE z == s \o v
<1>1. z \in Seq(Byte) /\ Len(z) = len + k
  OBVIOUS
<1>2. \A o \in 1 .. len + k : z[o] = IF o <= len THEN s[o] ELSE v[o - len]
  OBVIOUS
<1> HIDE DEF z
<1>3. z = [o \in 1 .. len + k |-> z[o]]
  BY <1>1
<1> QED BY <1>2, <1>3 DEF z

\* Eight bytes out of two strings: the extensions to a long.
LEMMA Joined ==
  ASSUME NEW len \in 1 .. 8, NEW s \in Seq(Byte), NEW v \in Seq(Byte), Len(v) = len, Len(s) = 8 - len
  PROVE  s \o v = [o \in 1 .. 8 |-> IF o <= 8 - len THEN s[o] ELSE v[o - (8 - len)]]
<1> DEFINE z == s \o v
<1>1. z \in Seq(Byte) /\ Len(z) = 8
  OBVIOUS
<1>2. \A o \in 1 .. 8 : z[o] = IF o <= 8 - len THEN s[o] ELSE v[o - (8 - len)]
  OBVIOUS
<1> HIDE DEF z
<1>3. z = [o \in 1 .. 8 |-> z[o]]
  BY <1>1
<1> QED BY <1>2, <1>3, SMTT(30) DEF z

\* A slice, byte by byte.
LEMMA SubString ==
  ASSUME NEW b \in Seq(Byte), NEW q \in Nat, NEW w \in 1 .. 8, q + w <= Len(b)
  PROVE  SubSeq(b, q + 1, q + w) = [o \in 1 .. w |-> b[q + o]]
<1>1. SubSeq(b, q + 1, q + w) = [o \in 1 .. w |-> b[q + 1 + o - 1]]
  OBVIOUS
<1>2. \A o \in 1 .. w : q + 1 + o - 1 = q + o
  OBVIOUS
<1> QED BY <1>1, <1>2

\* The cast of a long to w bytes keeps the last w.
LEMMA Lowest ==
  ASSUME NEW l \in [1 .. 8 -> Byte], NEW w \in 1 .. 8
  PROVE  Low(l, w) = [o \in 1 .. w |-> l[8 - w + o]]
<1>1. l \in Seq(Byte) /\ Len(l) = 8
  BY ByteString, Zenon
<1> QED BY <1>1 DEF Low

\* The cast of an unsigned value to long.
LEMMA ZeroExtended ==
  ASSUME NEW len \in 1 .. 8, NEW v \in [1 .. len -> Byte]
  PROVE  ZeroExtend(v) = [o \in 1 .. 8 |-> IF o <= 8 - len THEN 0 ELSE v[o - (8 - len)]]
<1>1. v \in Seq(Byte) /\ Len(v) = len
  BY ByteString
<1>2. Zeros(8 - len) \in Seq(Byte) /\ Len(Zeros(8 - len)) = 8 - len
  <2>1. 8 - len \in Nat
    OBVIOUS
  <2>2. Zeros(8 - len) \in [1 .. 8 - len -> Byte]
    BY <2>1 DEF Zeros, Byte
  <2> QED BY <2>1, <2>2, ByteString
<1>3. \A o \in 1 .. 8 - len : Zeros(8 - len)[o] = 0
  BY DEF Zeros
<1> DEFINE s == Zeros(8 - len)
<1>4. ZeroExtend(v) = s \o v
  BY <1>1 DEF ZeroExtend
<1> HIDE DEF s
<1>5. s \in Seq(Byte) /\ Len(s) = 8 - len
  BY <1>2 DEF s
<1>6. s \o v = [o \in 1 .. 8 |-> IF o <= 8 - len THEN s[o] ELSE v[o - (8 - len)]]
  BY <1>1, <1>5, Joined, Zenon
<1>7. \A o \in 1 .. 8 - len : s[o] = 0
  BY <1>3 DEF s
<1> QED BY <1>4, <1>6, <1>7

\* The cast of a signed value to long.
LEMMA SignExtended ==
  ASSUME NEW len \in 1 .. 8, NEW v \in [1 .. len -> Byte]
  PROVE  SignExtend(v) =
           [o \in 1 .. 8 |-> IF o <= 8 - len THEN (IF v[1] >= 128 THEN 255 ELSE 0) ELSE v[o - (8 - len)]]
<1>1. v \in Seq(Byte) /\ Len(v) = len
  BY ByteString
<1> DEFINE s == [i \in 1 .. 8 - len |-> IF v[1] >= 128 THEN 255 ELSE 0]
<1>2. s \in Seq(Byte) /\ Len(s) = 8 - len
  <2>1. 8 - len \in Nat
    OBVIOUS
  <2>2. s \in [1 .. 8 - len -> Byte]
    BY <2>1 DEF Byte
  <2> HIDE DEF s
  <2> QED BY <2>1, <2>2, ByteString
<1>3. \A o \in 1 .. 8 - len : s[o] = IF v[1] >= 128 THEN 255 ELSE 0
  OBVIOUS
<1>4. SignExtend(v) = s \o v
  BY <1>1 DEF SignExtend
<1> HIDE DEF s
<1>5. s \o v = [o \in 1 .. 8 |-> IF o <= 8 - len THEN s[o] ELSE v[o - (8 - len)]]
  BY <1>1, <1>2, Joined, Zenon
<1> QED BY <1>3, <1>4, <1>5

-----------------------------------------------------------------------------
\* A stream over a buffer of m bytes.
IsStream(x, m) ==
  /\ x \in [op : {"encode", "decode"}, buf : [1 .. m -> Byte], ptr : Nat, end : Nat]
  /\ x.end <= m

\* What an item is on the wire.
Width(t) == IF t = "hyper" THEN 8 ELSE 4
WireByte(t, v, o) ==
  CASE t \in {"char", "u_char"} -> IF o = 4 THEN v[1] ELSE 0
    [] t = "short" -> IF o > 2 THEN v[o - 2] ELSE IF v[1] >= 128 THEN 255 ELSE 0
    [] t = "u_short" -> IF o > 2 THEN v[o - 2] ELSE 0
    [] t \in {"float", "long"} -> v[o + 4]
    [] OTHER -> v[o]
Wire(t, v) == [o \in 1 .. Width(t) |-> WireByte(t, v, o)]

Written(x, bytes, w) == [x EXCEPT !.buf = Overwrite(@, x.ptr, bytes), !.ptr = @ + w]

\* xdrmem_putlong writes the low four bytes, or refuses and writes none.
LEMMA PutLong ==
  ASSUME NEW m \in Nat, NEW x, IsStream(x, m), NEW l \in [1 .. 8 -> Byte]
  PROVE  xdrmem_putlong(x, l) =
           IF x.ptr + 4 <= x.end
           THEN [ok |-> TRUE, x |-> Written(x, [o \in 1 .. 4 |-> l[4 + o]], 4), v |-> l]
           ELSE [ok |-> FALSE, x |-> x, v |-> l]
<1>1. Low(l, 4) = [o \in 1 .. 4 |-> l[4 + o]]
  <2>1. Low(l, 4) = [o \in 1 .. 4 |-> l[8 - 4 + o]]
    BY Lowest
  <2> QED BY <2>1
<1> DEFINE w == [o \in 1 .. 4 |-> l[4 + o]]
<1>2. xdrmem_putlong(x, l) =
        IF x.ptr + 4 <= x.end
        THEN [ok |-> TRUE, x |-> [[x EXCEPT !.buf = Overwrite(@, x.ptr, w)] EXCEPT !.ptr = @ + 4], v |-> l]
        ELSE [ok |-> FALSE, x |-> x, v |-> l]
  BY <1>1, Zenon DEF xdrmem_putlong, Room, Advanced, Refused
<1> HIDE DEF w
<1>3. [[x EXCEPT !.buf = Overwrite(@, x.ptr, w)] EXCEPT !.ptr = @ + 4] = Written(x, w, 4)
  BY DEF Written, IsStream
<1> QED BY <1>2, <1>3, Zenon DEF w

\* xdrmem_getlong returns the next four bytes as an unsigned long, or refuses.
LEMMA GetLong ==
  ASSUME NEW m \in Nat, NEW x, IsStream(x, m), NEW l
  PROVE  xdrmem_getlong(x, l) =
           IF x.ptr + 4 <= x.end
           THEN [ok |-> TRUE, x |-> [x EXCEPT !.ptr = @ + 4],
                 v |-> [o \in 1 .. 8 |-> IF o <= 4 THEN 0 ELSE x.buf[x.ptr + (o - 4)]]]
           ELSE [ok |-> FALSE, x |-> x, v |-> l]
<1>1. CASE ~(x.ptr + 4 <= x.end)
  BY <1>1 DEF xdrmem_getlong, Room, Refused
<1>2. CASE x.ptr + 4 <= x.end
  <2> DEFINE b == x.buf
             w == SubSeq(b, x.ptr + 1, x.ptr + 4)
  <2>1. b \in Seq(Byte) /\ Len(b) = m /\ x.ptr \in Nat /\ x.ptr + 4 <= m
    <3>1. b \in [1 .. m -> Byte] /\ x.ptr \in Nat /\ x.end \in Nat /\ x.end <= m
      BY DEF IsStream
    <3> HIDE DEF b
    <3>2. b \in Seq(Byte) /\ Len(b) = m
      BY <3>1, ByteString
    <3> QED BY <1>2, <3>1, <3>2
  <2> HIDE DEF b
  <2>2. w = [o \in 1 .. 4 |-> b[x.ptr + o]]
    <3> DEFINE q == x.ptr
    <3>1. q \in Nat /\ q + 4 <= Len(b) /\ b \in Seq(Byte) /\ 4 \in 1 .. 8
      BY <2>1
    <3> HIDE DEF q
    <3>2. SubSeq(b, q + 1, q + 4) = [o \in 1 .. 4 |-> b[q + o]]
      BY <3>1, SubString, Zenon
    <3> QED BY <3>2 DEF q
  <2> HIDE DEF w
  <2>3. w \in [1 .. 4 -> Byte]
    <3>1. \A o \in 1 .. 4 : b[x.ptr + o] \in Byte
      BY <2>1
    <3> QED BY <2>2, <3>1
  <2>4. ZeroExtend(w) = [o \in 1 .. 8 |-> IF o <= 8 - 4 THEN 0 ELSE w[o - (8 - 4)]]
    BY <2>3, ZeroExtended
  <2>5. ZeroExtend(w) = [o \in 1 .. 8 |-> IF o <= 4 THEN 0 ELSE b[x.ptr + (o - 4)]]
    BY <2>2, <2>4
  <2>6. xdrmem_getlong(x, l) = [ok |-> TRUE, x |-> [x EXCEPT !.ptr = @ + 4], v |-> ZeroExtend(w)]
    BY <1>2 DEF xdrmem_getlong, Room, Advanced, w, b
  <2> QED BY <1>2, <2>5, <2>6 DEF b
<1> QED BY <1>1, <1>2

-----------------------------------------------------------------------------
\* The long that a routine puts.
Long(t, v) ==
  CASE t = "bool" -> ZeroExtend(<<Truth(v)>>)
    [] t \in {"char", "u_char", "u_short", "u_int"} -> ZeroExtend(v)
    [] t \in {"short", "int", "enum"} -> SignExtend(v)
    [] OTHER -> v

Types == {"bool", "char", "u_char", "short", "u_short", "int", "u_int", "enum", "hyper", "float", "long"}

\* A bool is 0 for all zeros and 1 for anything else.
LEMMA TruthOf ==
  /\ Truth(<<0, 0, 0, 0>>) = 0
  /\ \A l : \A k \in DOMAIN l : l[k] # 0 /\ Len(l) \in Nat => Truth(l) = 1
<1>1. <<0, 0, 0, 0>> = Zeros(4) /\ Len(<<0, 0, 0, 0>>) = 4
  BY DEF Zeros
<1>2. ASSUME NEW l, NEW k \in DOMAIN l, l[k] # 0, Len(l) \in Nat
      PROVE  l # Zeros(Len(l))
  <2> SUFFICES ASSUME l = Zeros(Len(l))
               PROVE  FALSE
    OBVIOUS
  <2>1. \A j \in DOMAIN Zeros(Len(l)) : Zeros(Len(l))[j] = 0
    BY DEF Zeros
  <2> QED BY <1>2, <2>1
<1> QED BY <1>1, <1>2 DEF Truth

\* A value a program can hand to a routine is a string of bytes.
LEMMA TypedString ==
  ASSUME NEW t, NEW v, WellTyped(t, v)
  PROVE  t \in Types /\ v \in Seq(Byte)
<1>1. t \in Types
  BY DEF WellTyped, Types
<1>2. CASE t = "bool"
  <2>1. v \in {<<0, 0, 0, 0>>, <<0, 0, 0, 1>>}
    BY <1>2 DEF WellTyped
  <2>2. 0 \in Byte /\ 1 \in Byte
    BY DEF Byte
  <2>3. <<0, 0, 0, 0>> \in Seq(Byte) /\ <<0, 0, 0, 1>> \in Seq(Byte)
    BY <2>2
  <2> QED BY <1>1, <2>1, <2>3, Zenon
<1>3. CASE t # "bool"
  <2>1. \E len \in 1 .. 8 : v \in [1 .. len -> Byte]
    BY <1>3 DEF WellTyped
  <2> QED BY <1>1, <2>1
<1> QED BY <1>2, <1>3

\* The low four bytes of the long that a routine puts are the object on the wire.
LEMMA LongBytes ==
  ASSUME NEW t, NEW v, WellTyped(t, v), t # "hyper"
  PROVE  /\ Long(t, v) \in [1 .. 8 -> Byte]
         /\ \A o \in 1 .. 4 : Long(t, v)[4 + o] = WireByte(t, v, o)
<1>1. CASE t = "bool"
  <2>1. ASSUME NEW b \in Byte
        PROVE  ZeroExtend(<<b>>) = [o \in 1 .. 8 |-> IF o <= 7 THEN 0 ELSE b]
    <3>1. <<b>> \in [1 .. 1 -> Byte]
      OBVIOUS
    <3>2. ZeroExtend(<<b>>) = [o \in 1 .. 8 |-> IF o <= 8 - 1 THEN 0 ELSE <<b>>[o - (8 - 1)]]
      BY <3>1, ZeroExtended
    <3> QED BY <3>2
  <2>2. (v = <<0, 0, 0, 0>> /\ Truth(v) = 0) \/ (v = <<0, 0, 0, 1>> /\ Truth(v) = 1)
    <3>1. CASE v = <<0, 0, 0, 1>>
      <4>1. 4 \in DOMAIN v /\ v[4] # 0 /\ Len(v) \in Nat
        BY <3>1
      <4> QED BY <3>1, <4>1, TruthOf, Zenon
    <3> QED BY <1>1, <3>1, TruthOf DEF WellTyped
  <2>3. Long(t, v) = ZeroExtend(<<Truth(v)>>)
    BY <1>1 DEF Long
  <2>4. 0 \in Byte /\ 1 \in Byte
    BY DEF Byte
  <2>5. \A o \in 1 .. 4 : WireByte(t, v, o) = v[o]
    BY <1>1 DEF WireByte
  <2>6. ASSUME NEW b \in {0, 1}, v = <<0, 0, 0, b>>, Truth(v) = b
        PROVE  /\ Long(t, v) \in [1 .. 8 -> Byte]
               /\ \A o \in 1 .. 4 : Long(t, v)[4 + o] = v[o]
    <3>1. Long(t, v) = [o \in 1 .. 8 |-> IF o <= 7 THEN 0 ELSE b] /\ b \in Byte
      BY <2>1, <2>3, <2>4, <2>6
    <3>2. v[1] = 0 /\ v[2] = 0 /\ v[3] = 0 /\ v[4] = b
      BY <2>6
    <3> QED BY <2>4, <3>1, <3>2
  <2> QED BY <2>2, <2>5, <2>6
<1>2. CASE t \in {"char", "u_char"}
  <2>1. v \in [1 .. 1 -> Byte] /\ Long(t, v) = ZeroExtend(v)
    BY <1>2 DEF WellTyped, Long
  <2>2. ZeroExtend(v) = [o \in 1 .. 8 |-> IF o <= 8 - 1 THEN 0 ELSE v[o - (8 - 1)]]
    BY <2>1, ZeroExtended
  <2>3. \A o \in 1 .. 4 : WireByte(t, v, o) = IF o = 4 THEN v[1] ELSE 0
    BY <1>2 DEF WireByte
  <2> QED BY <2>1, <2>2, <2>3 DEF Byte
<1>3. CASE t = "u_short"
  <2>1. v \in [1 .. 2 -> Byte] /\ Long(t, v) = ZeroExtend(v)
    BY <1>3 DEF WellTyped, Long
  <2>2. ZeroExtend(v) = [o \in 1 .. 8 |-> IF o <= 8 - 2 THEN 0 ELSE v[o - (8 - 2)]]
    BY <2>1, ZeroExtended
  <2>3. \A o \in 1 .. 4 : WireByte(t, v, o) = IF o > 2 THEN v[o - 2] ELSE 0
    BY <1>3 DEF WireByte
  <2> QED BY <2>1, <2>2, <2>3 DEF Byte
<1>4. CASE t = "short"
  <2>1. v \in [1 .. 2 -> Byte] /\ Long(t, v) = SignExtend(v)
    BY <1>4 DEF WellTyped, Long
  <2>2. SignExtend(v) =
          [o \in 1 .. 8 |-> IF o <= 8 - 2 THEN (IF v[1] >= 128 THEN 255 ELSE 0) ELSE v[o - (8 - 2)]]
    BY <2>1, SignExtended
  <2>3. \A o \in 1 .. 4 : WireByte(t, v, o) = IF o > 2 THEN v[o - 2] ELSE IF v[1] >= 128 THEN 255 ELSE 0
    BY <1>4 DEF WireByte
  <2> QED BY <2>1, <2>2, <2>3 DEF Byte
<1>5. CASE t = "u_int"
  <2>1. v \in [1 .. 4 -> Byte] /\ Long(t, v) = ZeroExtend(v)
    BY <1>5 DEF WellTyped, Long
  <2>2. ZeroExtend(v) = [o \in 1 .. 8 |-> IF o <= 8 - 4 THEN 0 ELSE v[o - (8 - 4)]]
    BY <2>1, ZeroExtended
  <2>3. \A o \in 1 .. 4 : WireByte(t, v, o) = v[o]
    BY <1>5 DEF WireByte
  <2> QED BY <2>1, <2>2, <2>3 DEF Byte
<1>6. CASE t \in {"int", "enum"}
  <2>1. v \in [1 .. 4 -> Byte] /\ Long(t, v) = SignExtend(v)
    BY <1>6 DEF WellTyped, Long
  <2>2. SignExtend(v) =
          [o \in 1 .. 8 |-> IF o <= 8 - 4 THEN (IF v[1] >= 128 THEN 255 ELSE 0) ELSE v[o - (8 - 4)]]
    BY <2>1, SignExtended
  <2>3. \A o \in 1 .. 4 : WireByte(t, v, o) = v[o]
    BY <1>6 DEF WireByte
  <2> QED BY <2>1, <2>2, <2>3 DEF Byte
<1>7. CASE t \in {"float", "long"}
  <2>1. v \in [1 .. 8 -> Byte] /\ Long(t, v) = v
    BY <1>7 DEF WellTyped, Long
  <2>2. \A o \in 1 .. 4 : WireByte(t, v, o) = v[o + 4]
    BY <1>7 DEF WireByte
  <2> QED BY <2>1, <2>2
<1> QED BY <1>1, <1>2, <1>3, <1>4, <1>5, <1>6, <1>7 DEF WellTyped

\* A result of which the caller keeps all but the variable.
LEMMA Kept ==
  ASSUME NEW p, NEW v, DOMAIN p = {"ok", "x", "v"}
  PROVE  [p EXCEPT !.v = v].ok = p.ok /\ [p EXCEPT !.v = v].x = p.x /\ [p EXCEPT !.v = v].v = v
OBVIOUS

\* A routine of one word, encoding.
LEMMA EncodedWord ==
  ASSUME NEW m \in Nat, NEW x, IsStream(x, m), x.op = "encode", NEW t, NEW v, WellTyped(t, v), t # "hyper"
  PROVE  /\ x.ptr + 4 <= x.end => Xdr(x, t, v).ok /\ Xdr(x, t, v).x = Written(x, Wire(t, v), 4)
         /\ ~(x.ptr + 4 <= x.end) => ~Xdr(x, t, v).ok
<1>1. \/ Xdr(x, t, v) = [xdrmem_putlong(x, Long(t, v)) EXCEPT !.v = v]
      \/ Long(t, v) = v /\ Xdr(x, t, v) = xdrmem_putlong(x, v)
  <2>1. CASE t = "bool"
    BY <2>1 DEF Xdr, xdr_bool, Through, xdr_long, Long
  <2>2. CASE t \in {"char", "u_char", "u_short", "u_int"}
    BY <2>2 DEF Xdr, xdr_integer, Through, xdr_long, Long
  <2>3. CASE t \in {"short", "int"}
    BY <2>3 DEF Xdr, xdr_integer, Through, xdr_long, Long
  <2>4. CASE t = "enum"
    BY <2>4 DEF Xdr, xdr_enum, Through, xdr_long, Long
  <2>5. CASE t = "float"
    BY <2>5 DEF Xdr, xdr_float, Through, xdr_long, Long
  <2>6. CASE t = "long"
    BY <2>6 DEF Xdr, xdr_long, Long
  <2> QED BY <2>1, <2>2, <2>3, <2>4, <2>5, <2>6 DEF WellTyped
<1> DEFINE l == Long(t, v)
<1>2. l \in [1 .. 8 -> Byte] /\ \A o \in 1 .. 4 : l[4 + o] = WireByte(t, v, o)
  BY LongBytes
<1>3. Wire(t, v) = [o \in 1 .. 4 |-> WireByte(t, v, o)]
  BY DEF Wire, Width
<1> HIDE DEF l
<1>4. [o \in 1 .. 4 |-> l[4 + o]] = Wire(t, v)
  BY <1>2, <1>3
<1>5. xdrmem_putlong(x, l) =
        IF x.ptr + 4 <= x.end
        THEN [ok |-> TRUE, x |-> Written(x, Wire(t, v), 4), v |-> l]
        ELSE [ok |-> FALSE, x |-> x, v |-> l]
  BY <1>2, <1>4, PutLong
<1>6. \/ Xdr(x, t, v) = [xdrmem_putlong(x, l) EXCEPT !.v = v]
      \/ l = v /\ Xdr(x, t, v) = xdrmem_putlong(x, v)
  BY <1>1 DEF l
<1>7. Xdr(x, t, v).ok = xdrmem_putlong(x, l).ok /\ Xdr(x, t, v).x = xdrmem_putlong(x, l).x
  BY <1>6, <1>5, Kept, Zenon
<1>8. CASE x.ptr + 4 <= x.end
  BY <1>5, <1>7, <1>8
<1>9. CASE ~(x.ptr + 4 <= x.end)
  BY <1>5, <1>7, <1>9
<1> QED BY <1>8, <1>9

\* What a write leaves alone.
LEMMA WrittenAs ==
  ASSUME NEW m \in Nat, NEW x, IsStream(x, m), NEW bytes, NEW w \in Nat,
         Overwrite(x.buf, x.ptr, bytes) \in [1 .. m -> Byte]
  PROVE  LET y == Written(x, bytes, w)
         IN /\ IsStream(y, m) /\ y.op = x.op /\ y.end = x.end
            /\ y.ptr = x.ptr + w /\ y.buf = Overwrite(x.buf, x.ptr, bytes)
<1> DEFINE f == Overwrite(x.buf, x.ptr, bytes)
<1>1. f \in [1 .. m -> Byte] /\ x.ptr + w \in Nat /\ x.end <= m
  BY DEF IsStream
<1> HIDE DEF f
<1>2. x \in [op : {"encode", "decode"}, buf : [1 .. m -> Byte], ptr : Nat, end : Nat]
  BY DEF IsStream
<1> DEFINE y == [x EXCEPT !.buf = f, !.ptr = x.ptr + w]
<1>3. /\ y \in [op : {"encode", "decode"}, buf : [1 .. m -> Byte], ptr : Nat, end : Nat]
      /\ y.op = x.op /\ y.end = x.end /\ y.ptr = x.ptr + w /\ y.buf = f
  BY <1>1, <1>2, Zenon
<1>4. y = Written(x, bytes, w)
  BY DEF Written, f
<1> HIDE DEF y
<1> QED BY <1>1, <1>3, <1>4 DEF IsStream, f

\* Two streams with the same fields are the same.
LEMMA SameStream ==
  ASSUME NEW m \in Nat, NEW x, IsStream(x, m), NEW y, IsStream(y, m),
         x.op = y.op, x.buf = y.buf, x.ptr = y.ptr, x.end = y.end
  PROVE  x = y
BY DEF IsStream

\* A write of w bytes within the buffer.
LEMMA Overwritten ==
  ASSUME NEW m \in Nat, NEW b \in [1 .. m -> Byte], NEW q \in Nat, NEW w \in Nat, NEW c \in [1 .. w -> Byte]
  PROVE  /\ Overwrite(b, q, c) = [i \in 1 .. m |-> IF i \in q + 1 .. q + w THEN c[i - q] ELSE b[i]]
         /\ Overwrite(b, q, c) \in [1 .. m -> Byte]
<1>1. Len(c) = w
  BY ByteString
<1>2. Overwrite(b, q, c) = [i \in 1 .. m |-> IF i \in q + 1 .. q + w THEN c[i - q] ELSE b[i]]
  BY <1>1 DEF Overwrite
<1>3. \A i \in q + 1 .. q + w : i - q \in 1 .. w
  OBVIOUS
<1> QED BY <1>2, <1>3

\* The first of two words.
LEMMA WrittenHalf ==
  ASSUME NEW m \in Nat, NEW x, IsStream(x, m), NEW v \in [1 .. 8 -> Byte]
  PROVE  LET y == Written(x, [o \in 1 .. 4 |-> v[o]], 4)
         IN /\ IsStream(y, m) /\ y.ptr = x.ptr + 4 /\ y.end = x.end /\ y.op = x.op
            /\ y.buf = Overwrite(x.buf, x.ptr, [o \in 1 .. 4 |-> v[o]])
<1> DEFINE c == [o \in 1 .. 4 |-> v[o]]
<1>1. c \in [1 .. 4 -> Byte] /\ x.buf \in [1 .. m -> Byte] /\ x.ptr \in Nat
  BY DEF IsStream
<1> HIDE DEF c
<1>2. Overwrite(x.buf, x.ptr, c) \in [1 .. m -> Byte]
  BY <1>1, Overwritten, Zenon
<1> QED BY <1>2, WrittenAs DEF c

\* Two words written one after the other are the eight bytes.
LEMMA WrittenTwice ==
  ASSUME NEW m \in Nat, NEW x, IsStream(x, m), x.ptr + 8 <= x.end, NEW v \in [1 .. 8 -> Byte]
  PROVE  LET y == Written(x, [o \in 1 .. 4 |-> v[o]], 4)
         IN /\ IsStream(y, m) /\ y.ptr = x.ptr + 4 /\ y.end = x.end /\ y.op = x.op
            /\ Written(y, [o \in 1 .. 4 |-> v[4 + o]], 4) = Written(x, v, 8)
<1> DEFINE hi == [o \in 1 .. 4 |-> v[o]]
           lo == [o \in 1 .. 4 |-> v[4 + o]]
           y == Written(x, hi, 4)
           q == x.ptr
           b == x.buf
<1>1. Len(hi) = 4 /\ Len(lo) = 4 /\ Len(v) = 8
  OBVIOUS
<1>2. q \in Nat /\ b \in [1 .. m -> Byte] /\ q + 8 <= m
  BY DEF IsStream
<1>3. \A o \in 1 .. 4 : hi[o] = v[o] /\ lo[o] = v[4 + o] /\ hi[o] \in Byte
  OBVIOUS
<1> HIDE DEF hi, lo
<1>4. Overwrite(b, q, hi) = [i \in 1 .. m |-> IF i \in q + 1 .. q + 4 THEN hi[i - q] ELSE b[i]]
  BY <1>1, <1>2 DEF Overwrite
<1>5. Overwrite(b, q, v) = [i \in 1 .. m |-> IF i \in q + 1 .. q + 8 THEN v[i - q] ELSE b[i]]
  BY <1>1, <1>2 DEF Overwrite
<1> DEFINE c == Overwrite(b, q, hi)
<1>6. c \in [1 .. m -> Byte]
  <2>1. \A i \in q + 1 .. q + 4 : i - q \in 1 .. 4
    BY <1>2, SMTT(30)
  <2> QED BY <1>2, <1>3, <1>4, <2>1, SMTT(30)
<1> HIDE DEF c
<1>8. IsStream(y, m) /\ y.ptr = q + 4 /\ y.end = x.end /\ y.op = x.op /\ y.buf = c
  BY <1>6, WrittenAs DEF c
<1> HIDE DEF y
<1>9. Overwrite(c, q + 4, lo) = Overwrite(b, q, v)
  <2>1. Overwrite(c, q + 4, lo) =
          [i \in 1 .. m |-> IF i \in (q + 4) + 1 .. (q + 4) + 4 THEN lo[i - (q + 4)] ELSE c[i]]
    BY <1>1, <1>2, <1>6 DEF Overwrite
  <2>2. ASSUME NEW i \in 1 .. m
        PROVE  (IF i \in (q + 4) + 1 .. (q + 4) + 4 THEN lo[i - (q + 4)] ELSE c[i])
               = IF i \in q + 1 .. q + 8 THEN v[i - q] ELSE b[i]
    <3>1. CASE i \in q + 1 .. q + 4
      <4>1. i - q \in 1 .. 4 /\ i \in q + 1 .. q + 8 /\ i \notin (q + 4) + 1 .. (q + 4) + 4
        BY <1>2, <3>1, SMTT(30)
      <4>2. c[i] = hi[i - q]
        <5>1. c = [j \in 1 .. m |-> IF j \in q + 1 .. q + 4 THEN hi[j - q] ELSE b[j]]
          BY <1>4 DEF c
        <5> QED BY <3>1, <5>1, Zenon
      <4>3. hi[i - q] = v[i - q]
        BY <1>3, <4>1
      <4> QED BY <4>1, <4>2, <4>3
    <3>2. CASE i \in q + 5 .. q + 8
      <4>1. i - (q + 4) \in 1 .. 4 /\ 4 + (i - (q + 4)) = i - q /\ i \in q + 1 .. q + 8
            /\ i \in (q + 4) + 1 .. (q + 4) + 4
        <5>1. \A len \in Nat : \A k \in len + 5 .. len + 8 :
                /\ k - (len + 4) \in 1 .. 4 /\ 4 + (k - (len + 4)) = k - len
                /\ k \in len + 1 .. len + 8 /\ k \in (len + 4) + 1 .. (len + 4) + 4
          OBVIOUS
        <5> QED BY <1>2, <3>2, <5>1, Zenon
      <4> QED BY <1>3, <4>1
    <3>3. CASE i \notin q + 1 .. q + 8
      <4>1. i \notin (q + 4) + 1 .. (q + 4) + 4 /\ i \notin q + 1 .. q + 4
        BY <1>2, <3>3
      <4> QED BY <1>4, <3>3, <4>1 DEF c
    <3> QED BY <1>2, <3>1, <3>2, <3>3
  <2> QED BY <1>5, <2>1, <2>2
<1>10. Written(y, lo, 4) = Written(x, v, 8)
  <2> DEFINE f == Overwrite(b, q, v)
             g == Written(y, lo, 4)
             h == Written(x, v, 8)
  <2>1. f \in [1 .. m -> Byte]
    <3>1. \A i \in q + 1 .. q + 8 : i - q \in 1 .. 8
      BY <1>2, SMTT(30)
    <3> QED BY <1>2, <1>5, <3>1
  <2>2. Overwrite(y.buf, y.ptr, lo) = f
    BY <1>8, <1>9
  <2> HIDE DEF f
  <2>3. IsStream(g, m) /\ g.op = y.op /\ g.end = y.end /\ g.ptr = y.ptr + 4 /\ g.buf = f
    BY <1>8, <2>1, <2>2, WrittenAs
  <2>4. IsStream(h, m) /\ h.op = x.op /\ h.end = x.end /\ h.ptr = q + 8 /\ h.buf = f
    BY <2>1, WrittenAs DEF f
  <2> HIDE DEF g, h
  <2>5. g.ptr = h.ptr
    BY <1>2, <1>8, <2>3, <2>4
  <2>6. g = h
    BY <1>8, <2>3, <2>4, <2>5, SameStream
  <2> QED BY <2>6 DEF g, h
<1> QED BY <1>8, <1>10 DEF y, hi, lo

\* A routine, encoding: it needs the width of its type, and what it writes is
\* the object on the wire.
LEMMA Encoded ==
  ASSUME NEW m \in Nat, NEW x, IsStream(x, m), x.op = "encode", NEW t, NEW v, WellTyped(t, v)
  PROVE  /\ x.ptr + Width(t) <= x.end => Xdr(x, t, v).ok /\ Xdr(x, t, v).x = Written(x, Wire(t, v), Width(t))
         /\ ~(x.ptr + Width(t) <= x.end) => ~Xdr(x, t, v).ok
<1>1. CASE t # "hyper"
  BY <1>1, EncodedWord DEF Width
<1>2. CASE t = "hyper"
  <2> DEFINE h == SubSeq(v, 1, 4)
             a == SignExtend(h)
             r == xdrmem_putlong(x, a)
             y == r.x
             s == xdrmem_putlong(y, v)
  <2>1. v \in [1 .. 8 -> Byte] /\ Width(t) = 8 /\ Wire(t, v) = v
    <3>1. v \in [1 .. 8 -> Byte] /\ Width(t) = 8
      BY <1>2 DEF WellTyped, Width
    <3>2. \A o \in 1 .. 8 : WireByte(t, v, o) = v[o]
      BY <1>2 DEF WireByte
    <3>3. v = [o \in 1 .. 8 |-> v[o]]
      BY <3>1
    <3> QED BY <3>1, <3>2, <3>3 DEF Wire
  <2>2. h = [o \in 1 .. 4 |-> v[o]]
    <3>1. v \in Seq(Byte) /\ Len(v) = 8
      BY <2>1, ByteString, ZenonT(30)
    <3>2. SubSeq(v, 0 + 1, 0 + 4) = [o \in 1 .. 4 |-> v[0 + o]]
      BY <3>1, SubString
    <3> QED BY <3>2
  <2>3. a \in [1 .. 8 -> Byte] /\ [o \in 1 .. 4 |-> a[4 + o]] = [o \in 1 .. 4 |-> v[o]]
    <3> HIDE DEF h
    <3>1. h \in [1 .. 4 -> Byte] /\ \A o \in 1 .. 4 : h[o] = v[o]
      BY <2>1, <2>2
    <3>2. a = [o \in 1 .. 8 |-> IF o <= 8 - 4 THEN (IF h[1] >= 128 THEN 255 ELSE 0) ELSE h[o - (8 - 4)]]
      BY <3>1, SignExtended
    <3> HIDE DEF a
    <3>3. a \in [1 .. 8 -> Byte]
      BY <3>1, <3>2 DEF Byte
    <3>4. \A o \in 1 .. 4 : a[4 + o] = v[o]
      BY <3>1, <3>2
    <3> QED BY <3>3, <3>4
  <2> DEFINE z == Written(x, [o \in 1 .. 4 |-> v[o]], 4)
  <2>4. Xdr(x, t, v) = IF ~r.ok THEN Refused(y, v) ELSE [xdr_long(y, v) EXCEPT !.v = v]
    <3>1. Xdr(x, t, v) = xdr_hyper(x, v)
      BY <1>2 DEF Xdr
    <3>2. xdr_long(x, a) = r
      BY DEF xdr_long
    <3> HIDE DEF r
    <3>3. xdr_hyper(x, v) = IF ~r.ok THEN Refused(y, v) ELSE [xdr_long(y, v) EXCEPT !.v = v]
      BY <3>2 DEF xdr_hyper, Pair
    <3> QED BY <3>1, <3>3
  <2> HIDE DEF h, a
  <2>5. r = IF x.ptr + 4 <= x.end THEN [ok |-> TRUE, x |-> z, v |-> a] ELSE [ok |-> FALSE, x |-> x, v |-> a]
    BY <2>3, PutLong
  <2> HIDE DEF r, s, z
  <2>6. CASE ~(x.ptr + 4 <= x.end)
    <3>1. ~r.ok
      BY <2>5, <2>6
    <3>2. ~Xdr(x, t, v).ok
      BY <2>4, <3>1 DEF Refused
    <3>3. ~(x.ptr + 8 <= x.end)
      BY <2>6 DEF IsStream
    <3> QED BY <2>1, <3>2, <3>3
  <2>7. CASE x.ptr + 4 <= x.end
    <3>1. r.ok /\ y = z
      BY <2>5, <2>7
    <3>3. IsStream(z, m) /\ z.ptr = x.ptr + 4 /\ z.end = x.end /\ z.op = "encode"
      BY <2>1, WrittenHalf DEF z
    <3>2. Xdr(x, t, v) = [s EXCEPT !.v = v]
      <4>1. xdr_long(y, v) = s
        BY <3>1, <3>3 DEF xdr_long, s
      <4> QED BY <2>4, <3>1, <4>1
    <3> DEFINE lo == [o \in 1 .. 4 |-> v[4 + o]]
    <3> HIDE DEF lo
    <3>4. s = IF z.ptr + 4 <= z.end THEN [ok |-> TRUE, x |-> Written(z, lo, 4), v |-> v]
              ELSE [ok |-> FALSE, x |-> z, v |-> v]
      BY <2>1, <3>1, <3>3, PutLong DEF s, lo
    <3>5. Xdr(x, t, v).ok = s.ok /\ Xdr(x, t, v).x = s.x
      BY <3>2, <3>4, Kept
    <3>6. (z.ptr + 4 <= z.end) <=> (x.ptr + 8 <= x.end)
      BY <3>3 DEF IsStream
    <3>7. CASE x.ptr + 8 <= x.end
      <4>1. Written(z, lo, 4) = Written(x, v, 8)
        BY <2>1, <3>7, WrittenTwice DEF z, lo
      <4>2. s.ok /\ s.x = Written(x, v, 8)
        BY <3>4, <3>6, <3>7, <4>1
      <4> QED BY <2>1, <3>5, <3>7, <4>2
    <3>8. CASE ~(x.ptr + 8 <= x.end)
      <4>1. ~s.ok
        BY <3>4, <3>6, <3>8
      <4> QED BY <2>1, <3>5, <3>8, <4>1
    <3> QED BY <3>7, <3>8
  <2> QED BY <2>6, <2>7
<1> QED BY <1>1, <1>2

-----------------------------------------------------------------------------
\* What a routine makes of the long it gets.
From(t, l) ==
  CASE t = "bool" -> Zeros(3) \o <<Truth(l)>>
    [] t \in {"char", "u_char"} -> Low(l, 1)
    [] t \in {"short", "u_short"} -> Low(l, 2)
    [] t \in {"int", "u_int", "enum"} -> Low(l, 4)
    [] OTHER -> l

\* A bool as the four bytes of a C int.
LEMMA BoolOf ==
  ASSUME NEW b \in Byte
  PROVE  Zeros(3) \o <<b>> = <<0, 0, 0, b>>
<1> DEFINE y == Zeros(3)
           s == <<b>>
           z == y \o s
<1>1. y \in [1 .. 3 -> Byte] /\ \A o \in 1 .. 3 : y[o] = 0
  BY DEF Zeros, Byte
<1> HIDE DEF y
<1>2. y \in Seq(Byte) /\ Len(y) = 3
  BY <1>1, ByteString, Zenon
<1>3. y[1] = 0 /\ y[2] = 0 /\ y[3] = 0
  BY <1>1
<1>4. s \in Seq(Byte) /\ Len(s) = 1 /\ s[1] = b
  OBVIOUS
<1> HIDE DEF s
<1>5. z = [o \in 1 .. 3 + 1 |-> IF o <= 3 THEN y[o] ELSE s[o - 3]]
  <2>1. 3 \in Nat /\ 1 \in Nat
    OBVIOUS
  <2> QED BY <1>2, <1>4, <2>1, Concatenated, ZenonT(30)
<1> HIDE DEF z
<1>6. z = <<0, 0, 0, b>>
  BY <1>3, <1>4, <1>5
<1> QED BY <1>6 DEF y, s, z

\* The long made of an object's bytes on the wire gives the object back.
LEMMA FromLong ==
  ASSUME NEW t, NEW v, WellTyped(t, v), t # "hyper", NEW l,
         l = [o \in 1 .. 8 |-> IF o <= 4 THEN 0 ELSE WireByte(t, v, o - 4)]
  PROVE  Object(t, From(t, l)) = Object(t, v)
<1>1. CASE t = "bool"
  <2>1. \A o \in 1 .. 4 : WireByte(t, v, o) = v[o]
    BY <1>1 DEF WireByte
  <2>2. l = [o \in 1 .. 8 |-> IF o <= 4 THEN 0 ELSE v[o - 4]]
    BY <2>1
  <2>3. From(t, l) = Zeros(3) \o <<Truth(l)>> /\ Object(t, From(t, l)) = From(t, l) /\ Object(t, v) = v
    BY <1>1 DEF From, Object
  <2>4. Len(l) = 8 /\ DOMAIN l = 1 .. 8
    OBVIOUS
  <2>5. \A b \in Byte : Zeros(3) \o <<b>> = <<0, 0, 0, b>>
    BY BoolOf, Zenon
  <2>8. 0 \in Byte /\ 1 \in Byte
    BY DEF Byte
  <2>6. CASE v = <<0, 0, 0, 0>>
    <3>1. l = Zeros(8)
      BY <2>2, <2>6 DEF Zeros
    <3>2. Truth(l) = 0
      BY <2>4, <3>1 DEF Truth
    <3> QED BY <2>3, <2>5, <2>6, <2>8, <3>2, Zenon
  <2>7. CASE v = <<0, 0, 0, 1>>
    <3>1. l[8] = 1
      BY <2>2, <2>7
    <3>2. Truth(l) = 1
      <4>1. 8 \in DOMAIN l /\ l[8] # 0 /\ Len(l) \in Nat
        BY <2>4, <3>1
      <4> QED BY <4>1, TruthOf, Zenon
    <3> QED BY <2>3, <2>5, <2>7, <2>8, <3>2, Zenon
  <2> QED BY <1>1, <2>6, <2>7 DEF WellTyped
<1> DEFINE u == [o \in 1 .. 4 |-> WireByte(t, v, o)]
<1>2. ASSUME NEW w \in 1 .. 4, v \in [1 .. w -> Byte], l \in [1 .. 8 -> Byte],
             \A o \in 1 .. w : WireByte(t, v, 4 - w + o) = v[o]
      PROVE  Low(l, w) = v
  <2>a. w \in 1 .. 8
    OBVIOUS
  <2>1. Low(l, w) = [o \in 1 .. w |-> l[8 - w + o]]
    BY <1>2, <2>a, Lowest, Zenon
  <2>2. ASSUME NEW o \in 1 .. w
        PROVE  l[8 - w + o] = v[o]
    <3>1. 8 - w + o \in 1 .. 8 /\ ~(8 - w + o <= 4) /\ 8 - w + o - 4 = 4 - w + o
      OBVIOUS
    <3>2. l[8 - w + o] = WireByte(t, v, 8 - w + o - 4)
      BY <3>1
    <3> QED BY <1>2, <3>1, <3>2
  <2> QED BY <1>2, <2>1, <2>2
<1>3. ASSUME \A o \in 1 .. 4 : WireByte(t, v, o) \in Byte
      PROVE  l \in [1 .. 8 -> Byte]
  <2>1. \A o \in 1 .. 8 : ~(o <= 4) => o - 4 \in 1 .. 4
    OBVIOUS
  <2>2. 0 \in Byte
    BY DEF Byte
  <2> QED BY <1>3, <2>1, <2>2
<1>4. ASSUME NEW o \in 1 .. 4
      PROVE  WireByte(t, v, o) \in Byte
  BY LongBytes
<1>5. l \in [1 .. 8 -> Byte]
  BY <1>3, <1>4
<1>6. CASE t \in {"char", "u_char"}
  <2>1. v \in [1 .. 1 -> Byte] /\ From(t, l) = Low(l, 1) /\ Object(t, From(t, l)) = From(t, l) /\ Object(t, v) = v
    BY <1>6 DEF WellTyped, From, Object
  <2>2. \A o \in 1 .. 1 : WireByte(t, v, 4 - 1 + o) = v[o]
    BY <1>6 DEF WireByte
  <2> QED BY <1>2, <1>5, <2>1, <2>2
<1>7. CASE t \in {"short", "u_short"}
  <2>1. v \in [1 .. 2 -> Byte] /\ From(t, l) = Low(l, 2) /\ Object(t, From(t, l)) = From(t, l) /\ Object(t, v) = v
    BY <1>7 DEF WellTyped, From, Object
  <2>2. \A o \in 1 .. 2 : WireByte(t, v, 4 - 2 + o) = v[o]
    BY <1>7 DEF WireByte
  <2> QED BY <1>2, <1>5, <2>1, <2>2
<1>8. CASE t \in {"int", "u_int", "enum"}
  <2>1. v \in [1 .. 4 -> Byte] /\ From(t, l) = Low(l, 4) /\ Object(t, From(t, l)) = From(t, l) /\ Object(t, v) = v
    BY <1>8 DEF WellTyped, From, Object
  <2>2. \A o \in 1 .. 4 : WireByte(t, v, 4 - 4 + o) = v[o]
    BY <1>8 DEF WireByte
  <2> QED BY <1>2, <1>5, <2>1, <2>2
<1>9. CASE t \in {"float", "long"}
  <2>1. v \in [1 .. 8 -> Byte] /\ From(t, l) = l
    BY <1>9 DEF WellTyped, From
  <2>2. \A o \in 1 .. 4 : WireByte(t, v, o) = v[o + 4]
    BY <1>9 DEF WireByte
  <2>3. \A o \in 1 .. 4 : l[4 + o] = v[4 + o]
    BY <2>2
  <2>4. CASE t = "float"
    <3>1. Object(t, l) = Low(l, 4) /\ Object(t, v) = Low(v, 4)
      BY <2>4 DEF Object
    <3>2. Low(l, 4) = [o \in 1 .. 4 |-> l[8 - 4 + o]] /\ Low(v, 4) = [o \in 1 .. 4 |-> v[8 - 4 + o]]
      <4>1. 4 \in 1 .. 8
        OBVIOUS
      <4> QED BY <1>5, <2>1, <4>1, Lowest, Zenon
    <3> QED BY <2>1, <2>3, <3>1, <3>2
  <2>5. CASE t = "long"
    <3>1. Object(t, l) = l /\ Object(t, v) = v /\ \A o \in 1 .. 4 : v[o] = 0
      BY <2>5 DEF Object, WellTyped
    <3>2. \A o \in 1 .. 8 : l[o] = v[o]
      <4>1. ASSUME NEW o \in 1 .. 8
            PROVE  l[o] = v[o]
        <5>1. CASE o <= 4
          BY <3>1, <5>1
        <5>2. CASE ~(o <= 4)
          <6>1. o - 4 \in 1 .. 4 /\ 4 + (o - 4) = o
            BY <5>2
          <6> QED BY <2>3, <6>1
        <5> QED BY <5>1, <5>2
      <4> QED BY <4>1
    <3> QED BY <1>5, <2>1, <3>1, <3>2
  <2> QED BY <1>9, <2>4, <2>5
<1> QED BY <1>1, <1>6, <1>7, <1>8, <1>9 DEF WellTyped

\* A stream from which w bytes have been taken.
Beyond(x, w) == [x EXCEPT !.ptr = @ + w]

\* What taking bytes leaves alone.
LEMMA TakenFrom ==
  ASSUME NEW m \in Nat, NEW x, IsStream(x, m), NEW w \in Nat
  PROVE  LET y == Beyond(x, w)
         IN IsStream(y, m) /\ y.op = x.op /\ y.buf = x.buf /\ y.end = x.end /\ y.ptr = x.ptr + w
<1>1. x \in [op : {"encode", "decode"}, buf : [1 .. m -> Byte], ptr : Nat, end : Nat] /\ x.end <= m
  BY DEF IsStream
<1> DEFINE y == [x EXCEPT !.ptr = x.ptr + w]
<1>2. /\ y \in [op : {"encode", "decode"}, buf : [1 .. m -> Byte], ptr : Nat, end : Nat]
      /\ y.op = x.op /\ y.end = x.end /\ y.ptr = x.ptr + w /\ y.buf = x.buf
  BY <1>1
<1>3. y = Beyond(x, w)
  BY DEF Beyond
<1> HIDE DEF y
<1> QED BY <1>1, <1>2, <1>3 DEF IsStream

\* A long made of four bytes of a buffer.
LEMMA WordOfBytes ==
  ASSUME NEW b, NEW at, \A o \in 1 .. 4 : b[at + o] \in Byte
  PROVE  [o \in 1 .. 8 |-> IF o <= 4 THEN 0 ELSE b[at + (o - 4)]] \in [1 .. 8 -> Byte]
<1>1. \A o \in 1 .. 8 : ~(o <= 4) => o - 4 \in 1 .. 4
  OBVIOUS
<1>2. \A o \in 1 .. 8 : ~(o <= 4) => b[at + (o - 4)] \in Byte
  BY <1>1, Zenon
<1>3. 0 \in Byte
  BY SMTT(30) DEF Byte
<1> QED BY <1>2, <1>3, Zenon

\* A routine of one word, decoding.
LEMMA DecodedWord ==
  ASSUME NEW m \in Nat, NEW x, IsStream(x, m), x.op = "decode", NEW t, NEW v, WellTyped(t, v), t # "hyper",
         NEW g, \A o \in 1 .. 4 : x.buf[x.ptr + o] = WireByte(t, v, o)
  PROVE  /\ x.ptr + 4 <= x.end =>
              /\ Xdr(x, t, g).ok
              /\ Xdr(x, t, g).x = Beyond(x, 4)
              /\ Object(t, Xdr(x, t, g).v) = Object(t, v)
              /\ t = "float" => Xdr(x, t, g).v \in [1 .. 8 -> Byte]
         /\ ~(x.ptr + 4 <= x.end) => ~Xdr(x, t, g).ok
<1>1. ASSUME NEW g0
      PROVE  xdr_long(x, g0) = xdrmem_getlong(x, g0)
  BY DEF xdr_long
<1> DEFINE p == xdrmem_getlong(x, Long(t, g))
           w == IF p.ok THEN From(t, p.v) ELSE g
<1>2. \/ Xdr(x, t, g) = [p EXCEPT !.v = w]
      \/ Xdr(x, t, g) = p /\ From(t, p.v) = p.v
  <2>1. CASE t = "bool"
    <3>1. Xdr(x, t, g) = xdr_bool(x, g)
      BY <2>1 DEF Xdr
    <3>2. \A l : From(t, l) = Zeros(3) \o <<Truth(l)>>
      BY <2>1 DEF From
    <3>3. Long(t, g) = ZeroExtend(<<Truth(g)>>)
      BY <2>1 DEF Long
    <3> QED BY <1>1, <3>1, <3>2, <3>3, SMTT(30) DEF xdr_bool, Through
  <2>2. CASE t \in {"char", "u_char"}
    <3>1. Xdr(x, t, g) = xdr_integer(x, t, g)
      BY <2>2 DEF Xdr
    <3>2. \A l : From(t, l) = Low(l, 1)
      BY <2>2 DEF From
    <3>3. Long(t, g) = IF t \in {"short", "int"} THEN SignExtend(g) ELSE ZeroExtend(g)
      BY <2>2 DEF Long
    <3> QED BY <1>1, <2>2, <3>1, <3>2, <3>3 DEF xdr_integer, Through
  <2>3. CASE t \in {"short", "u_short"}
    <3>1. Xdr(x, t, g) = xdr_integer(x, t, g)
      BY <2>3 DEF Xdr
    <3>2. \A l : From(t, l) = Low(l, 2)
      BY <2>3 DEF From
    <3>3. Long(t, g) = IF t \in {"short", "int"} THEN SignExtend(g) ELSE ZeroExtend(g)
      BY <2>3 DEF Long
    <3> QED BY <1>1, <2>3, <3>1, <3>2, <3>3 DEF xdr_integer, Through
  <2>4. CASE t \in {"int", "u_int"}
    <3>1. Xdr(x, t, g) = xdr_integer(x, t, g)
      BY <2>4 DEF Xdr
    <3>2. \A l : From(t, l) = Low(l, 4)
      BY <2>4 DEF From
    <3>3. Long(t, g) = IF t \in {"short", "int"} THEN SignExtend(g) ELSE ZeroExtend(g)
      BY <2>4 DEF Long
    <3> QED BY <1>1, <2>4, <3>1, <3>2, <3>3 DEF xdr_integer, Through
  <2>5. CASE t = "enum"
    <3>1. Xdr(x, t, g) = xdr_enum(x, g)
      BY <2>5 DEF Xdr
    <3>2. \A l : From(t, l) = Low(l, 4)
      BY <2>5 DEF From
    <3>3. Long(t, g) = SignExtend(g)
      BY <2>5 DEF Long
    <3> QED BY <1>1, <3>1, <3>2, <3>3 DEF xdr_enum, Through
  <2>6. CASE t = "float"
    <3>1. Xdr(x, t, g) = xdr_float(x, g)
      BY <2>6 DEF Xdr
    <3>2. \A l : From(t, l) = l
      BY <2>6 DEF From
    <3>3. Long(t, g) = g
      BY <2>6 DEF Long
    <3> QED BY <1>1, <3>1, <3>2, <3>3 DEF xdr_float, Through
  <2>7. CASE t = "long"
    <3>1. Xdr(x, t, g) = xdr_long(x, g)
      BY <2>7 DEF Xdr
    <3>2. \A l : From(t, l) = l
      BY <2>7 DEF From
    <3>3. Long(t, g) = g
      BY <2>7 DEF Long
    <3> QED BY <1>1, <3>1, <3>2, <3>3, Zenon
  <2> QED BY <2>1, <2>2, <2>3, <2>4, <2>5, <2>6, <2>7 DEF WellTyped
<1> DEFINE l == [o \in 1 .. 8 |-> IF o <= 4 THEN 0 ELSE x.buf[x.ptr + (o - 4)]]
<1>4. p = IF x.ptr + 4 <= x.end THEN [ok |-> TRUE, x |-> Beyond(x, 4), v |-> l]
          ELSE [ok |-> FALSE, x |-> x, v |-> Long(t, g)]
  BY GetLong DEF Beyond
<1>5. Object(t, From(t, l)) = Object(t, v)
  <2>1. \A o \in 1 .. 8 : ~(o <= 4) => o - 4 \in 1 .. 4
    OBVIOUS
  <2>2. l = [o \in 1 .. 8 |-> IF o <= 4 THEN 0 ELSE WireByte(t, v, o - 4)]
    BY <2>1
  <2> HIDE DEF l
  <2> QED BY <2>2, FromLong
<1>6. t = "float" => From(t, l) \in [1 .. 8 -> Byte]
  <2>2. \A o \in 1 .. 4 : WireByte(t, v, o) \in Byte
    BY LongBytes
  <2>3. \A o \in 1 .. 4 : x.buf[x.ptr + o] \in Byte
    BY <2>2, Zenon
  <2>4. l \in [1 .. 8 -> Byte]
    BY <2>3, WordOfBytes, Zenon
  <2> HIDE DEF l
  <2> QED BY <2>4 DEF From
<1> HIDE DEF p, l
<1>7. DOMAIN p = {"ok", "x", "v"}
  BY <1>4
<1>8. Xdr(x, t, g).ok = p.ok /\ Xdr(x, t, g).x = p.x /\ (p.ok => Xdr(x, t, g).v = From(t, p.v))
  <2>1. [p EXCEPT !.v = w].ok = p.ok /\ [p EXCEPT !.v = w].x = p.x /\ [p EXCEPT !.v = w].v = w
    BY <1>7, Kept, SMTT(30)
  <2> QED BY <1>2, <2>1, Zenon
<1>9. CASE x.ptr + 4 <= x.end
  <2>1. p.ok /\ p.x = Beyond(x, 4) /\ p.v = l
    BY <1>4, <1>9, SMTT(30)
  <2> QED BY <1>5, <1>6, <1>8, <1>9, <2>1, SMTT(30)
<1>10. CASE ~(x.ptr + 4 <= x.end)
  <2>1. ~p.ok
    BY <1>4, <1>10
  <2> QED BY <1>8, <1>10, <2>1
<1> QED BY <1>9, <1>10

\* The low half of the long that xdrmem_getlong returns.
LEMMA GotHalf ==
  ASSUME NEW v \in [1 .. 8 -> Byte], NEW k \in {0, 4}, NEW l,
         l = [o \in 1 .. 8 |-> IF o <= 4 THEN 0 ELSE v[k + (o - 4)]]
  PROVE  Low(l, 4) = [o \in 1 .. 4 |-> v[k + o]]
<1>1. l \in [1 .. 8 -> Byte] /\ 4 \in 1 .. 8
  <2>1. \A o \in 1 .. 8 : ~(o <= 4) => k + (o - 4) \in 1 .. 8
    OBVIOUS
  <2>2. 0 \in Byte
    BY DEF Byte
  <2> QED BY <2>1, <2>2
<1>2. Low(l, 4) = [o \in 1 .. 4 |-> l[8 - 4 + o]]
  BY <1>1, Lowest, Zenon
<1>3. \A o \in 1 .. 4 : 8 - 4 + o \in 1 .. 8 /\ ~(8 - 4 + o <= 4) /\ k + (8 - 4 + o - 4) = k + o
  OBVIOUS
<1>4. \A o \in 1 .. 4 : l[8 - 4 + o] = v[k + o]
  BY <1>3
<1> QED BY <1>2, <1>4

\* The two halves of eight bytes, joined again.
LEMMA Halves ==
  ASSUME NEW v \in [1 .. 8 -> Byte]
  PROVE  [o \in 1 .. 4 |-> v[0 + o]] \o [o \in 1 .. 4 |-> v[4 + o]] = v
<1> DEFINE a == [o \in 1 .. 4 |-> v[0 + o]]
           b == [o \in 1 .. 4 |-> v[4 + o]]
<1>1. a \in [1 .. 4 -> Byte] /\ b \in [1 .. 4 -> Byte]
  OBVIOUS
<1>2. \A o \in 1 .. 4 : a[o] = v[o] /\ b[o] = v[4 + o]
  OBVIOUS
<1> HIDE DEF a, b
<1>3. a \in Seq(Byte) /\ b \in Seq(Byte) /\ Len(a) = 4 /\ Len(b) = 4 /\ 4 \in Nat
  BY <1>1, ByteString, Zenon
<1>4. a \o b = [o \in 1 .. 4 + 4 |-> IF o <= 4 THEN a[o] ELSE b[o - 4]]
  BY <1>3, Concatenated, ZenonT(30)
<1>5. \A o \in 1 .. 8 : (IF o <= 4 THEN a[o] ELSE b[o - 4]) = v[o]
  <2>1. \A o \in 1 .. 8 : o <= 4 => o \in 1 .. 4
    OBVIOUS
  <2>2. \A o \in 1 .. 8 : ~(o <= 4) => o - 4 \in 1 .. 4 /\ 4 + (o - 4) = o
    OBVIOUS
  <2> QED BY <1>2, <2>1, <2>2
<1>6. 4 + 4 = 8 /\ v = [o \in 1 .. 8 |-> v[o]]
  OBVIOUS
<1>7. a \o b = v
  BY <1>4, <1>5, <1>6
<1> QED BY <1>7 DEF a, b

\* xdr_hyper, decoding: both words or nothing.
LEMMA DecodedHyper ==
  ASSUME NEW m \in Nat, NEW x, IsStream(x, m), x.op = "decode", NEW v \in [1 .. 8 -> Byte],
         NEW g, \A o \in 1 .. 8 : x.buf[x.ptr + o] = v[o]
  PROVE  /\ x.ptr + 8 <= x.end =>
              xdr_hyper(x, g).ok /\ xdr_hyper(x, g).x = Beyond(x, 8) /\ xdr_hyper(x, g).v = v
         /\ ~(x.ptr + 8 <= x.end) => ~xdr_hyper(x, g).ok
<1> DEFINE h == SignExtend(SubSeq(g, 1, 4))
           r == xdrmem_getlong(x, h)
           y == Beyond(x, 4)
           s == xdrmem_getlong(y, g)
           a == [o \in 1 .. 8 |-> IF o <= 4 THEN 0 ELSE v[0 + (o - 4)]]
           b == [o \in 1 .. 8 |-> IF o <= 4 THEN 0 ELSE v[4 + (o - 4)]]
           w == IF s.ok THEN Low(r.v, 4) \o Low(s.v, 4) ELSE g
<1>0. x.ptr \in Nat /\ x.end \in Nat
  BY DEF IsStream
<1>z. 4 \in Nat /\ 8 \in Nat
  OBVIOUS
<1>1. IsStream(y, m) /\ y.op = "decode" /\ y.buf = x.buf /\ y.end = x.end /\ y.ptr = x.ptr + 4
  BY <1>z, TakenFrom, ZenonT(30)
<1>2. r = IF x.ptr + 4 <= x.end THEN [ok |-> TRUE, x |-> y, v |-> a] ELSE [ok |-> FALSE, x |-> x, v |-> h]
  <2>1. r = IF x.ptr + 4 <= x.end
            THEN [ok |-> TRUE, x |-> y,
                  v |-> [o \in 1 .. 8 |-> IF o <= 4 THEN 0 ELSE x.buf[x.ptr + (o - 4)]]]
            ELSE [ok |-> FALSE, x |-> x, v |-> h]
    BY GetLong, Zenon DEF Beyond
  <2>2. \A o \in 1 .. 8 : ~(o <= 4) => o - 4 \in 1 .. 8 /\ 0 + (o - 4) = o - 4
    OBVIOUS
  <2>3. [o \in 1 .. 8 |-> IF o <= 4 THEN 0 ELSE x.buf[x.ptr + (o - 4)]] = a
    BY <2>2
  <2> HIDE DEF r, a, y, h
  <2> QED BY <2>1, <2>3, Zenon
<1>3. s = IF x.ptr + 8 <= x.end THEN [ok |-> TRUE, x |-> Beyond(x, 8), v |-> b] ELSE [ok |-> FALSE, x |-> y, v |-> g]
  <2>1. s = IF y.ptr + 4 <= y.end
            THEN [ok |-> TRUE, x |-> Beyond(y, 4),
                  v |-> [o \in 1 .. 8 |-> IF o <= 4 THEN 0 ELSE y.buf[y.ptr + (o - 4)]]]
            ELSE [ok |-> FALSE, x |-> y, v |-> g]
    BY <1>1, GetLong, Zenon DEF Beyond
  <2>2. (y.ptr + 4 <= y.end) <=> (x.ptr + 8 <= x.end)
    BY <1>0, <1>1
  <2>3. [o \in 1 .. 8 |-> IF o <= 4 THEN 0 ELSE y.buf[y.ptr + (o - 4)]] = b
    <3>1. \A o \in 1 .. 8 : ~(o <= 4) => /\ 4 + (o - 4) \in 1 .. 8
                                         /\ (x.ptr + 4) + (o - 4) = x.ptr + (4 + (o - 4))
      BY <1>0
    <3> HIDE DEF y
    <3>2. \A o \in 1 .. 8 : ~(o <= 4) => y.buf[y.ptr + (o - 4)] = v[4 + (o - 4)]
      BY <1>1, <3>1
    <3> QED BY <3>2
  <2>4. Beyond(y, 4) = Beyond(x, 8)
    <3> DEFINE f == Beyond(y, 4)
               e == Beyond(x, 8)
    <3>1. IsStream(f, m) /\ f.op = "decode" /\ f.buf = x.buf /\ f.end = x.end /\ f.ptr = (x.ptr + 4) + 4
      <4> HIDE DEF y
      <4>1. IsStream(f, m) /\ f.op = y.op /\ f.buf = y.buf /\ f.end = y.end /\ f.ptr = y.ptr + 4
        BY <1>z, <1>1, TakenFrom, Zenon
      <4> QED BY <1>1, <4>1, Zenon
    <3>2. IsStream(e, m) /\ e.op = "decode" /\ e.buf = x.buf /\ e.end = x.end /\ e.ptr = x.ptr + 8
      BY <1>z, TakenFrom, ZenonT(30)
    <3>3. (x.ptr + 4) + 4 = x.ptr + 8
      BY <1>0
    <3> HIDE DEF e, f
    <3>4. e = f
      BY <3>1, <3>2, <3>3, SameStream
    <3> QED BY <3>4 DEF e, f
  <2> HIDE DEF s, b, y
  <2> QED BY <2>1, <2>2, <2>3, <2>4, Zenon
<1>4. r.ok => xdr_hyper(x, g) = [s EXCEPT !.v = w]
  <2> SUFFICES ASSUME r.ok
               PROVE  xdr_hyper(x, g) = [s EXCEPT !.v = w]
    OBVIOUS
  <2>1. xdr_long(x, h) = r
    BY DEF xdr_long
  <2>2. r.x = y
    <3> HIDE DEF r, y, a, h
    <3> QED BY <1>2
  <2>3. xdr_long(y, g) = s
    BY <1>1 DEF xdr_long
  <2> HIDE DEF r, s, y
  <2> QED BY <2>1, <2>2, <2>3, Zenon DEF xdr_hyper, Pair
<1>5. ~r.ok => ~xdr_hyper(x, g).ok
  <2>1. xdr_long(x, h) = r
    BY DEF xdr_long
  <2> HIDE DEF r
  <2> QED BY <2>1 DEF xdr_hyper, Pair, Refused
<1>6. Low(a, 4) \o Low(b, 4) = v
  <2>1. Low(a, 4) = [o \in 1 .. 4 |-> v[0 + o]]
    BY GotHalf
  <2>2. Low(b, 4) = [o \in 1 .. 4 |-> v[4 + o]]
    BY GotHalf
  <2> HIDE DEF a, b
  <2> QED BY <2>1, <2>2, Halves, Zenon
<1> HIDE DEF h, r, y, s, a, b, w
<1>7. CASE x.ptr + 8 <= x.end
  <2>1. x.ptr + 4 <= x.end
    BY <1>0, <1>7
  <2>2. r.ok /\ r.v = a
    BY <1>2, <2>1
  <2>3. s.ok /\ s.x = Beyond(x, 8) /\ s.v = b /\ DOMAIN s = {"ok", "x", "v"}
    BY <1>3, <1>7
  <2>4. w = v
    BY <1>6, <2>2, <2>3 DEF w
  <2>5. [s EXCEPT !.v = w].ok = s.ok /\ [s EXCEPT !.v = w].x = s.x /\ [s EXCEPT !.v = w].v = w
    BY <2>3, Kept, Zenon
  <2>6. xdr_hyper(x, g) = [s EXCEPT !.v = w]
    BY <1>4, <2>2
  <2> QED BY <1>7, <2>3, <2>4, <2>5, <2>6
<1>8. CASE ~(x.ptr + 8 <= x.end)
  <2>1. ~s.ok /\ DOMAIN s = {"ok", "x", "v"}
    BY <1>3, <1>8
  <2>2. [s EXCEPT !.v = w].ok = s.ok
    BY <2>1, Kept, SMTT(30)
  <2> QED BY <1>4, <1>5, <1>8, <2>1, <2>2
<1> QED BY <1>7, <1>8

\* A routine, decoding what a routine has written: it hands back the object, or
\* refuses when the stream ends before the object does.
LEMMA Decoded ==
  ASSUME NEW m \in Nat, NEW x, IsStream(x, m), x.op = "decode", NEW t, NEW v, WellTyped(t, v),
         NEW g, \A o \in 1 .. Width(t) : x.buf[x.ptr + o] = WireByte(t, v, o)
  PROVE  /\ x.ptr + Width(t) <= x.end =>
              /\ Xdr(x, t, g).ok
              /\ Xdr(x, t, g).x = Beyond(x, Width(t))
              /\ Object(t, Xdr(x, t, g).v) = Object(t, v)
              /\ Xdr(x, t, g).v \in Seq(Byte)
         /\ ~(x.ptr + Width(t) <= x.end) => ~Xdr(x, t, g).ok
<1>0. t # "float" /\ t # "double" => \A u : Object(t, u) = u
  BY DEF Object
<1>v. v \in Seq(Byte)
  BY TypedString
<1>1. CASE t # "hyper"
  <2>1. Width(t) = 4
    BY <1>1, SMTT(30) DEF Width
  <2>2. /\ x.ptr + 4 <= x.end =>
              /\ Xdr(x, t, g).ok
              /\ Xdr(x, t, g).x = Beyond(x, 4)
              /\ Object(t, Xdr(x, t, g).v) = Object(t, v)
              /\ t = "float" => Xdr(x, t, g).v \in [1 .. 8 -> Byte]
        /\ ~(x.ptr + 4 <= x.end) => ~Xdr(x, t, g).ok
    BY <1>1, <2>1, DecodedWord
  <2>3. ASSUME x.ptr + 4 <= x.end
        PROVE  Xdr(x, t, g).v \in Seq(Byte)
    <3>1. CASE t = "float"
      <4> DEFINE u == Xdr(x, t, g).v
      <4>1. u \in [1 .. 8 -> Byte]
        BY <2>2, <2>3, <3>1, Zenon
      <4> HIDE DEF u
      <4>2. u \in Seq(Byte)
        BY <4>1, ByteString, Zenon
      <4> QED BY <4>2 DEF u
    <3>2. CASE t # "float"
      <4>1. t # "double"
        BY DEF WellTyped
      <4>2. \A u : Object(t, u) = u
        BY <1>0, <3>2, <4>1
      <4>3. Object(t, Xdr(x, t, g).v) = Object(t, v)
        BY <2>2, <2>3
      <4>4. Xdr(x, t, g).v = v
        BY <4>2, <4>3
      <4> QED BY <1>v, <4>4
    <3> QED BY <3>1, <3>2
  <2> QED BY <2>1, <2>2, <2>3, Zenon
<1>2. CASE t = "hyper"
  <2>1. Width(t) = 8 /\ v \in [1 .. 8 -> Byte]
    BY <1>2 DEF Width, WellTyped
  <2>2. \A o \in 1 .. 8 : WireByte(t, v, o) = v[o]
    BY <1>2 DEF WireByte
  <2>3. Xdr(x, t, g) = xdr_hyper(x, g)
    BY <1>2 DEF Xdr
  <2>4. \A o \in 1 .. 8 : x.buf[x.ptr + o] = v[o]
    BY <2>1, <2>2, SMTT(30)
  <2>5. /\ x.ptr + 8 <= x.end =>
              xdr_hyper(x, g).ok /\ xdr_hyper(x, g).x = Beyond(x, 8) /\ xdr_hyper(x, g).v = v
        /\ ~(x.ptr + 8 <= x.end) => ~xdr_hyper(x, g).ok
    BY <2>1, <2>4, DecodedHyper
  <2> QED BY <1>v, <2>1, <2>3, <2>5, Zenon
<1> QED BY <1>1, <1>2

\* An object on the wire is as many bytes as its width says.
LEMMA WireString ==
  ASSUME NEW t, NEW v, WellTyped(t, v)
  PROVE  Wire(t, v) \in [1 .. Width(t) -> Byte] /\ Width(t) \in Nat
<1>1. CASE t = "hyper"
  <2>1. Width(t) = 8 /\ v \in [1 .. 8 -> Byte]
    BY <1>1 DEF Width, WellTyped
  <2>2. \A o \in 1 .. 8 : WireByte(t, v, o) = v[o]
    BY <1>1 DEF WireByte
  <2> QED BY <2>1, <2>2 DEF Wire
<1>2. CASE t # "hyper"
  <2>1. Width(t) = 4
    BY <1>2 DEF Width
  <2>2. ASSUME NEW o \in 1 .. 4
        PROVE  WireByte(t, v, o) \in Byte
    BY <1>2, LongBytes
  <2> QED BY <2>1, <2>2 DEF Wire
<1> QED BY <1>1, <1>2

\* xdr_sizeof says how far a routine goes.
LEMMA SizeOf ==
  ASSUME NEW t, NEW v, WellTyped(t, v)
  PROVE  xdr_sizeof(t, v) = Width(t)
<1> DEFINE x == xdrmem_create(Zeros(16), 16, "encode")
           y == Written(x, Wire(t, v), Width(t))
<1>1. IsStream(x, 16) /\ x.op = "encode" /\ x.ptr = 0 /\ x.end = 16 /\ 16 \in Nat
  BY DEF xdrmem_create, Zeros, IsStream, Byte
<1>2. Width(t) \in {4, 8} /\ Wire(t, v) \in [1 .. Width(t) -> Byte]
  BY WireString DEF Width
<1>3. x.ptr + Width(t) <= x.end
  BY <1>1, <1>2
<1>7. xdr_sizeof(t, v) = IF Xdr(x, t, v).ok THEN xdrmem_getpos(Xdr(x, t, v).x) ELSE 0
  BY DEF xdr_sizeof
<1> HIDE DEF x
<1>4. Xdr(x, t, v).ok /\ Xdr(x, t, v).x = y
  BY <1>1, <1>3, Encoded
<1>5. Overwrite(x.buf, x.ptr, Wire(t, v)) \in [1 .. 16 -> Byte]
  <2>1. x.buf \in [1 .. 16 -> Byte] /\ Width(t) \in Nat
    BY <1>1, <1>2 DEF IsStream
  <2> DEFINE w == Width(t)
             c == Wire(t, v)
             b == x.buf
             q == x.ptr
  <2>2. 16 \in Nat /\ b \in [1 .. 16 -> Byte] /\ w \in Nat /\ c \in [1 .. w -> Byte] /\ q \in Nat
    BY <1>1, <1>2, <2>1
  <2> HIDE DEF b, c, q, w
  <2>3. Overwrite(b, q, c) \in [1 .. 16 -> Byte]
    BY <2>2, Overwritten, Zenon
  <2> QED BY <2>3 DEF b, c, q
<1>6. y.ptr = 0 + Width(t)
  <2>1. Width(t) \in Nat /\ IsStream(x, 16) /\ 16 \in Nat
    BY <1>1, <1>2
  <2>2. y.ptr = x.ptr + Width(t)
    <3> DEFINE len == 16
               w == Width(t)
               c == Wire(t, v)
    <3>1. w \in Nat /\ IsStream(x, len) /\ len \in Nat /\ Overwrite(x.buf, x.ptr, c) \in [1 .. len -> Byte]
      BY <1>5, <2>1
    <3> HIDE DEF len, w, c
    <3>2. Written(x, c, w).ptr = x.ptr + w
      BY <3>1, WrittenAs
    <3> QED BY <3>2 DEF w, c
  <2> QED BY <1>1, <2>2
<1> QED BY <1>2, <1>4, <1>6, <1>7 DEF xdrmem_getpos

-----------------------------------------------------------------------------
(* The writer and the reader.                                              *)

Entries == Types \X Seq(Byte)
Until(ms, k) == IF k = 0 THEN 0 ELSE ms[k]
Lengths ==
  /\ put \in Seq(Entries) /\ marks \in Seq(Nat) /\ fetched \in Seq(Entries)
  /\ Len(marks) = Len(put) /\ Len(fetched) <= Len(put)
\* Each item is one that a program can write, and it starts where the one
\* before it ends.
Marked ==
  \A k \in 1 .. Len(put) :
    /\ WellTyped(put[k][1], put[k][2])
    /\ marks[k] = Until(marks, k - 1) + Width(put[k][1])
    /\ marks[k] <= Until(marks, Len(put)) /\ marks[k] <= Size
\* The buffer holds what each item is on the wire.
OnTheWire ==
  side \in {"write", "read"} =>
    /\ IsStream(xdrs, Size)
    /\ \A k \in 1 .. Len(put) : \A o \in 1 .. Width(put[k][1]) :
         xdrs.buf[Until(marks, k - 1) + o] = WireByte(put[k][1], put[k][2], o)
Cursor ==
  /\ side = "write" => xdrs.op = "encode" /\ xdrs.end = Size /\ xdrs.ptr = Until(marks, Len(put)) /\ fetched = << >>
  /\ side = "read" => xdrs.op = "decode" /\ xdrs.ptr = Until(marks, Len(fetched))
Matched ==
  \A k \in 1 .. Len(fetched) :
    fetched[k][1] = put[k][1] /\ Object(fetched[k][1], fetched[k][2]) = Object(put[k][1], put[k][2])
XdrInv == Lengths /\ Marked /\ OnTheWire /\ Cursor /\ Matched

\* The end of each item is a number.
LEMMA UntilNat ==
  ASSUME Lengths, NEW k \in 0 .. Len(put)
  PROVE  Until(marks, k) \in Nat
BY DEF Lengths, Until

\* The writer starts at the front of an empty buffer.
LEMMA XdrStart == XdrInit => XdrInv
<1> SUFFICES ASSUME XdrInit
             PROVE  XdrInv
  OBVIOUS
<1> USE DEF XdrInit
<1>1. Lengths
  BY DEF Lengths
<1>2. Len(put) = 0 /\ Len(fetched) = 0
  OBVIOUS
<1>3. Marked /\ Matched
  BY <1>2 DEF Marked, Matched
<1>4. OnTheWire
  <2>1. IsStream(xdrs, Size)
    BY SizeAssumption DEF xdrmem_create, IsStream, Byte, Garbage
  <2> QED BY <1>2, <2>1 DEF OnTheWire
<1>5. Cursor
  BY <1>2 DEF Cursor, xdrmem_create, Until
<1> QED BY <1>1, <1>3, <1>4, <1>5 DEF XdrInv

\* Writing an item disturbs none of those before it.
LEMMA WriteStep ==
  ASSUME XdrInv, NEW item \in Items, Write(item[1], item[2])
  PROVE  XdrInv'
<1> DEFINE t == item[1]
           v == item[2]
           w == Width(t)
           len == Len(put)
           r == Xdr(xdrs, t, v)
           y == Written(xdrs, Wire(t, v), w)
<1> USE DEF XdrInv
<1>1. WellTyped(t, v) /\ side = "write" /\ fetched' = fetched /\ fetched = << >>
  BY ItemsAssumption DEF Write, Cursor
<1>2. IsStream(xdrs, Size) /\ xdrs.op = "encode" /\ xdrs.end = Size /\ xdrs.ptr = Until(marks, len) /\ Size \in Nat
  BY <1>1, SizeAssumption DEF OnTheWire, Cursor
<1>3. w \in {4, 8} /\ w \in Nat /\ Wire(t, v) \in [1 .. w -> Byte]
  BY <1>1, WireString DEF Width
<1>4. len \in Nat /\ Len(marks) = len /\ Until(marks, len) \in Nat
  BY UntilNat DEF Lengths
<1>5. <<t, v>> \in Entries
  BY <1>1, TypedString DEF Entries
<1>6. /\ xdrs.ptr + w <= xdrs.end => r.ok /\ r.x = y
      /\ ~(xdrs.ptr + w <= xdrs.end) => ~r.ok
  BY <1>1, <1>2, Encoded
<1>7. /\ xdrs' = r.x
      /\ r.ok => put' = Append(put, <<t, v>>) /\ marks' = Append(marks, r.x.ptr) /\ side' = side
      /\ ~r.ok => side' = "full" /\ put' = put /\ marks' = marks
  BY DEF Write, xdrmem_getpos
<1> HIDE DEF t, v, w, len, r, y
<1>8. CASE ~r.ok
  <2>1. put' = put /\ marks' = marks /\ fetched' = fetched /\ side' = "full"
    BY <1>1, <1>7, <1>8
  <2>2. Lengths' /\ Marked' /\ Matched'
    BY <2>1, SMTT(30) DEF Lengths, Marked, Matched, Until
  <2>3. OnTheWire' /\ Cursor'
    BY <2>1 DEF OnTheWire, Cursor
  <2> QED BY <2>2, <2>3
<1>9. CASE r.ok
  <2>1. xdrs.ptr + w <= Size
    BY <1>2, <1>6, <1>9
  <2>2. xdrs' = y /\ put' = Append(put, <<t, v>>) /\ marks' = Append(marks, y.ptr) /\ side' = "write"
    BY <1>1, <1>2, <1>6, <1>7, <1>9, <2>1
  <2> DEFINE b == xdrs.buf
             q == xdrs.ptr
             c == Wire(t, v)
  <2>3. b \in [1 .. Size -> Byte] /\ q \in Nat /\ q = Until(marks, len) /\ c \in [1 .. w -> Byte]
    BY <1>2, <1>3, <1>4 DEF IsStream
  <2>4. /\ Overwrite(b, q, c) = [i \in 1 .. Size |-> IF i \in q + 1 .. q + w THEN c[i - q] ELSE b[i]]
        /\ Overwrite(b, q, c) \in [1 .. Size -> Byte]
    <3>1. Size \in Nat /\ w \in Nat /\ b \in [1 .. Size -> Byte] /\ q \in Nat /\ c \in [1 .. w -> Byte]
      BY <1>2, <1>3, <2>3
    <3> HIDE DEF b, q, c
    <3> QED BY <3>1, Overwritten, Zenon
  <2>5. /\ IsStream(y, Size) /\ y.op = "encode" /\ y.end = Size /\ y.ptr = q + w
        /\ y.buf = Overwrite(b, q, c)
    <3>1. /\ IsStream(y, Size) /\ y.op = xdrs.op /\ y.end = xdrs.end /\ y.ptr = q + w
          /\ y.buf = Overwrite(b, q, c)
      BY <1>2, <1>3, <2>4, WrittenAs, SMTT(30) DEF y
    <3> QED BY <1>2, <3>1, SMTT(30)
  <2> HIDE DEF b, q, c
  <2>6. /\ put' \in Seq(Entries) /\ Len(put') = len + 1 /\ put'[len + 1] = <<t, v>>
        /\ \A k \in 1 .. len : put'[k] = put[k]
    BY <1>4, <1>5, <2>2 DEF Lengths, len
  <2>7. /\ marks' \in Seq(Nat) /\ Len(marks') = len + 1 /\ marks'[len + 1] = q + w
        /\ \A k \in 1 .. len : marks'[k] = marks[k]
    <3>1. y.ptr \in Nat
      BY <1>3, <2>3, <2>5
    <3> QED BY <1>4, <2>2, <2>5, <3>1, SMTT(30) DEF Lengths
  <2>8. \A k \in 0 .. len : Until(marks', k) = Until(marks, k)
    BY <1>4, <2>7 DEF Until
  <2>9. Until(marks', len + 1) = q + w
    BY <1>4, <2>7 DEF Until
  <2>10. Lengths'
    <3>1. fetched' \in Seq(Entries) /\ Len(fetched') = 0
      BY <1>1
    <3> QED BY <1>4, <2>6, <2>7, <3>1 DEF Lengths
  <2>11. Marked'
    <3>1. ASSUME NEW k \in 1 .. len
          PROVE  /\ WellTyped(put'[k][1], put'[k][2])
                 /\ marks'[k] = Until(marks', k - 1) + Width(put'[k][1])
                 /\ marks'[k] <= Until(marks', len + 1) /\ marks'[k] <= Size
      <4>1. WellTyped(put[k][1], put[k][2]) /\ marks[k] = Until(marks, k - 1) + Width(put[k][1])
            /\ marks[k] <= q /\ marks[k] <= Size /\ marks[k] \in Nat
        BY <1>4, <2>3 DEF Marked, Lengths, len
      <4>2. k - 1 \in 0 .. len
        BY <1>4
      <4>3. marks[k] <= q + w
        BY <1>3, <2>3, <4>1
      <4> QED BY <2>6, <2>7, <2>8, <2>9, <4>1, <4>2, <4>3
    <3>2. /\ WellTyped(put'[len + 1][1], put'[len + 1][2])
          /\ marks'[len + 1] = Until(marks', (len + 1) - 1) + Width(put'[len + 1][1])
          /\ marks'[len + 1] <= Until(marks', len + 1) /\ marks'[len + 1] <= Size
      <4>1. put'[len + 1][1] = t /\ put'[len + 1][2] = v
        BY <2>6
      <4>2. Until(marks', (len + 1) - 1) = q
        <5>1. (len + 1) - 1 = len /\ len \in 0 .. len
          BY <1>4
        <5> QED BY <2>3, <2>8, <5>1
      <4>3. q + w <= Size /\ q + w <= q + w
        BY <1>3, <2>1, <2>3 DEF q
      <4> QED BY <1>1, <2>7, <2>9, <4>1, <4>2, <4>3 DEF w
    <3>3. \A k \in 1 .. len + 1 : k \in 1 .. len \/ k = len + 1
      BY <1>4, SMTT(30)
    <3> QED BY <2>6, <3>1, <3>2, <3>3 DEF Marked
  <2>12. OnTheWire'
    <3>1. ASSUME NEW k \in 1 .. len, NEW o \in 1 .. Width(put'[k][1])
          PROVE  xdrs'.buf[Until(marks', k - 1) + o] = WireByte(put'[k][1], put'[k][2], o)
      <4>1. put'[k] = put[k] /\ k - 1 \in 0 .. len
        BY <1>4, <2>6
      <4>2. Until(marks', k - 1) = Until(marks, k - 1) /\ Until(marks, k - 1) \in Nat
        BY <2>8, <4>1, UntilNat DEF len
      <4>3. b[Until(marks, k - 1) + o] = WireByte(put[k][1], put[k][2], o)
        BY <1>1, <3>1, <4>1 DEF OnTheWire, len, b
      <4>4. Until(marks, k - 1) + Width(put[k][1]) <= q /\ Until(marks, k - 1) + Width(put[k][1]) <= Size
        BY <2>3 DEF Marked, len
      <4>5. Width(put[k][1]) \in Nat
        BY DEF Width
      <4>6. Until(marks, k - 1) + o \in 1 .. Size /\ Until(marks, k - 1) + o \notin q + 1 .. q + w
        BY <1>2, <1>3, <2>3, <3>1, <4>1, <4>2, <4>4, <4>5
      <4>7. y.buf[Until(marks, k - 1) + o] = b[Until(marks, k - 1) + o]
        BY <2>4, <2>5, <4>6, Zenon
      <4> QED BY <2>2, <4>1, <4>2, <4>3, <4>7, Zenon
    <3>2. ASSUME NEW o \in 1 .. Width(put'[len + 1][1])
          PROVE  xdrs'.buf[Until(marks', (len + 1) - 1) + o] = WireByte(put'[len + 1][1], put'[len + 1][2], o)
      <4>1. put'[len + 1][1] = t /\ put'[len + 1][2] = v /\ Width(put'[len + 1][1]) = w
        BY <2>6 DEF w
      <4>2. Until(marks', (len + 1) - 1) = q
        <5>1. (len + 1) - 1 = len /\ len \in 0 .. len
          BY <1>4
        <5> QED BY <2>3, <2>8, <5>1
      <4>3. q + o \in 1 .. Size /\ q + o \in q + 1 .. q + w /\ (q + o) - q = o /\ o \in 1 .. w
        BY <1>2, <1>3, <2>1, <2>3, <3>2, <4>1 DEF q
      <4>4. y.buf[q + o] = c[(q + o) - q]
        BY <2>4, <2>5, <4>3, Zenon
      <4>5. c[o] = WireByte(t, v, o)
        BY <4>3 DEF c, Wire, w
      <4> QED BY <2>2, <4>1, <4>2, <4>3, <4>4, <4>5, Zenon
    <3>3. \A k \in 1 .. len + 1 : k \in 1 .. len \/ k = len + 1
      BY <1>4
    <3>4. \A k \in 1 .. len + 1 : \A o \in 1 .. Width(put'[k][1]) :
             xdrs'.buf[Until(marks', k - 1) + o] = WireByte(put'[k][1], put'[k][2], o)
      BY <3>1, <3>2, <3>3
    <3> QED BY <2>2, <2>5, <2>6, <3>4 DEF OnTheWire
  <2>13. Cursor'
    BY <1>1, <2>2, <2>5, <2>6, <2>9, SMTT(30) DEF Cursor
  <2>14. Matched'
    <3>1. Len(fetched') = 0
      BY <1>1
    <3> QED BY <3>1 DEF Matched
  <2> QED BY <2>10, <2>11, <2>12, <2>13, <2>14
<1> QED BY <1>8, <1>9

\* The reader starts at the front, over no more bytes than were written.
LEMMA ArriveStep ==
  ASSUME XdrInv, NEW len \in 0 .. xdrs.ptr, Arrive(len)
  PROVE  XdrInv'
<1> USE DEF XdrInv
<1>1. /\ side = "write" /\ side' = "read" /\ put' = put /\ marks' = marks /\ fetched' = fetched /\ fetched = << >>
      /\ xdrs' = [op |-> "decode", buf |-> xdrs.buf, ptr |-> 0, end |-> len]
  BY DEF Arrive, Cursor, xdrmem_create
<1>2. IsStream(xdrs, Size) /\ xdrs.ptr = Until(marks, Len(put))
  BY <1>1 DEF OnTheWire, Cursor
<1>3. len \in Nat /\ len <= Size
  <2>1. xdrs.ptr \in Nat /\ xdrs.ptr <= Size
    <3>1. CASE Len(put) = 0
      BY <1>2, <3>1, SizeAssumption DEF Until, IsStream
    <3>2. CASE Len(put) # 0
      <4>1. Len(put) \in 1 .. Len(put)
        BY <3>2 DEF Lengths
      <4>2. marks[Len(put)] <= Size
        BY <4>1 DEF Marked
      <4> QED BY <1>2, <3>2, <4>2 DEF Until, IsStream
    <3> QED BY <3>1, <3>2
  <2> QED BY <2>1, SizeAssumption
<1>4. IsStream(xdrs', Size) /\ xdrs'.op = "decode" /\ xdrs'.buf = xdrs.buf /\ xdrs'.ptr = 0
  BY <1>1, <1>2, <1>3 DEF IsStream
<1>5. Lengths' /\ Marked' /\ Matched'
  BY <1>1, SMTT(30) DEF Lengths, Marked, Matched
<1>6. OnTheWire'
  BY <1>1, <1>4 DEF OnTheWire
<1>7. Cursor'
  <2>1. Len(fetched') = 0
    BY <1>1
  <2> QED BY <1>1, <1>4, <2>1 DEF Cursor, Until
<1> QED BY <1>5, <1>6, <1>7

\* What the reader has once it has taken one more.
LEMMA TakenEntry ==
  ASSUME NEW e \in Entries, fetched \in Seq(Entries), fetched' = Append(fetched, e)
  PROVE  /\ fetched' \in Seq(Entries) /\ Len(fetched') = Len(fetched) + 1
         /\ fetched'[Len(fetched) + 1] = e
         /\ \A k \in 1 .. Len(fetched) : fetched'[k] = fetched[k]
OBVIOUS

\* The reader takes the next item, whichever way.
LEMMA Taken ==
  ASSUME XdrInv, side = "read", side' = side, put' = put, marks' = marks,
         Len(fetched) < Len(put),
         NEW u \in Seq(Byte),
         fetched' = Append(fetched, <<put[Len(fetched) + 1][1], u>>),
         Object(put[Len(fetched) + 1][1], u) = Object(put[Len(fetched) + 1][1], put[Len(fetched) + 1][2]),
         xdrs' = Beyond(xdrs, Width(put[Len(fetched) + 1][1]))
  PROVE  XdrInv'
<1> DEFINE len == Len(fetched)
           t == put[len + 1][1]
           w == Width(t)
<1> USE DEF XdrInv
<1>1. len \in Nat /\ Len(put) \in Nat /\ len + 1 \in 1 .. Len(put) /\ len < Len(put)
  BY DEF Lengths
<1>2. WellTyped(t, put[len + 1][2]) /\ marks[len + 1] = Until(marks, len) + w
  <2>1. (len + 1) - 1 = len
    BY <1>1
  <2> QED BY <1>1, <2>1 DEF Marked
<1>3. w \in Nat /\ <<t, u>> \in Entries
  BY <1>2, TypedString, SMTT(30) DEF Width, Entries
<1>4. IsStream(xdrs, Size) /\ xdrs.op = "decode" /\ xdrs.ptr = Until(marks, len) /\ Size \in Nat
  BY SizeAssumption, SMTT(30) DEF OnTheWire, Cursor
<1>5. /\ IsStream(xdrs', Size) /\ xdrs'.op = "decode" /\ xdrs'.buf = xdrs.buf
      /\ xdrs'.ptr = Until(marks, len) + w
  <2> HIDE DEF w
  <2>1. xdrs' = Beyond(xdrs, w)
    BY DEF w
  <2>2. LET y == Beyond(xdrs, w)
        IN IsStream(y, Size) /\ y.op = xdrs.op /\ y.buf = xdrs.buf /\ y.end = xdrs.end /\ y.ptr = xdrs.ptr + w
    BY <1>3, <1>4, TakenFrom, Zenon
  <2> QED BY <1>4, <2>1, <2>2
<1>6. /\ fetched' \in Seq(Entries) /\ Len(fetched') = len + 1 /\ fetched'[len + 1] = <<t, u>>
      /\ \A k \in 1 .. len : fetched'[k] = fetched[k]
  <2> HIDE DEF t
  <2> DEFINE e == <<t, u>>
  <2>1. fetched \in Seq(Entries) /\ fetched' = Append(fetched, e) /\ e \in Entries
    BY <1>3 DEF Lengths, t
  <2> HIDE DEF e
  <2>2. /\ fetched' \in Seq(Entries) /\ Len(fetched') = len + 1 /\ fetched'[len + 1] = e
        /\ \A k \in 1 .. len : fetched'[k] = fetched[k]
    BY <2>1, TakenEntry, ZenonT(30)
  <2> QED BY <2>2 DEF e
<1> HIDE DEF len, t, w
<1>7. Lengths'
  BY <1>1, <1>6 DEF Lengths
<1>8. Marked'
  BY DEF Marked
<1>9. OnTheWire'
  BY <1>5, SMTT(30) DEF OnTheWire
<1>10. Cursor'
  <2>1. Until(marks', Len(fetched')) = Until(marks, len) + w
    BY <1>1, <1>2, <1>6, SMTT(30) DEF Until
  <2> QED BY <1>5, <2>1 DEF Cursor
<1>11. Matched'
  <2>1. \A k \in 1 .. len + 1 : k \in 1 .. len \/ k = len + 1
    BY <1>1
  <2>2. \A k \in 1 .. len : /\ fetched'[k][1] = put[k][1]
                          /\ Object(fetched'[k][1], fetched'[k][2]) = Object(put[k][1], put[k][2])
    BY <1>6 DEF Matched, len
  <2>3. /\ fetched'[len + 1][1] = put[len + 1][1]
        /\ Object(fetched'[len + 1][1], fetched'[len + 1][2]) = Object(put[len + 1][1], put[len + 1][2])
    BY <1>6, SMTT(30) DEF t, len
  <2> QED BY <1>6, <2>1, <2>2, <2>3 DEF Matched
<1> QED BY <1>7, <1>8, <1>9, <1>10, <1>11

\* What the reader finds at its cursor.
LEMMA NextItem ==
  ASSUME XdrInv, side = "read", Len(fetched) < Len(put)
  PROVE  LET item == put[Len(fetched) + 1]
         IN /\ WellTyped(item[1], item[2]) /\ item = <<item[1], item[2]>>
            /\ IsStream(xdrs, Size) /\ xdrs.op = "decode"
            /\ \A o \in 1 .. Width(item[1]) : xdrs.buf[xdrs.ptr + o] = WireByte(item[1], item[2], o)
<1> DEFINE len == Len(fetched)
<1> USE DEF XdrInv
<1>1. len + 1 \in 1 .. Len(put) /\ (len + 1) - 1 = len
  BY DEF Lengths
<1>2. put[len + 1] \in Entries
  BY <1>1 DEF Lengths
<1>3. WellTyped(put[len + 1][1], put[len + 1][2])
  BY <1>1 DEF Marked
<1>4. IsStream(xdrs, Size) /\ xdrs.op = "decode" /\ xdrs.ptr = Until(marks, len)
  BY DEF OnTheWire, Cursor
<1>5. \A o \in 1 .. Width(put[len + 1][1]) : xdrs.buf[Until(marks, len) + o] = WireByte(put[len + 1][1], put[len + 1][2], o)
  BY <1>1 DEF OnTheWire
<1>6. put[len + 1] = <<put[len + 1][1], put[len + 1][2]>>
  BY <1>2 DEF Entries
<1> QED BY <1>3, <1>4, <1>5, <1>6

\* Reading takes the next item whole, or the reader stops.
LEMMA ReadStep ==
  ASSUME XdrInv, Read
  PROVE  XdrInv'
<1> DEFINE item == put[Len(fetched) + 1]
           t == item[1]
           v == item[2]
           g == [o \in 1 .. Len(item[2]) |-> Garbage]
           r == Xdr(xdrs, t, g)
<1>1. side = "read" /\ Len(fetched) < Len(put) /\ put' = put /\ marks' = marks
  BY DEF Read
<1>2. /\ xdrs' = r.x
      /\ r.ok => fetched' = Append(fetched, <<t, r.v>>) /\ side' = side
      /\ ~r.ok => side' = "short" /\ fetched' = fetched
  BY DEF Read
<1>3. /\ WellTyped(t, v) /\ IsStream(xdrs, Size) /\ xdrs.op = "decode" /\ Size \in Nat
      /\ \A o \in 1 .. Width(t) : xdrs.buf[xdrs.ptr + o] = WireByte(t, v, o)
  BY <1>1, NextItem, SizeAssumption, SMTT(30)
<1> HIDE DEF g
<1>4. /\ xdrs.ptr + Width(t) <= xdrs.end =>
           r.ok /\ r.x = Beyond(xdrs, Width(t)) /\ Object(t, r.v) = Object(t, v) /\ r.v \in Seq(Byte)
      /\ ~(xdrs.ptr + Width(t) <= xdrs.end) => ~r.ok
  <2> HIDE DEF t, v, item
  <2> QED BY <1>3, Decoded, SMTT(30)
<1>5. CASE r.ok
  <2> DEFINE u == r.v
  <2>1. u \in Seq(Byte) /\ Object(t, u) = Object(t, v) /\ xdrs' = Beyond(xdrs, Width(t))
        /\ fetched' = Append(fetched, <<t, u>>) /\ side' = side
    <3> HIDE DEF r, t, v
    <3> QED BY <1>2, <1>4, <1>5
  <2> HIDE DEF u, r
  <2> QED BY <1>1, <2>1, Taken
<1>6. CASE ~r.ok
  <2>1. side' = "short" /\ fetched' = fetched
    BY <1>2, <1>6
  <2>2. Lengths' /\ Marked' /\ Matched'
    BY <1>1, <2>1, SMTT(30) DEF XdrInv, Lengths, Marked, Matched
  <2>3. OnTheWire' /\ Cursor'
    BY <2>1 DEF OnTheWire, Cursor
  <2> QED BY <2>2, <2>3 DEF XdrInv
<1> QED BY <1>5, <1>6

\* A reader sent back to a mark is at the end of the item the mark is of.
LEMMA RewindStep ==
  ASSUME XdrInv, NEW k \in 0 .. Len(fetched) - 1, Rewind(k)
  PROVE  XdrInv'
<1> USE DEF XdrInv
<1>1. side = "read" /\ side' = side /\ put' = put /\ marks' = marks /\ fetched' = SubSeq(fetched, 1, k)
  BY DEF Rewind
<1>2. fetched \in Seq(Entries) /\ Len(fetched) <= Len(put) /\ k \in Nat /\ k <= Len(fetched) /\ Len(put) \in Nat
  BY SMTT(30) DEF Lengths
<1>3. IsStream(xdrs, Size) /\ xdrs.op = "decode" /\ Size \in Nat
  BY <1>1, SizeAssumption DEF OnTheWire, Cursor
<1>4. Mark(k) = Until(marks, k) /\ Until(marks, k) \in Nat
  BY <1>2 DEF Mark, Until, Lengths
<1>5. xdrs' = [[xdrs EXCEPT !.ptr = Until(marks, k)] EXCEPT !.ptr = @ + 0]
  BY <1>4 DEF Rewind, xdrmem_setpos, Advanced, Refused
<1>6. IsStream(xdrs', Size) /\ xdrs'.op = "decode" /\ xdrs'.buf = xdrs.buf /\ xdrs'.ptr = Until(marks, k)
  <2> DEFINE y == [xdrs EXCEPT !.ptr = Until(marks, k)]
  <2>1. IsStream(y, Size) /\ y.op = "decode" /\ y.buf = xdrs.buf /\ y.ptr = Until(marks, k)
    BY <1>3, <1>4 DEF IsStream
  <2>2. xdrs' = Beyond(y, 0) /\ 0 \in Nat
    BY <1>5 DEF Beyond
  <2> HIDE DEF y
  <2>3. LET z == Beyond(y, 0)
        IN IsStream(z, Size) /\ z.op = y.op /\ z.buf = y.buf /\ z.end = y.end /\ z.ptr = y.ptr + 0
    BY <1>3, <2>1, <2>2, TakenFrom, Zenon
  <2> QED BY <1>4, <2>1, <2>2, <2>3
<1>7. fetched' \in Seq(Entries) /\ Len(fetched') = k /\ \A o \in 1 .. k : fetched'[o] = fetched[o]
  BY <1>1, <1>2
<1>8. Lengths'
  BY <1>1, <1>2, <1>7 DEF Lengths
<1>9. Marked'
  BY <1>1 DEF Marked
<1>10. OnTheWire'
  BY <1>1, <1>6 DEF OnTheWire
<1>11. Cursor'
  BY <1>1, <1>6, <1>7 DEF Cursor
<1>12. Matched'
  BY <1>1, <1>2, <1>7 DEF Matched
<1> QED BY <1>8, <1>9, <1>10, <1>11, <1>12

\* A reader that skips by xdr_sizeof is at the end of the next item.
LEMMA SkipStep ==
  ASSUME XdrInv, Skip
  PROVE  XdrInv'
<1> DEFINE item == put[Len(fetched) + 1]
           t == item[1]
           v == item[2]
<1>1. side = "read" /\ side' = side /\ Len(fetched) < Len(put) /\ put' = put /\ marks' = marks
      /\ fetched' = Append(fetched, item)
  BY DEF Skip
<1>2. WellTyped(t, v) /\ item = <<t, v>>
  BY <1>1, NextItem
<1>3. xdr_sizeof(t, v) = Width(t)
  BY <1>2, SizeOf
<1>4. xdrs' = Beyond(xdrs, Width(t))
  BY <1>3 DEF Skip, xdrmem_inline, Advanced, Refused, Beyond
<1>5. v \in Seq(Byte) /\ fetched' = Append(fetched, <<t, v>>)
  BY <1>1, <1>2, TypedString
<1> HIDE DEF v
<1>6. Object(t, v) = Object(t, item[2])
  BY DEF v
<1> QED BY <1>1, <1>4, <1>5, <1>6, Taken

\* xdr.c: for every list of items a program can write, every size of the buffer
\* and every place where the datagram was cut, each value read is the value
\* written.
THEOREM XdrRoundTrip == XdrSpec => []RoundTrip
<1>1. XdrInit => XdrInv
  BY XdrStart
<1>2. XdrInv /\ [XdrNext]_xdrVars => XdrInv'
  <2> SUFFICES ASSUME XdrInv, [XdrNext]_xdrVars
               PROVE  XdrInv'
    OBVIOUS
  <2>1. ASSUME NEW item \in Items, Write(item[1], item[2])
        PROVE  XdrInv'
    BY <2>1, WriteStep
  <2>2. ASSUME NEW len \in 0 .. xdrs.ptr, Arrive(len)
        PROVE  XdrInv'
    BY <2>2, ArriveStep
  <2>3. CASE Read
    BY <2>3, ReadStep
  <2>4. ASSUME NEW k \in 0 .. Len(fetched) - 1, Rewind(k)
        PROVE  XdrInv'
    BY <2>4, RewindStep, SMTT(30)
  <2>5. CASE Skip
    BY <2>5, SkipStep
  <2>6. CASE UNCHANGED xdrVars
    BY <2>6 DEF xdrVars, XdrInv, Lengths, Marked, OnTheWire, Cursor, Matched
  <2> QED BY <2>1, <2>2, <2>3, <2>4, <2>5, <2>6 DEF XdrNext
<1>3. XdrInv => RoundTrip
  <2> SUFFICES ASSUME XdrInv
               PROVE  RoundTrip
    OBVIOUS
  <2>1. DOMAIN fetched = 1 .. Len(fetched)
    BY DEF XdrInv, Lengths
  <2> QED BY <2>1 DEF XdrInv, Matched, RoundTrip
<1> QED BY <1>1, <1>2, <1>3, PTL DEF XdrSpec

-----------------------------------------------------------------------------
(* SHA-256.                                                                *)

Octets == Int \cup {CountByte(bits, q) : bits \in Nat, q \in Nat}

\* The bytes appended so far, and what the padded message will have.
Compressed == BLOCK * Len(state)
Fed == Compressed + datalen
Total == IF phase \in {"update", "zeros"} THEN Fed + LENGTH ELSE Fed + owed

ShaTypes ==
  /\ data \in [0 .. BLOCK - 1 -> Octets] /\ datalen \in 0 .. BLOCK - 1
  /\ bitlen \in Nat /\ n_bits \in Nat /\ owed \in Nat
  /\ state \in Seq([0 .. BLOCK - 1 -> Octets]) /\ message \in Seq(Octets)
  /\ phase \in {"update", "zeros", "length", "done"}

\* Every byte appended is the one the padded message has there.
FedAsPadded ==
  /\ \A b \in 1 .. Len(state) : \A o \in 0 .. BLOCK - 1 :
       state[b][o] = Padded(message, Total, BLOCK * (b - 1) + o)
  /\ \A o \in 0 .. datalen - 1 : data[o] = Padded(message, Total, Compressed + o)

\* The counts; the zeros end in the first block that has room for the length.
Counts ==
  /\ phase = "update" => bitlen = 8 * Len(message) /\ Fed = Len(message)
  /\ phase # "update" => n_bits = 8 * Len(message) /\ Len(message) + 1 + LENGTH <= Total
  /\ phase = "zeros" => IF datalen <= BLOCK - LENGTH
                        THEN Compressed < Len(message) + 1 + LENGTH
                        ELSE Compressed + BLOCK < Len(message) + 1 + LENGTH
  /\ phase \in {"length", "done"} => Total < Len(message) + 1 + LENGTH + BLOCK
  /\ phase = "length" => owed \in 1 .. LENGTH /\ datalen + owed = BLOCK
  /\ phase = "done" => owed = 0 /\ datalen = 0

ShaInv == ShaTypes /\ FedAsPadded /\ Counts
-----------------------------------------------------------------------------
\* One byte more: what sha256_append_byte does to the bytes appended so far.
LEMMA AppendByte ==
  ASSUME ShaTypes, NEW byte \in Octets, sha256_append_byte(byte)
  PROVE  /\ data' \in [0 .. BLOCK - 1 -> Octets] /\ datalen' \in 0 .. BLOCK - 1
         /\ state' \in Seq([0 .. BLOCK - 1 -> Octets]) /\ bitlen' = bitlen + 8
         /\ Fed \in Nat /\ Fed' = Fed + 1
         /\ \/ datalen + 1 < BLOCK /\ datalen' = datalen + 1 /\ Compressed' = Compressed
            \/ datalen + 1 = BLOCK /\ datalen' = 0 /\ Compressed' = Compressed + BLOCK
         /\ Len(state) \in Nat /\ Compressed \in Nat
<1>1. /\ data \in [0 .. BLOCK - 1 -> Octets] /\ datalen \in Nat /\ datalen < BLOCK
      /\ state \in Seq([0 .. BLOCK - 1 -> Octets]) /\ Len(state) \in Nat /\ BLOCK \in Nat
      /\ datalen \in 0 .. BLOCK - 1
  BY Sha256Assumption DEF ShaTypes
<1> DEFINE filled == [data EXCEPT ![datalen] = byte]
<1>2. filled \in [0 .. BLOCK - 1 -> Octets]
  BY <1>1
<1>3. /\ data' = filled /\ bitlen' = bitlen + 8
      /\ datalen' = IF datalen + 1 = BLOCK THEN 0 ELSE datalen + 1
      /\ state' = IF datalen + 1 = BLOCK THEN Append(state, filled) ELSE state
  BY DEF sha256_append_byte
<1> HIDE DEF filled
<1>4. Compressed \in Nat
  BY <1>1 DEF Compressed
<1>5. CASE datalen + 1 = BLOCK
  <2>1. state' \in Seq([0 .. BLOCK - 1 -> Octets]) /\ Len(state') = Len(state) + 1
    BY <1>1, <1>2, <1>3, <1>5
  <2>2. Compressed' = Compressed + BLOCK
    BY <1>1, <2>1 DEF Compressed
  <2> QED BY <1>1, <1>2, <1>3, <1>4, <1>5, <2>1, <2>2 DEF Fed
<1>6. CASE datalen + 1 # BLOCK
  <2>1. Compressed' = Compressed
    BY <1>3, <1>6 DEF Compressed
  <2> QED BY <1>1, <1>2, <1>3, <1>4, <1>6, <2>1 DEF Fed
<1> QED BY <1>5, <1>6

\* It is one more byte of the padded message.
LEMMA AppendPadded ==
  ASSUME ShaTypes, FedAsPadded, NEW byte \in Octets, sha256_append_byte(byte),
         \A q \in Nat : q < Fed => Padded(message', Total', q) = Padded(message, Total, q),
         byte = Padded(message', Total', Fed)
  PROVE  FedAsPadded'
<1> DEFINE filled == [data EXCEPT ![datalen] = byte]
           P(q) == Padded(message, Total, q)
           Q(q) == Padded(message', Total', q)
<1>1. /\ data \in [0 .. BLOCK - 1 -> Octets] /\ datalen \in Nat /\ datalen < BLOCK
      /\ state \in Seq([0 .. BLOCK - 1 -> Octets]) /\ Len(state) \in Nat /\ BLOCK \in Nat
      /\ datalen \in 0 .. BLOCK - 1
  BY Sha256Assumption DEF ShaTypes
<1>2. /\ data' = filled
      /\ datalen' = IF datalen + 1 = BLOCK THEN 0 ELSE datalen + 1
      /\ state' = IF datalen + 1 = BLOCK THEN Append(state, filled) ELSE state
  BY DEF sha256_append_byte
<1>3. /\ filled \in [0 .. BLOCK - 1 -> Octets] /\ filled[datalen] = byte
      /\ \A o \in 0 .. datalen - 1 : filled[o] = data[o]
  BY <1>1
<1>4. /\ \A b \in 1 .. Len(state) : \A o \in 0 .. BLOCK - 1 : state[b][o] = P(BLOCK * (b - 1) + o)
      /\ \A o \in 0 .. datalen - 1 : data[o] = P(Compressed + o)
  BY DEF FedAsPadded
<1>5. (\A q \in Nat : q < Fed => Q(q) = P(q)) /\ byte = Q(Fed)
  OBVIOUS
<1>6. Compressed \in Nat /\ Fed = Compressed + datalen
  BY <1>1 DEF Fed, Compressed
<1> HIDE DEF P, Q, filled
<1>7. \A b \in 1 .. Len(state) : \A o \in 0 .. BLOCK - 1 : state[b][o] = Q(BLOCK * (b - 1) + o)
  <2> TAKE b \in 1 .. Len(state)
  <2> TAKE o \in 0 .. BLOCK - 1
  <2>1. BLOCK * (b - 1) + BLOCK <= Compressed /\ BLOCK * (b - 1) \in Nat
    <3>1. \A x, y \in Nat : x * y \in Nat
      OBVIOUS
    <3>2. b - 1 \in Nat /\ Len(state) - b \in Nat
      BY <1>1
    <3>3. BLOCK * (b - 1) \in Nat /\ BLOCK * (Len(state) - b) \in Nat
      BY <1>1, <3>1, <3>2, Zenon
    <3>4. Compressed = BLOCK * (b - 1) + BLOCK + BLOCK * (Len(state) - b)
      BY <1>1, <3>2 DEF Compressed
    <3> QED BY <1>1, <1>6, <3>3, <3>4
  <2>2. BLOCK * (b - 1) + o \in Nat /\ BLOCK * (b - 1) + o < Fed
    <3> DEFINE z == BLOCK * (b - 1)
    <3> HIDE DEF z
    <3>1. z \in Nat /\ z + BLOCK <= Compressed
      BY <2>1 DEF z
    <3>2. z + o \in Nat /\ z + o < Fed
      BY <1>1, <1>6, <3>1
    <3> QED BY <3>2 DEF z
  <2> QED BY <1>4, <1>5, <2>2
<1>8. \A o \in 0 .. datalen : filled[o] = Q(Compressed + o)
  <2> TAKE o \in 0 .. datalen
  <2>1. CASE o = datalen
    BY <1>3, <1>5, <1>6, <2>1
  <2>2. CASE o # datalen
    <3>1. o \in 0 .. datalen - 1 /\ Compressed + o \in Nat /\ Compressed + o < Fed
      BY <1>1, <1>6, <2>2, SMTT(30)
    <3> QED BY <1>3, <1>4, <1>5, <3>1
  <2> QED BY <2>1, <2>2
<1>9. CASE datalen + 1 = BLOCK
  <2>1. /\ state' = Append(state, filled) /\ datalen' = 0
        /\ Len(state') = Len(state) + 1 /\ state'[Len(state) + 1] = filled
        /\ \A b \in 1 .. Len(state) : state'[b] = state[b]
    BY <1>1, <1>2, <1>3, <1>9
  <2>2. \A b \in 1 .. Len(state') : \A o \in 0 .. BLOCK - 1 : state'[b][o] = Q(BLOCK * (b - 1) + o)
    <3> TAKE b \in 1 .. Len(state')
    <3>1. CASE b \in 1 .. Len(state)
      BY <1>7, <2>1, <3>1
    <3>2. CASE b = Len(state) + 1
      <4>1. b - 1 = Len(state) /\ 0 .. BLOCK - 1 = 0 .. datalen
        BY <1>1, <1>9, <3>2
      <4> QED BY <1>8, <2>1, <3>2, <4>1, Zenon DEF Compressed
    <3> QED BY <1>1, <2>1, <3>1, <3>2
  <2>3. \A o \in 0 .. datalen' - 1 : FALSE
    BY <2>1, SMTT(30)
  <2> QED BY <2>2, <2>3, SMTT(30) DEF FedAsPadded, Q
<1>10. CASE datalen + 1 # BLOCK
  <2>1. state' = state /\ datalen' - 1 = datalen /\ data' = filled
    BY <1>1, <1>2, <1>10
  <2> QED BY <1>7, <1>8, <2>1 DEF FedAsPadded, Q, Compressed
<1> QED BY <1>9, <1>10

LEMMA ShaInvInit == sha256_init => ShaInv
<1> SUFFICES ASSUME sha256_init PROVE ShaInv
  OBVIOUS
<1>1. /\ BLOCK \in Nat /\ LENGTH \in Nat /\ 0 < LENGTH /\ LENGTH < BLOCK
      /\ Len(state) = 0 /\ Len(message) = 0 /\ datalen = 0 /\ bitlen = 0 /\ phase = "update"
  BY Sha256Assumption DEF sha256_init
<1>2. ShaTypes
  BY <1>1 DEF sha256_init, ShaTypes, Octets
<1>3. Compressed = 0 /\ Fed = 0
  BY <1>1 DEF Fed, Compressed
<1> QED BY <1>1, <1>2, <1>3 DEF ShaInv, FedAsPadded, Counts

LEMMA UpdateStep == ASSUME ShaInv, NEW byte \in Bytes, sha256_update(byte) PROVE ShaInv'
<1>1. /\ byte \in Octets /\ BLOCK \in Nat /\ LENGTH \in Nat /\ 0 < LENGTH /\ LENGTH < BLOCK
  BY Sha256Assumption DEF Octets
<1>2. /\ sha256_append_byte(byte) /\ message' = Append(message, byte)
      /\ phase = "update" /\ phase' = "update" /\ UNCHANGED <<n_bits, owed>>
  BY DEF sha256_update
<1>3. ShaTypes /\ FedAsPadded /\ bitlen = 8 * Len(message) /\ Fed = Len(message) /\ bitlen \in Nat
  BY <1>2 DEF ShaInv, Counts, ShaTypes
<1>4. /\ data' \in [0 .. BLOCK - 1 -> Octets] /\ datalen' \in 0 .. BLOCK - 1
      /\ state' \in Seq([0 .. BLOCK - 1 -> Octets]) /\ bitlen' = bitlen + 8
      /\ Fed \in Nat /\ Fed' = Fed + 1
  BY <1>1, <1>2, <1>3, AppendByte
<1>5. /\ message \in Seq(Octets) /\ message' \in Seq(Octets) /\ Len(message') = Len(message) + 1
      /\ message'[Len(message) + 1] = byte /\ Len(message) \in Nat
      /\ \A q \in 1 .. Len(message) : message'[q] = message[q]
  BY <1>1, <1>2, <1>3 DEF ShaTypes
<1>6. \A q \in Nat : q < Fed => Padded(message', Total', q) = Padded(message, Total, q)
  <2> TAKE q \in Nat
  <2> SUFFICES ASSUME q < Fed PROVE Padded(message', Total', q) = Padded(message, Total, q)
    OBVIOUS
  <2>1. q < Len(message) /\ q < Len(message') /\ q + 1 \in 1 .. Len(message)
    BY <1>3, <1>5
  <2> QED BY <1>5, <2>1 DEF Padded
<1>7. byte = Padded(message', Total', Fed)
  BY <1>3, <1>5 DEF Padded
<1>8. FedAsPadded'
  BY <1>1, <1>2, <1>3, <1>6, <1>7, AppendPadded
<1>9. ShaTypes'
  BY <1>2, <1>3, <1>4, <1>5 DEF ShaTypes
<1>10. Counts'
  BY <1>2, <1>3, <1>4, <1>5 DEF Counts
<1> QED BY <1>8, <1>9, <1>10 DEF ShaInv

LEMMA FinalStep == ASSUME ShaInv, sha256_final PROVE ShaInv'
<1>1. /\ 128 \in Octets /\ BLOCK \in Nat /\ LENGTH \in Nat /\ 0 < LENGTH /\ LENGTH < BLOCK
  BY Sha256Assumption DEF Octets
<1>2. /\ sha256_append_byte(128) /\ message' = message /\ n_bits' = bitlen
      /\ phase = "update" /\ phase' = "zeros" /\ UNCHANGED owed
  BY DEF sha256_final
<1>3. /\ ShaTypes /\ FedAsPadded /\ bitlen = 8 * Len(message) /\ Fed = Len(message) /\ bitlen \in Nat
      /\ datalen \in Nat /\ Len(message) \in Nat /\ Fed = Compressed + datalen
  BY <1>2 DEF ShaInv, Counts, ShaTypes, Fed
<1>4. /\ data' \in [0 .. BLOCK - 1 -> Octets] /\ datalen' \in 0 .. BLOCK - 1
      /\ state' \in Seq([0 .. BLOCK - 1 -> Octets]) /\ bitlen' = bitlen + 8
      /\ Fed \in Nat /\ Fed' = Fed + 1
      /\ \/ datalen + 1 < BLOCK /\ datalen' = datalen + 1 /\ Compressed' = Compressed
         \/ datalen + 1 = BLOCK /\ datalen' = 0 /\ Compressed' = Compressed + BLOCK
      /\ Len(state) \in Nat /\ Compressed \in Nat
  BY <1>1, <1>2, <1>3, AppendByte, Zenon
<1>5. Total = Fed + LENGTH /\ Total' = Fed + 1 + LENGTH
  BY <1>2, <1>4 DEF Total
<1>6. \A q \in Nat : q < Fed => Padded(message', Total', q) = Padded(message, Total, q)
  BY <1>2, <1>3 DEF Padded
<1>7. 128 = Padded(message', Total', Fed)
  BY <1>2, <1>3 DEF Padded
<1>8. FedAsPadded'
  BY <1>1, <1>2, <1>3, <1>6, <1>7, AppendPadded
<1>9. ShaTypes'
  BY <1>2, <1>3, <1>4 DEF ShaTypes
<1>10. Counts'
  <2>1. n_bits' = 8 * Len(message') /\ Len(message') + 1 + LENGTH <= Total'
    BY <1>1, <1>2, <1>3, <1>5
  <2>2. IF datalen' <= BLOCK - LENGTH
        THEN Compressed' < Len(message') + 1 + LENGTH
        ELSE Compressed' + BLOCK < Len(message') + 1 + LENGTH
    BY <1>1, <1>2, <1>3, <1>4
  <2> QED BY <1>2, <2>1, <2>2 DEF Counts
<1> QED BY <1>8, <1>9, <1>10 DEF ShaInv

LEMMA ZeroPadStep == ASSUME ShaInv, ZeroPad PROVE ShaInv'
<1>1. BLOCK \in Nat /\ LENGTH \in Nat /\ 0 < LENGTH /\ LENGTH < BLOCK /\ 0 \in Octets
  BY Sha256Assumption DEF Octets
<1>2. phase = "zeros" /\ message' = message /\ n_bits' = n_bits
  BY DEF ZeroPad
<1>3. /\ ShaTypes /\ FedAsPadded /\ n_bits = 8 * Len(message) /\ Len(message) + 1 + LENGTH <= Total
      /\ IF datalen <= BLOCK - LENGTH
         THEN Compressed < Len(message) + 1 + LENGTH
         ELSE Compressed + BLOCK < Len(message) + 1 + LENGTH
      /\ datalen \in Nat /\ datalen < BLOCK /\ Len(message) \in Nat /\ Total = Fed + LENGTH
      /\ Fed = Compressed + datalen
  BY <1>1, <1>2 DEF ShaInv, Counts, ShaTypes, Fed, Total
<1>a. Compressed \in Nat
  BY <1>1, <1>3 DEF ShaTypes, Compressed
<1>4. CASE datalen # BLOCK - LENGTH /\ sha256_append_byte(0) /\ UNCHANGED <<owed, phase>>
  <2>1. /\ data' \in [0 .. BLOCK - 1 -> Octets] /\ datalen' \in 0 .. BLOCK - 1
        /\ state' \in Seq([0 .. BLOCK - 1 -> Octets]) /\ bitlen' = bitlen + 8
        /\ Fed \in Nat /\ Fed' = Fed + 1
        /\ \/ datalen + 1 < BLOCK /\ datalen' = datalen + 1 /\ Compressed' = Compressed
           \/ datalen + 1 = BLOCK /\ datalen' = 0 /\ Compressed' = Compressed + BLOCK
    BY <1>1, <1>3, <1>4, AppendByte, Zenon
  <2>2. Total' = Fed + 1 + LENGTH
    BY <1>2, <1>4, <2>1 DEF Total
  <2>3. \A q \in Nat : q < Fed => Padded(message', Total', q) = Padded(message, Total, q)
    BY <1>1, <1>a, <1>2, <1>3, <2>1, <2>2 DEF Padded
  <2>4. 0 = Padded(message', Total', Fed)
    BY <1>1, <1>a, <1>2, <1>3, <2>1, <2>2 DEF Padded
  <2>5. FedAsPadded'
    BY <1>1, <1>3, <1>4, <2>3, <2>4, AppendPadded
  <2>6. ShaTypes'
    BY <1>2, <1>3, <1>4, <2>1 DEF ShaTypes
  <2>7. Len(message') + 1 + LENGTH <= Total'
    BY <1>1, <1>a, <1>2, <1>3, <2>1, <2>2
  <2>8. IF datalen' <= BLOCK - LENGTH
        THEN Compressed' < Len(message') + 1 + LENGTH
        ELSE Compressed' + BLOCK < Len(message') + 1 + LENGTH
    <3> DEFINE least == Len(message) + 1 + LENGTH
    <3>1. least \in Nat /\ least = Len(message') + 1 + LENGTH
      BY <1>1, <1>2, <1>3
    <3>2. \/ datalen < BLOCK - LENGTH /\ Compressed < least
          \/ BLOCK - LENGTH < datalen /\ Compressed + BLOCK < least
      BY <1>1, <1>a, <1>3, <1>4
    <3> HIDE DEF least
    <3>3. \/ datalen' <= BLOCK - LENGTH /\ Compressed' < least
          \/ BLOCK - LENGTH < datalen' /\ Compressed' + BLOCK < least
      BY <1>1, <1>a, <2>1, <3>1, <3>2, <1>3, SMTT(30)
    <3> QED BY <1>1, <2>1, <3>1, <3>3
  <2>9. Counts'
    <3>1. phase' = "zeros" /\ n_bits' = 8 * Len(message')
      BY <1>2, <1>3, <1>4
    <3> QED BY <2>7, <2>8, <3>1 DEF Counts
  <2> QED BY <2>5, <2>6, <2>9 DEF ShaInv
<1>5. CASE /\ datalen = BLOCK - LENGTH /\ owed' = LENGTH /\ phase' = "length"
           /\ UNCHANGED <<data, datalen, bitlen, state>>
  <2>0. Compressed' = Compressed /\ UNCHANGED <<state, data, datalen>>
    BY <1>5 DEF Compressed
  <2>1. Total' = Total /\ Fed' = Fed
    <3>1. Fed' = Fed
      BY <2>0 DEF Fed
    <3> QED BY <1>3, <1>5, <3>1 DEF Total
  <2>2. FedAsPadded'
    <3>1. FedAsPadded /\ message' = message
      BY <1>2, <1>3
    <3> QED BY <3>1, <2>0, <2>1 DEF FedAsPadded
  <2>3. ShaTypes'
    BY <1>1, <1>a, <1>2, <1>3, <1>5 DEF ShaTypes
  <2>4. Total < Len(message) + 1 + LENGTH + BLOCK
    BY <1>1, <1>a, <1>3, <1>5
  <2>5. Counts'
    BY <1>1, <1>a, <1>2, <1>3, <1>5, <2>1, <2>4 DEF Counts
  <2> QED BY <2>2, <2>3, <2>5 DEF ShaInv
<1> QED BY <1>4, <1>5 DEF ZeroPad

LEMMA AppendLengthStep == ASSUME ShaInv, AppendLength PROVE ShaInv'
<1> DEFINE byte == CountByte(n_bits, owed - 1)
<1>1. BLOCK \in Nat /\ LENGTH \in Nat /\ 0 < LENGTH /\ LENGTH < BLOCK
  BY Sha256Assumption
<1>2. /\ phase = "length" /\ message' = message /\ n_bits' = n_bits /\ owed' = owed - 1
      /\ sha256_append_byte(byte) /\ phase' = IF owed = 1 THEN "done" ELSE "length"
  BY DEF AppendLength
<1>3. /\ ShaTypes /\ FedAsPadded /\ n_bits = 8 * Len(message) /\ Len(message) + 1 + LENGTH <= Total
      /\ Total < Len(message) + 1 + LENGTH + BLOCK
      /\ owed \in 1 .. LENGTH /\ datalen + owed = BLOCK
      /\ datalen \in Nat /\ datalen < BLOCK /\ Len(message) \in Nat /\ Total = Fed + owed
      /\ Fed = Compressed + datalen
  BY <1>1, <1>2 DEF ShaInv, Counts, ShaTypes, Fed, Total
<1>a. Compressed \in Nat
  BY <1>1, <1>3 DEF ShaTypes, Compressed
<1>4. byte \in Octets
  <2>1. n_bits \in Nat /\ owed - 1 \in Nat
    BY <1>3 DEF ShaTypes
  <2> QED BY <2>1 DEF Octets
<1> HIDE DEF byte
<1>5. /\ data' \in [0 .. BLOCK - 1 -> Octets] /\ datalen' \in 0 .. BLOCK - 1
      /\ state' \in Seq([0 .. BLOCK - 1 -> Octets]) /\ bitlen' = bitlen + 8
      /\ Fed \in Nat /\ Fed' = Fed + 1
      /\ \/ datalen + 1 < BLOCK /\ datalen' = datalen + 1 /\ Compressed' = Compressed
         \/ datalen + 1 = BLOCK /\ datalen' = 0 /\ Compressed' = Compressed + BLOCK
  BY <1>2, <1>3, <1>4, AppendByte, Zenon
<1>6. Total' = Total
  BY <1>1, <1>a, <1>2, <1>3, <1>5 DEF Total
<1>7. \A q \in Nat : q < Fed => Padded(message', Total', q) = Padded(message, Total, q)
  BY <1>2, <1>6
<1>8. byte = Padded(message', Total', Fed)
  <2>1. Total - 1 - Fed = owed - 1 /\ ~(Fed < Total - LENGTH) /\ ~(Fed < Len(message)) /\ Fed # Len(message)
    BY <1>1, <1>a, <1>3, <1>5
  <2>2. Padded(message, Total, Fed) = CountByte(8 * Len(message), Total - 1 - Fed)
    BY <2>1, Zenon DEF Padded
  <2> QED BY <1>2, <1>3, <1>6, <2>1, <2>2, Zenon DEF byte
<1>9. FedAsPadded'
  BY <1>2, <1>3, <1>4, <1>7, <1>8, AppendPadded
<1>10. ShaTypes'
  BY <1>2, <1>3, <1>5 DEF ShaTypes
<1>11. Counts'
  <2>1. CASE owed = 1
    <3>1. datalen' = 0 /\ owed' = 0 /\ phase' = "done"
      BY <1>1, <1>a, <1>2, <1>3, <1>5, <2>1
    <3> QED BY <1>2, <1>3, <1>6, <3>1 DEF Counts
  <2>2. CASE owed # 1
    <3>1. phase' = "length" /\ owed' = owed - 1 /\ owed \in Nat /\ 1 < owed /\ owed <= LENGTH
      BY <1>1, <1>2, <1>3, <2>2
    <3>2. datalen' = datalen + 1
      BY <1>1, <1>3, <1>5, <3>1
    <3>3. datalen' + owed' = BLOCK /\ owed' \in 1 .. LENGTH
      BY <1>1, <1>3, <3>1, <3>2
    <3> QED BY <1>2, <1>3, <1>6, <3>1, <3>3 DEF Counts
  <2> QED BY <2>1, <2>2
<1> QED BY <1>9, <1>10, <1>11 DEF ShaInv

LEMMA ShaStep == ASSUME ShaInv, [ShaNext]_shaVars PROVE ShaInv'
<1>1. CASE UNCHANGED shaVars
  <2>1. /\ UNCHANGED <<data, datalen, bitlen, state>> /\ message' = message
        /\ UNCHANGED <<n_bits, owed>> /\ phase' = phase
    BY <1>1 DEF shaVars
  <2>2. Fed' = Fed /\ Total' = Total
    BY <2>1 DEF Fed, Total, Compressed
  <2> QED BY <2>1, <2>2 DEF ShaInv, ShaTypes, FedAsPadded, Counts, Compressed
<1> QED BY <1>1, UpdateStep, FinalStep, ZeroPadStep, AppendLengthStep, SMTT(30) DEF ShaNext

LEMMA ShaInvImplies == ShaInv => DigestOfMessage
<1> SUFFICES ASSUME ShaInv, phase = "done" PROVE DigestOfMessage
  BY DEF DigestOfMessage
<1>1. /\ owed = 0 /\ datalen = 0 /\ Len(message) + 1 + LENGTH <= Total
      /\ Total < Len(message) + 1 + LENGTH + BLOCK
  BY DEF ShaInv, Counts
<1>2. Total = Compressed
  <2>1. Compressed \in Nat
    BY Sha256Assumption DEF ShaInv, ShaTypes, Compressed
  <2> QED BY <1>1, <2>1 DEF Total, Fed
<1>3. DOMAIN state = 1 .. Len(state)
  BY DEF ShaInv, ShaTypes
<1>4. \A b \in 1 .. Len(state) : \A o \in 0 .. BLOCK - 1 :
        state[b][o] = Padded(message, Total, BLOCK * (b - 1) + o)
  BY DEF ShaInv, FedAsPadded
<1> QED BY <1>1, <1>2, <1>3, <1>4, Zenon DEF DigestOfMessage, Compressed

\* sha256.c, for any block size and any message: however it is cut into calls of
\* sha256_update, the blocks compressed are those of the message padded as FIPS
\* 180-4 says, no fewer and no more.
THEOREM DigestIsOfMessage == ShaSpec => []DigestOfMessage
<1>1. ShaInv /\ [ShaNext]_shaVars => ShaInv'
  BY ShaStep
<1> QED BY ShaInvInit, <1>1, ShaInvImplies, PTL DEF ShaSpec
=============================================================================
