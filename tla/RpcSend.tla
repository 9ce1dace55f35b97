------------------------------- MODULE RpcSend -------------------------------
(***************************************************************************)
(* The sending half of rpc.c under concurrency: the heartbeat, inference   *)
(* and listen threads encode into one static buffer, g_tx_wire, under the  *)
(* spin lock g_tx_lock of mutex.c, and draw xids from the counter g_xid.   *)
(*                                                                         *)
(* Encoding writes the buffer word by word.  A message is abstracted to    *)
(* its length in words, a word to the sender and message it belongs to.    *)
(***************************************************************************)
EXTENDS Integers, Sequences

CONSTANTS Senders,
          WireWords,     \* the length of the longest message
          MaxSends       \* bound: messages sent

ASSUME WireAssumption == WireWords \in Nat
ASSUME SendsAssumption == MaxSends \in Nat

Messages == 1 .. WireWords

VARIABLES
  g_tx_lock,   \* 0 free, 1 held
  g_tx_wire,   \* word -> <<sender, message>>
  g_xid,
  spc,         \* sender -> where it is in rpc_send_call or rpc_send_reply
  msg,         \* sender -> its message
  xid,         \* sender -> the xid it read, then drew
  encoded,     \* sender -> words encoded so far
  sent,        \* the datagrams handed to the kernel
  drawn,       \* history: xids drawn
  sends        \* counts up to MaxSends

wireVars == <<g_tx_lock, g_tx_wire, encoded, sent>>
xidVars == <<g_xid, xid, drawn>>
sendVars == <<g_tx_lock, g_tx_wire, g_xid, spc, msg, xid, encoded, sent, drawn, sends>>

SendInit ==
  /\ g_tx_lock = 0
  /\ g_tx_wire = [i \in Messages |-> << >>]
  /\ g_xid = 1
  /\ spc = [t \in Senders |-> "idle"]
  /\ msg = [t \in Senders |-> 0]
  /\ xid = [t \in Senders |-> 0]
  /\ encoded = [t \in Senders |-> 0]
  /\ sent = << >>
  /\ drawn = << >>
  /\ sends = 0

-----------------------------------------------------------------------------

Goto(t, l) == spc' = [spc EXCEPT ![t] = l]

\* A call draws an xid first, a reply carries the caller's.
Begin(t, m, l) ==
  /\ spc[t] = "idle" /\ sends < MaxSends
  /\ msg' = [msg EXCEPT ![t] = m]
  /\ sends' = sends + 1
  /\ Goto(t, l)
  /\ UNCHANGED <<wireVars, xidVars>>

\* rpc_next_xid: g_xid++ is a load and a store.
LoadXid(t) ==
  /\ spc[t] = "load"
  /\ xid' = [xid EXCEPT ![t] = g_xid]
  /\ Goto(t, "store")
  /\ UNCHANGED <<wireVars, g_xid, msg, drawn, sends>>

StoreXid(t) ==
  /\ spc[t] = "store"
  /\ g_xid' = xid[t] + 1
  /\ drawn' = Append(drawn, xid[t])
  /\ Goto(t, "lock")
  /\ UNCHANGED <<wireVars, xid, msg, sends>>

\* mutex_lock: the exchange that finds the lock free.
Acquire(t) ==
  /\ spc[t] = "lock" /\ g_tx_lock = 0
  /\ g_tx_lock' = 1
  /\ encoded' = [encoded EXCEPT ![t] = 0]
  /\ Goto(t, "encode")
  /\ UNCHANGED <<xidVars, g_tx_wire, sent, msg, sends>>

\* rpc_encode_call, rpc_encode_reply: the next word.
EncodeWord(t) ==
  /\ spc[t] = "encode" /\ encoded[t] < msg[t]
  /\ g_tx_wire' = [g_tx_wire EXCEPT ![encoded[t] + 1] = <<t, msg[t]>>]
  /\ encoded' = [encoded EXCEPT ![t] = @ + 1]
  /\ UNCHANGED <<xidVars, g_tx_lock, sent, spc, msg, sends>>

\* The message does not fit.
EncodeFails(t) ==
  /\ spc[t] = "encode" /\ encoded[t] = 0
  /\ Goto(t, "unlock")
  /\ UNCHANGED <<wireVars, xidVars, msg, sends>>

\* Mutant: the lock is released before the buffer is sent.
SendUnlocked(t) ==
  \/ /\ spc[t] = "encode" /\ encoded[t] = msg[t] /\ g_tx_lock = 1
     /\ g_tx_lock' = 0
     /\ UNCHANGED <<xidVars, g_tx_wire, encoded, sent, spc, msg, sends>>
  \/ /\ spc[t] = "encode" /\ encoded[t] = msg[t] /\ g_tx_lock = 0
     /\ sent' = Append(sent, [i \in 1 .. encoded[t] |-> g_tx_wire[i]])
     /\ Goto(t, "unlock")
     /\ UNCHANGED <<xidVars, g_tx_lock, g_tx_wire, encoded, msg, sends>>

\* Mutant: the whole buffer is sent, not the bytes encoded into it.
SendBuffer(t) ==
  /\ spc[t] = "encode" /\ encoded[t] = msg[t]
  /\ sent' = Append(sent, g_tx_wire)
  /\ Goto(t, "unlock")
  /\ UNCHANGED <<xidVars, g_tx_lock, g_tx_wire, encoded, msg, sends>>

\* _udp_send took the buffer.
Send(t) ==
  /\ spc[t] = "encode" /\ encoded[t] = msg[t]
  /\ sent' = Append(sent, [i \in 1 .. encoded[t] |-> g_tx_wire[i]])
  /\ Goto(t, "unlock")
  /\ UNCHANGED <<xidVars, g_tx_lock, g_tx_wire, encoded, msg, sends>>

\* _udp_send failed.
SendFails(t) ==
  /\ spc[t] = "encode" /\ encoded[t] = msg[t]
  /\ Goto(t, "unlock")
  /\ UNCHANGED <<wireVars, xidVars, msg, sends>>

\* mutex_unlock.
Release(t) ==
  /\ spc[t] = "unlock"
  /\ g_tx_lock' = 0
  /\ Goto(t, "idle")
  /\ UNCHANGED <<xidVars, g_tx_wire, encoded, sent, msg, sends>>

Critical(t) == \/ EncodeWord(t) \/ EncodeFails(t) \/ Send(t) \/ SendFails(t) \/ Release(t)

Sender(t) ==
  \/ (\E m \in Messages, l \in {"load", "lock"} : Begin(t, m, l))
  \/ LoadXid(t) \/ StoreXid(t) \/ Acquire(t) \/ Critical(t)

SendNext == \E t \in Senders : Sender(t)

SendSpec == SendInit /\ [][SendNext]_sendVars

\* The scheduler runs the thread that holds the lock; who gets it next is up
\* to the scheduler.
SendFairSpec == SendSpec /\ \A t \in Senders : WF_sendVars(Critical(t))

-----------------------------------------------------------------------------

Locations == {"idle", "load", "store", "lock", "encode", "unlock"}

SendTypeInv ==
  /\ g_tx_lock \in {0, 1}
  /\ g_tx_wire \in [Messages -> (Senders \X Messages) \cup {<< >>}]
  /\ g_xid \in Nat /\ xid \in [Senders -> Nat]
  /\ spc \in [Senders -> Locations]
  /\ msg \in [Senders -> Messages \cup {0}]
  /\ encoded \in [Senders -> 0 .. WireWords]

\* The datagrams that are one message of one sender from beginning to end.
WholeDatagrams == {[i \in 1 .. m |-> <<t, m>>] : t \in Senders, m \in Messages}

Whole(d) == d \in WholeDatagrams

\* rpc.c:88-89: g_tx_wire is "serialised with g_tx_lock": whichever threads send
\* at once, every datagram is one message, whole.
SentWhole == \A i \in 1 .. Len(sent) : Whole(sent[i])

\* rpc.c:95-97: the xid counter is "monotonic; single-core xv6 needs no atomics":
\* no two calls of a node carry the same xid.
XidsDistinct == \A i, j \in 1 .. Len(drawn) : drawn[i] = drawn[j] => i = j

\* The messages being sent, and what a datagram amounts to.
Wanted == [t \in Senders |-> IF spc[t] \in {"load", "store", "lock", "encode"}
                             THEN msg[t] ELSE 0]
Logged == [i \in 1 .. Len(sent) |-> IF Whole(sent[i]) THEN sent[i][1] ELSE << >>]

Abstract == INSTANCE AtomicSend WITH want <- Wanted, log <- Logged

\* rpc.c:401-445: sending through the shared buffer is sending atomically.
SendsAtomically == Abstract!ASpec
=============================================================================
