----------------------------- MODULE AtomicSend -----------------------------
(***************************************************************************)
(* What rpc_send_call and rpc_send_reply promise to threads that send at   *)
(* the same time: each message goes out whole and once, or not at all.     *)
(***************************************************************************)
EXTENDS Integers, Sequences

CONSTANTS Senders, Messages

VARIABLES want,   \* sender -> the message it is sending, 0 if none
          log     \* what went out: <<sender, message>>

avars == <<want, log>>

AInit == want = [t \in Senders |-> 0] /\ log = << >>

Ask(t, m) ==
  /\ want[t] = 0
  /\ want' = [want EXCEPT ![t] = m]
  /\ log' = log

Deliver(t) ==
  /\ want[t] # 0
  /\ log' = Append(log, <<t, want[t]>>)
  /\ want' = [want EXCEPT ![t] = 0]

Drop(t) ==
  /\ want[t] # 0
  /\ want' = [want EXCEPT ![t] = 0]
  /\ log' = log

ANext == \E t \in Senders : (\E m \in Messages : Ask(t, m)) \/ Deliver(t) \/ Drop(t)

ASpec == AInit /\ [][ANext]_avars
=============================================================================
