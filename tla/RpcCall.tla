------------------------------ MODULE RpcCall ------------------------------
(***************************************************************************)
(* rpc_call of rpc.c over UDP: a node makes one call after another, each    *)
(* retransmitted RPC_MAX_RETRIES times and matched to its reply by xid.     *)
(* Datagrams are lost, delayed past the end of the call and overtaken; the  *)
(* callee answers every copy; other nodes' calls, whose xids are their own, *)
(* and datagrams that do not decode reach the same port.                    *)
(***************************************************************************)
EXTENDS Integers, FiniteSets

CONSTANTS RPC_MAX_RETRIES,
          Drains,      \* RPC_TIMEOUT_MS / 10: datagrams drained in an attempt
          Stats,       \* the callee's answers, besides "denied"
          MaxCalls     \* bound: calls made

ASSUME DrainsAssumption == Drains \in Nat

VARIABLES
  g_xid,
  call,        \* the call being made: its number, xid, attempt, remaining_ms / 10, pc
  net,         \* datagrams on their way
  executed,    \* calls the callee has executed
  result       \* what the last rpc_call returned, and the call its reply answers

callVars == <<g_xid, call, net, executed, result>>

Ret(stat) == CASE stat = "SUCCESS" -> "RPC_OK" [] stat = "PROG_UNAVAIL" -> "RPC_ERR_PROG"
               [] stat = "PROC_UNAVAIL" -> "RPC_ERR_PROC" [] stat = "GARBAGE_ARGS" -> "RPC_ERR_GARBAGE"
               [] stat = "SYSTEM_ERR" -> "RPC_ERR_NET"

CallInit ==
  /\ g_xid = 1
  /\ call = [n |-> 0, xid |-> 0, attempt |-> 0, remaining |-> 0, pc |-> "idle"]
  /\ net = {}
  /\ executed = {}
  /\ result = [ret |-> "none", of |-> 0]

rpc_next_xid == g_xid' = g_xid + 1

rpc_call ==
  /\ call.pc = "idle" /\ call.n < MaxCalls
  /\ rpc_next_xid
  /\ call' = [n |-> call.n + 1, xid |-> g_xid, attempt |-> 0, remaining |-> 0, pc |-> "send"]
  /\ result' = [ret |-> "none", of |-> 0]
  /\ UNCHANGED <<net, executed>>

CallReturn(ret, of) ==
  /\ result' = [ret |-> ret, of |-> of]
  /\ call' = [call EXCEPT !.pc = "idle"]

\* The send of an attempt; sending itself may fail.
Send ==
  /\ call.pc = "send"
  /\ \/ /\ call.attempt = RPC_MAX_RETRIES
        /\ CallReturn("RPC_ERR_TIMEOUT", 0)
        /\ UNCHANGED net
     \/ /\ call.attempt < RPC_MAX_RETRIES
        /\ \/ /\ net' = net \cup {[mtype |-> "CALL", xid |-> call.xid, n |-> call.n]}
              /\ call' = [call EXCEPT !.pc = "recv", !.attempt = @ + 1, !.remaining = Drains]
              /\ UNCHANGED result
           \/ CallReturn("RPC_ERR_NET", 0) /\ UNCHANGED net
  /\ UNCHANGED <<g_xid, executed>>

\* rpc_recv returns RPC_ERR_TIMEOUT, or the datagrams drained have used it up.
Retry ==
  /\ call.pc = "recv"
  /\ call' = [call EXCEPT !.pc = "send"]
  /\ UNCHANGED <<g_xid, net, executed, result>>

\* A datagram that is not our reply.
Passed == call' = [call EXCEPT !.remaining = @ - 1] /\ UNCHANGED result

Matched(m) ==
  IF m.stat = "denied" THEN CallReturn("RPC_ERR_DENIED", m.n) ELSE CallReturn(Ret(m.stat), m.n)

\* Mutant: any reply is taken.
rpc_recvAny(m) ==
  /\ call.pc = "recv" /\ call.remaining > 0
  /\ CASE m.mtype = "CALL" -> Passed
       [] m.mtype = "REPLY" -> Matched(m)
       [] m.mtype = "malformed" -> CallReturn("RPC_ERR_DECODE", 0)
  /\ UNCHANGED <<g_xid, executed>>

rpc_recv(m) ==
  /\ call.pc = "recv" /\ call.remaining > 0
  /\ CASE m.mtype = "CALL" -> Passed
       [] m.mtype = "REPLY" /\ m.xid # call.xid -> Passed
       [] m.mtype = "REPLY" /\ m.xid = call.xid -> Matched(m)
       [] m.mtype = "malformed" -> CallReturn("RPC_ERR_DECODE", 0)
  /\ UNCHANGED <<g_xid, executed>>

Receive ==
  \/ \E m \in net : m.mtype = "REPLY" /\ net' = net \ {m} /\ rpc_recv(m)
  \/ \E x \in {call.xid, call.xid + 1} : rpc_recv([mtype |-> "CALL", xid |-> x, n |-> 0]) /\ UNCHANGED net
  \/ rpc_recv([mtype |-> "malformed"]) /\ UNCHANGED net

\* The callee: executes the call, whether it has seen it before or not.
Serve ==
  \E m \in net, stat \in Stats \cup {"denied"} :
    /\ m.mtype = "CALL"
    /\ net' = (net \ {m}) \cup {[mtype |-> "REPLY", xid |-> m.xid, n |-> m.n, stat |-> stat]}
    /\ executed' = executed \cup {m.n}
    /\ UNCHANGED <<g_xid, call, result>>

Lose == \E m \in net : net' = net \ {m} /\ UNCHANGED <<g_xid, call, executed, result>>

CallingNode == rpc_call \/ Send \/ Receive \/ Retry
CallNext == CallingNode \/ Serve \/ Lose
CallFairness == WF_callVars(Send) /\ WF_callVars(Retry \/ Receive)
CallSpec == CallInit /\ [][CallNext]_callVars /\ CallFairness
-----------------------------------------------------------------------------
\* rpc.c:523-540: what rpc_call returns from a reply is the callee's answer to
\* this very call; a late reply to an earlier call, or another node's call that
\* carries the same xid, is never taken for it.
AnswerIsOwn == result.of # 0 => result.of = call.n /\ result.of \in executed

=============================================================================
