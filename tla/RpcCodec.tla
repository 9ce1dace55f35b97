------------------------------ MODULE RpcCodec ------------------------------
(***************************************************************************)
(* The RFC 5531 message codec of user/rpc.c, and its mirror on the host,   *)
(* server/rpc_proto.py.  A header field is a word of four bytes; a         *)
(* datagram and a payload are sequences of bytes.                          *)
(***************************************************************************)
EXTENDS Xdr, SequencesExt, TLC

CONSTANTS RPC_PAYLOAD_MAX, OPAQUE_AUTH_BODY_MAX

W(n) == Zeros(3) \o <<n>>

RPC_VERSION == W(2)
AUTH_NONE == W(0)
MSG_CALL == W(0)
MSG_REPLY == W(1)
MSG_ACCEPTED == W(0)
SUCCESS == W(0)
PROG_MISMATCH == W(2)
RPC_MISMATCH == W(0)

\* sizeof(g_tx_wire)
WireSize == RPC_PAYLOAD_MAX + 256

\* A length field as a number; every length past the ones a datagram can have
\* is one and the same.
Num(w) == IF w[1] = 0 /\ w[2] = 0 THEN 256 * w[3] + w[4] ELSE 65536

Failed == [ok |-> FALSE]

-----------------------------------------------------------------------------
(* rpc.c, encoding.  A run of xdr_u_int calls, each giving up on failure,  *)
(* puts all its words or fails; a u_int is its four bytes on the wire.     *)

PutWords(x, words) == xdrmem_putbytes(x, FlattenSeq(words))

xdr_encode_auth_none == <<AUTH_NONE, W(0)>>

PutMessage(buflen, words, payload) ==
  LET x == xdrmem_create(Zeros(buflen), buflen, "encode")
      header == PutWords(x, words)
      all == IF header.ok /\ payload # << >> THEN xdrmem_putbytes(header.x, payload) ELSE header
  IN IF all.ok THEN [ok |-> TRUE, wire |-> SubSeq(all.x.buf, 1, all.x.ptr)] ELSE Failed

rpc_encode_call(buflen, msg) ==
  IF msg.rpcvers # RPC_VERSION \/ Len(msg.payload) > RPC_PAYLOAD_MAX THEN Failed
  ELSE PutMessage(buflen,
                  <<msg.xid, MSG_CALL, msg.rpcvers, msg.prog, msg.vers, msg.proc>>
                    \o xdr_encode_auth_none \o xdr_encode_auth_none,
                  msg.payload)

rpc_encode_reply(buflen, xid, stat, payload) ==
  IF Len(payload) > RPC_PAYLOAD_MAX THEN Failed
  ELSE PutMessage(buflen,
                  <<xid, MSG_REPLY, MSG_ACCEPTED>> \o xdr_encode_auth_none \o <<stat>>,
                  IF stat = SUCCESS THEN payload ELSE << >>)

-----------------------------------------------------------------------------
(* rpc.c, decoding.                                                        *)

\* n calls of xdr_u_int, each giving up on failure.
GetWords(x, n) ==
  IF Room(x, 4 * n)
  THEN Advanced(x, 4 * n, [i \in 1 .. n |-> SubSeq(x.buf, x.ptr + 4 * i - 3, x.ptr + 4 * i)])
  ELSE Refused(x, << >>)

\* Mutant: the length is read once more for an empty body too.
xdr_decode_opaque_authTwice(x) ==
  LET head == GetWords(x, 2)
      again == GetWords(head.x, 1)
  IN IF ~head.ok \/ ~again.ok THEN Refused(x, << >>) ELSE xdrmem_getbytes(again.x, Num(again.v[1]))

\* A body that is not empty is preceded by its length once more.
xdr_decode_opaque_auth(x) ==
  LET head == GetWords(x, 2)
      again == GetWords(head.x, 1)
  IN IF ~head.ok \/ Num(head.v[2]) > OPAQUE_AUTH_BODY_MAX THEN Refused(x, << >>)
     ELSE IF Num(head.v[2]) = 0 THEN head
     ELSE IF ~again.ok THEN Refused(x, << >>)
     ELSE xdrmem_getbytes(again.x, Num(again.v[1]))

\* What is left of the datagram is the payload.
WithPayload(r, fields) ==
  LET remaining == r.x.end - r.x.ptr
  IN IF ~r.ok \/ remaining > RPC_PAYLOAD_MAX THEN Failed
     ELSE [ok |-> TRUE, payload |-> xdrmem_getbytes(r.x, remaining).v] @@ fields

DecodeCall(x, xid) ==
  LET body == GetWords(x, 4)
      cred == xdr_decode_opaque_auth(body.x)
      verf == xdr_decode_opaque_auth(cred.x)
  IN IF ~body.ok \/ body.v[1] # RPC_VERSION \/ ~cred.ok THEN Failed
     ELSE WithPayload(verf, [xid |-> xid, mtype |-> MSG_CALL, rpcvers |-> body.v[1],
                             prog |-> body.v[2], vers |-> body.v[3], proc |-> body.v[4]])

DecodeAccepted(x, xid) ==
  LET verf == xdr_decode_opaque_auth(x)
      stat == GetWords(verf.x, 1)
      info == GetWords(stat.x, IF stat.v = <<PROG_MISMATCH>> THEN 2 ELSE 0)
  IN IF ~verf.ok \/ ~stat.ok THEN Failed
     ELSE WithPayload(info, [xid |-> xid, mtype |-> MSG_REPLY, reply_stat |-> MSG_ACCEPTED,
                             stat |-> stat.v[1]])

DecodeDenied(x, xid, reply_stat) ==
  LET stat == GetWords(x, 1)
      info == GetWords(stat.x, IF stat.v = <<RPC_MISMATCH>> THEN 2 ELSE 1)
  IN IF ~stat.ok THEN Failed
     ELSE WithPayload(info, [xid |-> xid, mtype |-> MSG_REPLY, reply_stat |-> reply_stat,
                             stat |-> stat.v[1]])

rpc_decode_msg(wire) ==
  LET head == GetWords(xdrmem_create(wire, Len(wire), "decode"), 2)
      reply == GetWords(head.x, 1)
  IN CASE ~head.ok -> Failed
       [] head.ok /\ head.v[2] = MSG_CALL -> DecodeCall(head.x, head.v[1])
       [] head.ok /\ head.v[2] = MSG_REPLY /\ ~reply.ok -> Failed
       [] head.ok /\ head.v[2] = MSG_REPLY /\ reply.v = <<MSG_ACCEPTED>> ->
            DecodeAccepted(reply.x, head.v[1])
       [] head.ok /\ head.v[2] = MSG_REPLY /\ reply.ok /\ reply.v # <<MSG_ACCEPTED>> ->
            DecodeDenied(reply.x, head.v[1], reply.v[1])
       [] OTHER -> Failed

-----------------------------------------------------------------------------
(* rpc_proto.py.  struct.unpack_from raises on a buffer that is too short; *)
(* a slice past the end is empty.                                          *)

Words(wire, off, n) == [i \in 1 .. n |-> SubSeq(wire, off + 4 * i - 3, off + 4 * i)]
Holds(wire, off, n) == off + 4 * n <= Len(wire)

encode_call(xid, proc, payload, prog, vers, rpcvers) ==
  FlattenSeq(<<xid, MSG_CALL, rpcvers, prog, vers, proc, AUTH_NONE, W(0), AUTH_NONE, W(0)>>)
    \o payload

encode_reply(xid, accept_stat, payload) ==
  FlattenSeq(<<xid, MSG_REPLY, MSG_ACCEPTED, AUTH_NONE, W(0), accept_stat>>) \o payload

\* -1 when unpack_from raises.
skip_opaque_auth(wire, off) ==
  IF off < 0 \/ ~Holds(wire, off, 2) THEN -1
  ELSE off + 8 + 4 * ((Num(Words(wire, off, 2)[2]) + 3) \div 4)

After(wire, off) == SubSeq(wire, off + 1, Len(wire))

decode_call(wire, xid) ==
  LET body == Words(wire, 8, 4)
      off == skip_opaque_auth(wire, skip_opaque_auth(wire, 24))
  IN IF off < 0 THEN Failed
     ELSE [ok |-> TRUE, xid |-> xid, mtype |-> MSG_CALL, rpcvers |-> body[1],
           prog |-> body[2], vers |-> body[3], proc |-> body[4], payload |-> After(wire, off)]

decode_reply(wire, xid) ==
  LET reply_stat == Words(wire, 8, 1)[1]
      at == IF reply_stat = MSG_ACCEPTED THEN skip_opaque_auth(wire, 12) ELSE 12
      stat == Words(wire, at, 1)[1]
      off == IF reply_stat = MSG_ACCEPTED /\ stat # PROG_MISMATCH THEN at + 4 ELSE at + 12
  IN IF ~Holds(wire, 8, 1) \/ at < 0 \/ ~Holds(wire, at, 1) THEN Failed
     ELSE [ok |-> TRUE, xid |-> xid, mtype |-> MSG_REPLY, reply_stat |-> reply_stat,
           stat |-> stat, payload |-> After(wire, off)]

decode(wire) ==
  IF Len(wire) < 8 THEN Failed
  ELSE LET head == Words(wire, 0, 2)
       IN CASE head[2] = MSG_CALL -> decode_call(wire, head[1])
            [] head[2] = MSG_REPLY -> decode_reply(wire, head[1])
            [] OTHER -> Failed

-----------------------------------------------------------------------------
(* The messages the nodes exchange, and what must hold of each.            *)

CallHeader == 40
ReplyHeader == 24

AsCall(msg) == [ok |-> TRUE, mtype |-> MSG_CALL] @@ msg
AsReply(xid, stat, payload) ==
  [ok |-> TRUE, xid |-> xid, mtype |-> MSG_REPLY, reply_stat |-> MSG_ACCEPTED, stat |-> stat,
   payload |-> IF stat = SUCCESS THEN payload ELSE << >>]

Prefix(s, n) == SubSeq(s, 1, n)

\* rpc.c:300-302: a call of this version whose payload is within the limit is
\* encoded, and what the other end decodes is that call; cut anywhere in the
\* header the datagram is refused, cut in the payload only the payload shrinks.
CallSurvives(msg, cut) ==
  LET sent == rpc_encode_call(WireSize, msg)
  IN /\ sent.ok <=> (msg.rpcvers = RPC_VERSION /\ Len(msg.payload) <= RPC_PAYLOAD_MAX)
     /\ sent.ok /\ cut <= Len(sent.wire) =>
          rpc_decode_msg(Prefix(sent.wire, cut)) =
            IF cut < CallHeader THEN Failed
            ELSE AsCall([msg EXCEPT !.payload = Prefix(@, cut - CallHeader)])

\* The same of a reply; PROG_MISMATCH is never sent.
ReplySurvives(xid, stat, payload, cut) ==
  LET sent == rpc_encode_reply(WireSize, xid, stat, payload)
  IN /\ sent.ok <=> Len(payload) <= RPC_PAYLOAD_MAX
     /\ sent.ok /\ cut <= Len(sent.wire) =>
          rpc_decode_msg(Prefix(sent.wire, cut)) =
            IF cut < ReplyHeader THEN Failed
            ELSE AsReply(xid, stat, Prefix(payload, cut - ReplyHeader))

\* rpc_proto.py:5-7: the host's codec is the mirror of rpc.c: the two encode a
\* call alike, and each decodes what the other sends, whole or cut, alike.
CallMirrored(msg, cut) ==
  LET sent == rpc_encode_call(WireSize, msg)
  IN sent.ok =>
       /\ encode_call(msg.xid, msg.proc, msg.payload, msg.prog, msg.vers, msg.rpcvers) = sent.wire
       /\ cut <= Len(sent.wire) =>
            decode(Prefix(sent.wire, cut)) = rpc_decode_msg(Prefix(sent.wire, cut))

ReplyMirrored(xid, stat, payload, cut) ==
  LET sent == rpc_encode_reply(WireSize, xid, stat, payload)
  IN sent.ok /\ (stat = SUCCESS \/ payload = << >>) =>
       /\ encode_reply(xid, stat, payload) = sent.wire
       /\ cut <= Len(sent.wire) =>
            decode(Prefix(sent.wire, cut)) = rpc_decode_msg(Prefix(sent.wire, cut))
-----------------------------------------------------------------------------
\* A message under way: encoded by one end, cut short or not by the datagram it
\* travels in, decoded by the other end.

CONSTANTS Xids, Procs, Stats, Payloads   \* what the messages considered are made of

VARIABLES
  msg,    \* the message handed to the encoder
  cut     \* the bytes of it that arrive

vars == <<msg, cut>>

Calls ==
  {[mtype |-> MSG_CALL, xid |-> x, rpcvers |-> v, prog |-> W(7), vers |-> W(1), proc |-> p, payload |-> d] :
     x \in Xids, v \in {W(1), RPC_VERSION}, p \in Procs, d \in Payloads}
Replies ==
  {[mtype |-> MSG_REPLY, xid |-> x, stat |-> s, payload |-> d] : x \in Xids, s \in Stats, d \in Payloads}

Init == msg \in Calls \cup Replies /\ cut = 0

Arrive(n) == cut' = n /\ UNCHANGED msg
Next == cut <= CallHeader + RPC_PAYLOAD_MAX /\ Arrive(cut + 1)
Spec == Init /\ [][Next]_vars
-----------------------------------------------------------------------------
Fields == [xid |-> msg.xid, rpcvers |-> msg.rpcvers, prog |-> msg.prog, vers |-> msg.vers, proc |-> msg.proc,
           payload |-> msg.payload]

\* What rpc_encode_call or rpc_encode_reply accepts is what rpc_decode_msg hands
\* out at the other end; a datagram cut in its header is refused.
MessageSurvives ==
  IF msg.mtype = MSG_CALL THEN CallSurvives(Fields, cut) ELSE ReplySurvives(msg.xid, msg.stat, msg.payload, cut)

\* rpc.c and rpc_proto.py agree on every message, whole or cut.
CodecsMirrored ==
  IF msg.mtype = MSG_CALL THEN CallMirrored(Fields, cut) ELSE ReplyMirrored(msg.xid, msg.stat, msg.payload, cut)
=============================================================================
