-------------------------------- MODULE Rftp --------------------------------
(***************************************************************************)
(* The weight transfer: llm_fetch_window and its wrappers in ftpclient.c   *)
(* against the stateless server of server/server.py, over datagrams that   *)
(* may be lost, duplicated, delayed and reordered.  The client runs a list *)
(* of transfers one after the other on the same port.                      *)
(*                                                                         *)
(* A byte is abstracted to its file and its offset, a digest to its file.  *)
(***************************************************************************)
EXTENDS Integers, Sequences, FiniteSets

CONSTANTS Sizes,                 \* the server's files: id -> size
          Transfers,             \* what the client fetches: <<kind, file, off, len>>
          CHUNK_SIZE, MAX_RANGE, MAX_RETRANS,
          MAX_IDLE_RECVS, MaxSpins,
          RETRANS_STALL_LIMIT, MAX_RETRY_ROUNDS,
          MaxLosses, MaxDups,    \* bounds: datagrams lost, duplicated
          Prompt                 \* does every datagram arrive before a timeout

ASSUME ChunkAssumption == CHUNK_SIZE \in Nat \ {0}
ASSUME BatchAssumption == {MAX_RANGE, MAX_RETRANS, MAX_IDLE_RECVS, MaxSpins} \subseteq Nat \ {0}
ASSUME SizesAssumption == \A f \in DOMAIN Sizes : Sizes[f] \in Nat
ASSUME TransfersAssumption ==
  /\ Len(Transfers) \in Nat \ {0}
  /\ \A t \in 1 .. Len(Transfers) : Transfers[t][3] \in Nat /\ Transfers[t][4] \in Nat

VARIABLES
  pc,          \* "probe", "meta", "range", "round", "retrans", "ok", "failed", "end"
  asked,       \* a request is out and the client is receiving
  turn,        \* the transfer of Transfers that runs
  file,        \* META_RESP of the transfer: [file, size], the digest being the file
  off, len,    \* win_off, win_len
  got,         \* the chunks marked in received[]
  buf,         \* the destination buffer: offset in the window -> byte
  start, want, \* the batch: its first chunk, the chunks it waits for
  idle, spins,
  round, stalled, before,
  net, losses, dups

batchVars == <<start, want, idle, spins>>
roundVars == <<round, stalled, before>>
windowVars == <<turn, file, off, len>>
netVars == <<net, losses, dups>>
vars == <<pc, asked, windowVars, got, buf, batchVars, roundVars, netVars>>

CeilDiv(a, b) == (a + b - 1) \div b
Least(a, b) == IF a < b THEN a ELSE b
Most(a, b) == IF a < b THEN b ELSE a

TotalChunks(size) == CeilDiv(size, CHUNK_SIZE)

\* The chunks that intersect the window.
FirstChunk == off \div CHUNK_SIZE
EndChunk == CeilDiv(off + len, CHUNK_SIZE)
Chunks == FirstChunk .. EndChunk - 1

NoByte == <<0, 0>>
Kind == Transfers[turn][1]

Entry(t) == IF Transfers[t][1] = "file" THEN "probe" ELSE "meta"

Init ==
  /\ pc = Entry(1) /\ asked = FALSE
  /\ turn = 1 /\ off = Transfers[1][3] /\ len = Transfers[1][4]
  /\ file = [file |-> 0, size |-> 0]
  /\ got = {} /\ buf = << >>
  /\ start = 0 /\ want = {} /\ idle = 0 /\ spins = 0
  /\ round = 0 /\ stalled = 0 /\ before = 0
  /\ net = {} /\ losses = 0 /\ dups = 0

-----------------------------------------------------------------------------
\* The network.

ToClient(p) == p.type \in {"meta_resp", "data", "error"}

\* A datagram leaves the network, or leaves a copy behind.
Taken(p, rest) ==
  \/ rest = net \ {p} /\ dups' = dups
  \/ rest = net /\ dups < MaxDups /\ dups' = dups + 1

Lose ==
  \E p \in net :
    /\ losses < MaxLosses
    /\ net' = net \ {p} /\ losses' = losses + 1
    /\ UNCHANGED <<pc, asked, windowVars, got, buf, batchVars, roundVars, dups>>

\* server.py: each request is served on its own, whatever came before.
DataPackets(f, chunks) ==
  {[type |-> "data", file |-> f, idx |-> i,
    len |-> Least(CHUNK_SIZE, Sizes[f] - i * CHUNK_SIZE)] : i \in chunks}

Error == [type |-> "error"]

Answer(r) ==
  IF r.file \notin DOMAIN Sizes THEN {Error}
  ELSE
  CASE r.type = "meta_req" -> {[type |-> "meta_resp", file |-> r.file, size |-> Sizes[r.file]]}
    [] r.type = "range_req" ->
         LET total == TotalChunks(Sizes[r.file]) IN
         IF r.start >= total THEN {Error}
         ELSE DataPackets(r.file, r.start .. Least(r.start + r.count, total) - 1)
    \* handle_retrans_req reads offset before it is set: the exception becomes an
    \* ERROR.
    [] r.type = "retrans_req" -> {Error}

Serve ==
  \E r \in {p \in net : ~ ToClient(p)} : \E rest \in {net, net \ {r}} :
    /\ Taken(r, rest)
    /\ net' = rest \cup Answer(r)
    /\ UNCHANGED <<pc, asked, windowVars, got, buf, batchVars, roundVars, losses>>

-----------------------------------------------------------------------------
\* The client: metadata.

SendMeta ==
  /\ pc \in {"probe", "meta"} /\ ~ asked
  /\ net' = net \cup {[type |-> "meta_req", file |-> Transfers[turn][2]]}
  /\ asked' = TRUE
  /\ UNCHANGED <<pc, windowVars, got, buf, batchVars, roundVars, losses, dups>>

\* llm_fetch_file, llm_fetch_file_into: the size, to fetch [0, size), unless the
\* caller's buffer is too small or there is no memory for one.
Probed(p) ==
  /\ pc = "probe" /\ p.type = "meta_resp"
  /\ len' = p.size /\ pc' \in {"meta", "failed"} /\ asked' = FALSE
  /\ UNCHANGED <<turn, file, off, got, buf, batchVars, roundVars>>

\* Mutant: the window is not compared with the size of the file.
OpenedUnchecked(p) ==
  /\ pc = "meta" /\ p.type = "meta_resp"
  /\ file' = [file |-> p.file, size |-> p.size]
  /\ len' = IF len = 0 THEN p.size - off ELSE len
  /\ pc' = "range"
  /\ got' = {} /\ buf' = [i \in 0 .. len' - 1 |-> NoByte]
  /\ start' = FirstChunk
  /\ asked' = FALSE
  /\ round' = 0 /\ stalled' = 0 /\ before' = 0
  /\ UNCHANGED <<turn, off, want, idle, spins>>

\* llm_fetch_window, up to its first request.
Opened(p) ==
  /\ pc = "meta" /\ p.type = "meta_resp"
  /\ file' = [file |-> p.file, size |-> p.size]
  /\ len' = IF len = 0 THEN p.size - off ELSE len
  /\ IF off >= p.size \/ off + len' > p.size
     THEN pc' = "failed" /\ UNCHANGED <<got, buf, start>>
     ELSE /\ pc' = "range"
          /\ got' = {} /\ buf' = [i \in 0 .. len' - 1 |-> NoByte]
          /\ start' = FirstChunk
  /\ asked' = FALSE
  /\ round' = 0 /\ stalled' = 0 /\ before' = 0
  /\ UNCHANGED <<turn, off, want, idle, spins>>

\* Anything else on the port is an invalid META_RESP.
NotMeta(p) ==
  /\ pc \in {"probe", "meta"} /\ p.type # "meta_resp"
  /\ pc' = "failed" /\ asked' = FALSE
  /\ UNCHANGED <<windowVars, got, buf, batchVars, roundVars>>

-----------------------------------------------------------------------------
\* The client: chunks.

\* Where a batch leads: the next one, or the end of the pass.
NextBatch(step) ==
  IF start + step < EndChunk
  THEN start' = start + step /\ UNCHANGED <<pc, roundVars>>
  ELSE /\ pc' = "round" /\ start' = FirstChunk
       /\ IF pc = "range" THEN UNCHANGED roundVars
          ELSE /\ round' = round + 1
               /\ stalled' = IF Cardinality(got') > before THEN 0 ELSE stalled + 1
               /\ before' = before

Step == IF pc = "range" THEN MAX_RANGE ELSE MAX_RETRANS
Batch == (start .. start + Step - 1) \cap Chunks

Request ==
  IF pc = "range"
  THEN [type |-> "range_req", file |-> Transfers[turn][2], start |-> start,
        count |-> Least(MAX_RANGE, EndChunk - start)]
  ELSE [type |-> "retrans_req", file |-> Transfers[turn][2], indices |-> Batch \ got]

\* A batch with nothing missing is skipped.
SendBatch ==
  /\ pc \in {"range", "retrans"} /\ ~ asked
  /\ got' = got
  /\ IF Batch \subseteq got
     THEN NextBatch(Step) /\ UNCHANGED <<asked, net, want, idle, spins>>
     ELSE /\ net' = net \cup {Request}
          /\ asked' = TRUE /\ want' = Batch \ got /\ idle' = 0 /\ spins' = 0
          /\ UNCHANGED <<pc, start, roundVars>>
  /\ UNCHANGED <<windowVars, buf, losses, dups>>

\* process_data_packet: what it rejects.
Accepted(p) ==
  /\ p.type = "data"
  /\ p.idx < TotalChunks(file.size) /\ p.idx \in Chunks
  /\ p.idx * CHUNK_SIZE + p.len <= file.size
  /\ p.idx \notin got

\* The part of the chunk inside the window, at its place in the window.
Copied(p) ==
  LET from == Most(p.idx * CHUNK_SIZE, off)
      to == Least(p.idx * CHUNK_SIZE + p.len, off + len)
  IN [i \in DOMAIN buf |-> IF i + off \in from .. to - 1 THEN <<p.file, i + off>> ELSE buf[i]]

\* One turn of the receive loop: the batch is over when it has all it waits for,
\* has waited too often, or has turned too often.
LoopTurn(idleNow) ==
  /\ spins' = spins + 1 /\ idle' = idleNow /\ want' = want
  /\ IF want \subseteq got' \/ idleNow >= MAX_IDLE_RECVS \/ spins' >= MaxSpins
     THEN asked' = FALSE /\ NextBatch(Step)
     ELSE UNCHANGED <<asked, pc, start, roundVars>>

Chunk(p) ==
  /\ pc \in {"range", "retrans"}
  /\ IF Accepted(p) THEN got' = got \cup {p.idx} /\ buf' = Copied(p)
     ELSE UNCHANGED <<got, buf>>
  /\ LoopTurn(0)
  /\ UNCHANGED windowVars

Receive ==
  \E p \in {q \in net : ToClient(q)} : \E rest \in {net, net \ {p}} :
    /\ asked
    /\ Taken(p, rest) /\ net' = rest /\ losses' = losses
    /\ Probed(p) \/ Opened(p) \/ NotMeta(p) \/ Chunk(p)

\* Mutant: the wait is unbounded.
TimeoutNever ==
  /\ pc \in {"range", "retrans"} /\ asked /\ FALSE
  /\ UNCHANGED vars

\* recvtimeo expired.
Timeout ==
  /\ pc \in {"range", "retrans"} /\ asked
  /\ Prompt => net = {}
  /\ UNCHANGED <<got, buf, windowVars, netVars>>
  /\ LoopTurn(idle + 1)

\* A whole file is compared with the digest of META_RESP, a range is not.
Verified ==
  off = 0 /\ len = file.size =>
    buf = [i \in 0 .. Sizes[file.file] - 1 |-> <<file.file, i>>]

Round ==
  /\ pc = "round"
  /\ IF Chunks \subseteq got
     THEN pc' = (IF Verified THEN "ok" ELSE "failed") /\ before' = before
     ELSE IF stalled < RETRANS_STALL_LIMIT /\ round < MAX_RETRY_ROUNDS
     THEN pc' = "retrans" /\ before' = Cardinality(got)
     ELSE pc' = "failed" /\ before' = before
  /\ UNCHANGED <<asked, windowVars, got, buf, batchVars, round, stalled, netVars>>

\* The caller's next transfer.
Again ==
  /\ pc \in {"ok", "failed"}
  /\ IF turn < Len(Transfers)
     THEN /\ pc' = Entry(turn + 1) /\ turn' = turn + 1
          /\ off' = Transfers[turn + 1][3] /\ len' = Transfers[turn + 1][4]
     ELSE pc' = "end" /\ UNCHANGED <<turn, off, len>>
  /\ got' = {} /\ buf' = << >>
  /\ UNCHANGED <<asked, file, batchVars, roundVars, netVars>>

-----------------------------------------------------------------------------

Client == SendMeta \/ SendBatch \/ Timeout \/ Round \/ Again

Next == Lose \/ Serve \/ Receive \/ Client

Spec == Init /\ [][Next]_vars

\* The client runs and its timed waits expire; the server answers and what is not
\* lost arrives.
FairSpec == Spec /\ WF_vars(Client) /\ WF_vars(Serve) /\ WF_vars(Receive)

-----------------------------------------------------------------------------

\* ftpclient.c:527-528 (check 4): a transfer that succeeds has filled every byte
\* of its window with the byte of the file that belongs there.
WindowIntact ==
  pc = "ok" => buf = [i \in 0 .. len - 1 |-> <<Transfers[turn][2], off + i>>]

\* ftpclient.c:15-17: a whole file is verified with SHA-256 and the buffer returned
\* contains the file, whatever stale datagrams reached the port.
FileIntact ==
  pc = "ok" /\ Kind = "file" =>
    \E f \in DOMAIN Sizes : buf = [i \in 0 .. Sizes[f] - 1 |-> <<f, i>>]

\* ftpclient.c:68-71: once metadata is there no loss wedges the transfer.
ChunksEnd == (pc = "range") ~> (pc \in {"ok", "failed"})

\* server/README.md:197: the protocol "recovers automatically from lost packets",
\* so a transfer ends, one way or the other.
TransferEnds == (pc = "meta") ~> (pc \in {"ok", "failed"})

\* server/README.md:252-253: the server retransmits what the client asks for again
\* and the client "assembles complete file".
LossRecovered == pc # "failed"
=============================================================================
