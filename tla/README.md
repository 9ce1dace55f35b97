# DistInf: a TLA+ verification project

DistInf runs a llama-style language model over a ring of xv6-riscv nodes. This
directory holds TLA+ models of its control logic, TLC configurations that check
them on small instances, and proofs for every value of the constants, checked by
TLAPS. File names below are relative to `src/`; C files without a directory are
under `src/xv6-riscv/user/`.

## The system and its parts

* The **master** (`distinf.c`, `discovery.c`) is one cooperative thread:
  `master_pump` receives a datagram, runs its handler, then ages the registry. It
  holds the embedding, the final norm and the sampler, splits the layers over the
  workers and drives generation token by token.
* A **worker** has three threads: *listen* receives on the worker's one port,
  *heartbeat* keeps the registration alive and re-registers after an eviction, and
  *inference* loads the shard and computes hops.
* They talk ONC RPC over UDP (`rpc.c`, `xdr.c`). Two-phase registration is
  AUTH_HELLO, then CAP_ACK with the nonce; heartbeats keep it; the master suspects,
  expires and evicts. A session re-stitches the ring, tells everybody its
  neighbours (SET_NEIGHBOR) and layers (ASSIGN_LAYERS), waits for SHARD_READY and
  sends activations round the ring, numbered by epoch and sequence number. A lost
  worker ends the session; the run starts again over the survivors.
* **Weights** come from `server/server.py` over LLM-RFTP (`ftpclient.c`) straight
  into persistent shared-memory segments (`shard.c`).
* Each node computes with a **thread pool** (`llama_core.c`).

The kernel's C source is not in the repository (only headers, stubs and an image),
so scheduling, shared memory and the network are modelled from how they are used.

| Part | Source | Modules | State |
|---|---|---|---|
| Worker port handoff | `distinf.c`, `discovery.c`, `rpc.c` | `WorkerThreads` | modelled, proved |
| Registry and ring stitching | `discovery.c` | `Ring`, `MCRing` | modelled, proved |
| Discovery protocol | `discovery.c`, `distinf.c`, `rpc.c` | `Discovery` | modelled, proved |
| Layer assignment | `discovery.c` | `Layers`, `LayerSplit` | modelled, proved |
| Generation session | `distinf.c`, `discovery.c` | `Session` | modelled, proved |
| Worker mailboxes | `distinf.c` | `Mailbox` | modelled, proved |
| RPC sending, mutex | `rpc.c`, `mutex.c` | `RpcSend`, `AtomicSend` | modelled, proved |
| Thread pool | `llama_core.c` | `ThreadPool` | modelled, proved |
| Weight transfer, both ends | `ftpclient.c`, `server/server.py` | `Rftp`, `MCRftp` | modelled, proved |
| Shards and checkpoint layout | `shard.c`, `llama_core.c`, `distinf.c` | `Checkpoint`, `ShardLoad`, `MCShardLoad` | modelled, proved |
| RPC calls | `rpc.c` | `RpcCall` | modelled, proved |
| RPC codec and XDR | `rpc.c`, `xdr.c`, `server/rpc_proto.py` | `Xdr`, `XdrStream`, `RpcCodec` | modelled; the streams proved |
| Rate limiter | `discovery.c` | `RateLimiter` | modelled, proved |
| Capability probe | `discovery.c` | choices in `Ring`, `Discovery` | partly |
| SHA-256 | `sha256.c` | `Sha256`, `Sha256Block` | modelled without the word arithmetic; padding proved |
| Tokenizer, sampler | `llama_core.c` | `Tokenizer`, `Sampler` | modelled |
| Single-node driver | `llama.c` | `Generation`, `SegmentCache` | modelled, proved |
| Allocator | `umalloc.c` | `Umalloc` | modelled for one thread, proved |
| User library | `xstdlib.c` and others | `XStdlib` | partly; sort and search proved |
| Shell and utilities | `sh.c`, `init.c`, `cat.c`, ... | `ShellParse`, `Commands`, `Userland` | partly |
| Test programs | `usertests.c`, `grind.c`, `schedtest.c`, ... | `UserTests`, `SystemTests`, `Userland` | partly |
| Kernel, shm, network stack | headers only | `Kernel`, and in the protocol modules | external |
| Floating-point results | `llama_core.c`, `xmath.c` | | out of TLC's reach |
| Multicast switch, counters, simulation driver | | | not modelled, see the end |

`PROJECT.json` has the same list in full ("components"), every definition with the
lines it models ("map"), and the forty hazards that weigh most ("hazards").

## The modules

**WorkerThreads.** `needs_reregister`, `reregistering` and `listen_suspended` are
the three volatile flags of `run_worker`; `pcL` and `pcH` say where the two threads
are. Every load and store of a flag is a step. `inbox` is the port: evictions,
new neighbours, answers to the call in progress and stale ones, any of them lost.

**Ring.** `registry` is the array of `worker_entry_t`. One action per handler of
`discovery_handle_call`, each followed by the expiry pass, as in `master_pump`; and
`Restitch`, which starts a session. Any worker may call anything at any time.

**Discovery** extends Ring with the worker processes (`workers`) and the datagrams
in flight (`net`): registering, retransmitting, giving up, heartbeats, crash,
restart, eviction. A reply counts only for the call in progress.

**Layers, LayerSplit.** `Start` and `Count` are the closed form of
`discovery_assign_one`, which is what sessions call and Session uses; LayerSplit is
the loop of `discovery_assign_layers`, which carries the next free layer along and
has no caller. `TwoPathsAgree` ties them together.

**Session.** `master` is the driving thread (its place, the session, the order of
the ring, the call under way, position and sequence number), `reg` the registry as
far as a session depends on it, `worker` what each process holds (pointers,
assignment, load, hop, cached positions). An activation is the layer it is due to
enter next, or `Spoilt`. Control datagrams carry the number of their transmission,
so a retransmitted call can be received twice.

**Mailbox** refines two steps Session takes at once: handing the assignment and the
activation from the listen to the inference thread, word by word, the first with a
flag alone, the second under a mutex. A hop that arrives is held against the session
first and against `ready` later, and any session will do until one was loaded.

**RpcSend, AtomicSend.** Three threads encode word by word into one static buffer
under `mutex.c`'s lock and draw xids from an unlocked counter. AtomicSend is what
the callers rely on: each message goes out whole and once, or not at all. RpcSend
implements it with `want` read off the sender's place and `log` off `sent`.

**ThreadPool.** `matmul` and `multihead_attention` divide their rows; each flag
store is a step, *in program order* (the code has no fences; what a weaker memory
order would do is not modelled). A row holds the number of the call that wrote it.

**Rftp.** The client's state machine (metadata, ranges, retransmission rounds) and
the server's answers over a network that loses, duplicates, delays and reorders. A
byte is its file and offset, a digest its file. Failure of `malloc` and of `bind`
are left out: nothing has been sent then.

**Checkpoint, ShardLoad.** Checkpoint has the three walks over the weights file as
operators: `Mapped`, `LayerAt` and `BlockReads` for a node that holds all of it,
`Base`, `Stride` and `Fetched` for a worker, `HeadTail` for the master
(`llama_head_tail_offsets`, a sum of its own), against `EndReads`, what a single node
reads before the first and behind the last layer. Offsets are in floats: the casts of
byte offsets to 32 bits in `shard.c` and `distinf.c` are exact below 4 GB, the
largest file the metadata exchange can announce. ShardLoad loads: segments persist
over restarts and hold whatever an earlier load put there; a load fails at any
tensor; the master fetches its ends.

**RpcCall.** `rpc_call` on its own: attempts, drained datagrams, matching by xid.
The callee executes every copy; replies outlive their call; other nodes' calls and
datagrams that do not decode reach the same port. One life of the node.

**Xdr, XdrStream, RpcCodec.** The routines of `xdr.c` and both codecs, C and Python,
on bytes. XdrStream has a writer and a reader of a stream, who may also go back
(`xdrmem_setpos`) or skip a value (`xdrmem_inline`); `marks` is where each value
written ends. The values are those the callers write: no `long` beyond 32 bits,
which `xdrmem_putlong` would cut, no negative one, which `xdrmem_getlong` widens
without its sign, and no `double`, of whose two longs both are cut. RpcCodec ends
with a message that is encoded, cut anywhere and decoded. Credentials and verifiers
have empty bodies, as both ends send them: of a body that is not empty `rpc.c:183-187`
reads the length twice and `rpc_proto.py:190-197` once, and the two part.

**Sha256, Sha256Block.** Sha256 buffers and pads, one `sha256_append_byte` a step;
its chaining value is the list of blocks compressed. Sha256Block is one block: which word of FIPS 180-4 is in which
of the 16 words and 8 registers. The arithmetic on a word is left out.

**XStdlib.** Sorting with an explicit stack, each turn of the partitioning loop a
step and each `malloc` one that may fail; then searching, a probe a step, also in an
array `xqsort` gave up on, as `encode` does. `complete` records whether it came to
its end.

**Umalloc.** The circular free list. `ptr` and `size` are the fields of the headers;
the loops of `malloc` and `free` go one block a step, and `morecore` runs into the
loop of `free` and back into that of `malloc`. `held` and `got` are for the
properties: what was asked for, and what `sbrk` gave. `sbrk` takes an `int`: requests
of 2^31 bytes or more are outside the model.

**Tokenizer, Sampler, Generation, SegmentCache.** From the prompt's bytes to tokens
and back; the choice of a token from exact fractions (no rounding); the loops of
`generate` and `chat`; and the processes of a node that share a model in
persistent segments, with transfers that fail and processes that are killed.

**RateLimiter.** `disc_rl_allow`, its table of buckets and the clock. `Lru` is what
the scan over the table ends with, in closed form: the last free slot starts it
anew, and the first of the fullest from there on wins.

**Kernel, Script, Commands, UserTests, SystemTests, Userland.** A program is a script
of system calls (`Script`); `Kernel` runs it, one call a step. The kernel's source is
not here, so `Kernel` is a contract, written from what the headers, the programs and
`usertests.c` expect of it (external). `TestsPass` therefore does not show that the
kernel is right. It shows that one small contract meets all the tests at once, in
every interleaving, and that the tests count, wait and clean up as they should on it.
`Userland` starts a machine for one of 25 scenarios. `Commands` has the shell without
its parser, which is **ShellParse**.

**MCAlgorithms, MCNode** put unrelated parts side by side for one run: `part` is
chosen in the initial state and only that part moves. Parts that are proved
(LayerSplit, XdrStream, Sha256, XStdlib, Umalloc, SegmentCache, RateLimiter,
Generation; ThreadPool, RpcCall) have
variables, an `Init`, a `Next` and a specification of their own; the others share
the registers `a` to `g`.

## The runs

`tlc -config X.cfg M` in this directory repeats one.

| Run | Properties | Bounds, and why they are enough |
|---|---|---|
| `worker_threads` | one receiver on the port; no eviction forgotten; an eviction leads to a registration; the listener gets the port back | 2 transmissions (one is not the last), 2 ring versions (one can change), 2 queued datagrams. The safety properties are proved without bounds |
| `ring` | one slot per worker; joins keep one path of next pointers; re-stitching closes the ring; an expired worker stays out | 3 slots (before, between, behind), 4 workers competing for them; after the first loss at most 2 slots are held (`ChurnSpec`), enough for a loss of head or tail, a return and a reused slot. All proved without bounds, for `RingSpec`, which does not have that restriction |
| `discovery` | ACTIVE only after CAP_ACK; a dead worker expires; an evicted one comes back | 2 workers, 1 slot (they compete), 2 transmissions, 2 datagrams in flight when a worker sends; the first proved without bounds |
| `session` | what is committed went through every layer in order; the run ends | 2 workers, 3 layers (uneven), 2 tokens, one restart with leftovers of the first session in the network; the first proved without bounds |
| `session_retry` | what is committed went through every layer in order | 1 worker, a cache of one position for two steps, every call and token repeated, one re-registration; proved without bounds |
| `mailbox` | hops are computed whole, in order and once; never without a shard | 3 assignments, 3 sequence numbers, 2 words; proved without bounds |
| `rpc_send` | datagrams whole; implements AtomicSend | 3 threads, 3 messages of up to 2 words; proved without bounds |
| `thread_pool_return` | *violated*: a call returns | 2 threads, 2 calls |
| `rftp` | success means every byte of the window; the chunk phase ends | a 5-byte file in 2-byte chunks: unknown file, whole file, unaligned window, window past the end; one loss, any delay. The first proved without bounds when one file at a time is asked for, as here |
| `shard_load` | a loaded shard holds what a single node reads; so do the master's ends | 2 models (grouped and plain heads, shared and unshared classifier), 3 layers, 2 per shard, 2 loads, one spare attachment; proved without bounds |
| `algorithms` | one invariant for each sequential part (the layers cover the model; `RoundTrip`, `CodecFaithful`, `DigestOfMessage`, `BlockAsStandard`, `SortThenSearch`, `TextKept`, `SampleAllowed`, `DialogKept`, `ModelWhole`, `BucketsFair`, `HeapSound`, `LineParsed`) | see below |
| `node` | a returned pool call has every row; tests pass, shell lines do what they say, programs end; an answer is the call's own | see below |

An invariant of `algorithms`, and `LinesRun` of `node`, may join several statements
that specify one component together; its mutant breaks one of them.

*Bounds of `algorithms`.* Layer split: 16 workers as in `discovery.h`, up to 40
layers (proved without bounds). XDR: up to 3 of 12 typed items, 16 bytes, cut
anywhere (proved without bounds, as are SHA-256's padding, sorting, the heap,
generation, the cache and the rate limiter). RPC: payloads up to 2 bytes, every cut. SHA-256: blocks of 6 bytes with a
2-byte length, messages up to 8, so the padding fits, just fits and overflows; all
64 rounds. Sorting: arrays up to 5 of 3 values, and permutations of 11. Sampler:
eighths, up to 4 tokens. Generation: a cache of 7 positions. Segment cache: 3
processes, 4 runs. Rate limiter: 3 slots, 3 peers, a burst of 2, 4 ticks. Heap: 12
units, grown by 4 or more, requests of 2, 3 and 5. Shell lines: up to 4 of 10 characters, longer of
fewer; "too many args" takes more characters than that and is not reached. They are chosen so that wrap-around, a full buffer and a second round occur.

*Bounds of `node`.* Pool: 3 threads, 2 calls, up to 7 rows aligned to 1 or 2 (short
last range, idle thread; `ResultComplete` proved without bounds). Programs: 10
processes, 20 inodes, 20 disk blocks, 9 descriptors, pipes of 2, so that the
tests that use up processes, inodes, the disk or a pipe do; repetitions are cut to 2. Calls: 2, of 3 attempts with 2 drained
datagrams.

Deadlock is checked where the system never stops (`worker_threads`, `ring`,
`discovery`); elsewhere the runs are bounded or the program ends.

`FinalComplete` carries a premise, `~disturbed`: in the session no SET_NEIGHBOR
went unanswered or was applied late, no ASSIGN_LAYERS came late or twice and no
worker registered again. The entries under "Known disagreements" show that
each part of it is needed.

**Fairness.** Weak fairness of a thread's steps: the programs rely on
xv6's preemptive scheduler (not in the repository) to run every runnable thread (`WorkerThreads`,
`ThreadPool`). Weak fairness of the master's timed waits (`Session`), whose
loops are counted in ticks. In `Discovery`, weak fairness of time, of the master's
loop and of each worker's steps; delivery is not assumed: the liveness property has
the premise that from some point on nothing is lost or timed out
(`<>[][~Disturbed]_vars`). In `Rftp` the client and the server keep running;
`ChunksEnd` holds although a datagram may never arrive, because receives are timed
there. In `Userland`, weak fairness of the machine as a whole: some process that
can run does. `Ends` leaves out the scenarios of `forphan` and `dorphan`, which sleep
until they are killed. `grind` never ends either: its `while(1)` is cut after one
round of each of two processes, or three of one alone, where the process spins for
ever. There `Ends` says that every round is over, with all that the round forked.

## What is proved

Eight modules hold proofs, about 14000 obligations. All theorems are for every
value of the constants that satisfies the module's assumptions. Of the safety properties
of the protocol, worker, transfer and loading runs none is left to TLC alone. The
modules of proofs are cut by size as much as by subject.

* **SessionProofs**: `FinalsComplete`. Part of `SessionInv` holds whatever is lost:
  the order lists each worker once, no datagram and no process is of a later session
  than the master's, no activation has a later sequence number, and one of the
  attempt under way is of the position under way. `Calm` is what holds while the
  session is undisturbed: who was told has the pointers of the order; an assignment
  of the session is the worker's share of the closed-form split, so that the next
  share begins where it ends (the lemmas on `Start` and `Count`); and an activation
  of the session, in the network or held, is due to enter exactly the layer its
  destination begins with, went through every worker before it, and all workers have
  cached all earlier positions. The premise `~disturbed` of `FinalComplete` is what
  the step of each late, lost or repeated datagram needs.
* **DiscoveryProofs**: `WorkersHoldOneSlot`, `ExpiredUntilHello` and
  `SessionsStartClosed` of Ring, from the type and one slot per worker.
  `JoinsKeepOnePath`: `JoinInv` adds that no slot is suspected or expired. A join
  behind the nearest active slot below, wrapping around included, puts one place into
  the list of slots along next; re-stitching lists them in ascending order, by the
  lemmas on ranks.
  `DiscoveryTyped` and `ActiveWorkersWereProbed`: the last is far from inductive,
  since a heartbeat raises a SUSPECTED slot: `Probed` says that whoever heartbeats
  holds a slot that is proven, or one a heartbeat cannot raise, and that a worker
  about to come up holds a slot accepted in this unit of time.
* **WireProofs**. *WorkerThreads*: `HandoffTyped`,
  `OneReceiver`, `NoEvictionLost`. The last two are not inductive: that the listener
  is not receiving when the port is taken follows from `ParkedInv` (its flag is up
  exactly while it is parked) and `ClaimedInv`; that clearing `needs_reregister`
  forgets nothing follows from `OwnedInv` (nothing is taken in while the port is
  owned). *XdrStream*: `XdrRoundTrip`, for values as described above. `XdrInv` says
  that each value stands between two marks in the buffer, as the bytes of its type
  (`OnTheWire`), that the reader's position is the mark of the last value read
  (`Cursor`), and that what was read is what was written (`Matched`); a lemma for
  each routine says that reading inverts writing. *Sha256*: `DigestIsOfMessage`, for
  every block size and length field; the invariant says of every byte fed so far,
  in a finished block or in the buffer, that it is the padded message's byte at its
  place, and in each phase how many bytes are still to come.
* **TransferProofs**. *RpcSend*: `DatagramsWhole`, and the refinement
  `SendsAreAtomic`; at most one thread is inside the lock, and the words it has
  encoded are its own. *SegmentCache*: `ModelsWhole`, from `CacheInv`: who fetches
  has put into the segment what it received, and a segment that is not whole is
  being fetched or was given up. *Rftp*: `WindowsIntact`, under the hypothesis
  `OneFileAsked`: once a file that exists was asked for on a port, only that one is.
  `TransferInv` says that answers under way are true of a file asked for (size,
  index, length), that the window lies in the file, and that every byte of the window
  whose chunk is marked received is in the buffer. Without the hypothesis the
  property is false; see `WindowIntact` below. *ShardLoad*: `WindowsAgree` - for
  every header `shard_fetch_config` accepts, a worker fetches for each layer and
  tensor exactly the window a single node reads, although the two compute it
  differently - and `Loaded`, by the invariant that names which tensors an unfinished
  load has put in place. `HeadLoaded`: the same at the master. Its offsets are a sum
  of their own, which the lemma `EndsMapped` shows to be where `memory_map_weights`
  comes to; the embedding table serves as the classifier because the master refuses
  every other model, which is part of the invariant.
* **NodeProofs**, what goes on within a node. *ThreadPool*: `CallsComplete`, from a
  lemma that the rounded ranges partition the rows and the invariant that flags and
  items in use belong to the current call. *RpcCall*: `AnswersOwn`; xids are drawn
  in step with the calls, a datagram carries the xid of its call, and a reply is to
  a call that was executed. It rests on one thread drawing xids; see `XidsDistinct`
  below. *Mailbox*: `HandedOverIntact`, `NothingServedUnloaded`; the invariant
  follows a hop through filling, parking, draining and holding, with the number of
  hops conserved; and whoever wrote `ready` last, it is up only with a shard.
* **LibraryProofs**. *XStdlib*: `SortAndSearch`, for arrays of any length.
  `SortInv`: the ranges on the stack lie apart, two elements out of order are
  always inside one of them or inside the range being partitioned (`Ordered`), the
  number of times a value occurs stays, and the range at depth t is at most the array
  halved t - 1 times (`Shrinks`), which bounds the stack. `xbsearch` stays in the
  array whatever `xqsort` left; in one it finished (`complete`) the key is never below
  `low` or above `high`. *Umalloc*: `HeapIsSound`, for any
  sequence of calls. `HeapInv` says it of the moments inside a call too: headers lie
  in address order without overlap, each is on the list, handed out or on its way
  back (`Headers`, `Layout`), the list goes round once in address order
  (`Successor`), and the loops' pointers are on it (`Loops`).
* **AlgorithmProofs**. *LayerSplit*: `TwoPathsAgree`, `SplitIsExact`, from lemmas
  about quotient and remainder (contiguous, non-empty, every layer has one owner) and
  the loop invariant that `next_layer` is where the closed form puts the next worker.
  *Generation*: `DialogsKept`. `LoopInv` says of each turn where it begins and ends
  among the tokens fed, that a turn which is over ends with the only EOS of its
  answer, and of the turn under way that the token to be fed next is the prompt's or
  was printed. *RateLimiter*: `QuietAdmitted` for any number of peers, from
  `BucketsInv` (a peer has at most one bucket, brought up to date when it called
  last); `BucketsAreFair` when every peer finds a slot (`FewPeers`), from
  `DroppedInv` (the bucket of a peer dropped in this tick is still there and empty:
  a free slot is left, and the scan takes it rather than that bucket).
* **Lemmas** has what several of them need: least and greatest elements, ranks and
  ascending enumerations of finite sets, the layer split.

Where an argument needs induction over a number, it takes a least counterexample
instead (`LeastNatural`), which the provers can use.

Only model-checked:

* all liveness properties; the prover does not handle them under fairness;
* of `algorithms`, `CodecFaithful`, `TextKept`, `SampleAllowed` and `LineParsed`:
  they say what a fold or a recursion computes from its input, which takes induction
  over that input; and `BlockAsStandard`, which is about the 64 rounds of one block
  and has no constants, so that the run checks every instance there is;
* `TestsPass` and `LinesRun` of the user programs, which are about 25 fixed scenarios
  on a small machine;
* that parts refine each other across modules, other than `SendsAreAtomic`.

## Known disagreements

Statements of the repository's comments and documents that TLC refutes (for the last
two, what the comment takes for granted). The first
is a run. The others are repeated with the configuration of the module's run, the
property in place of its own and the changes named. For Session they are NWorkers,
NLayers, Steps, MaxSeq, INFER_MAX_RETRIES, RPC_MAX_RETRIES, MaxRestarts, MaxRejoins,
under `Spec`. The last six are of parts of `MCAlgorithms`.

* **CallReturns** (`MCThreadPoolReturn.cfg ThreadPool`; `llama_core.c:183`). universal_worker_thread sets work_done before it clears work_ready; the caller may return, hand out its next item and raise work_ready in between, and the late store erases the signal, so neither side ever moves. llama_core.c:158 says the worker "Waits for signal, checks task type, executes, signals done".
* **NoSelfLoop** (`MCRing`, 3 workers, `RingSpec`; `discovery.c:603`). handle_cap_ack gives a joining worker its predecessor's next pointer; when the joiner is the expired tail itself the predecessor's next still names it (expiry never re-links), so the worker is told to forward to itself. README.md:126 says "ring topology stitching that stays consistent across joins and losses". The next session re-stitches and repairs it.
* **StitchesAgree** (`MCRing`, 4 slots, no symmetry; `discovery.c:586`). handle_cap_ack links a worker behind the nearest active slot below it, wrapping around, so CAP_ACKs that arrive out of slot order yield another ring order than discovery_restitch_ring. discovery.h:272 says "The order matches registration's incremental stitch, since both derive their pointers from the same ordered ACTIVE list; the two paths agree without needing to be kept in sync by hand".
* **NonceDrawnForThis** (`Discovery`, 1 worker, `Spec`; `discovery.c:512`). A failed draw returns SYSTEM_ERR but leaves the slot PENDING with the probe of its previous registration, which line 482 re-sends to the next AUTH_HELLO and handle_cap_ack accepts. discovery.c:513 says "No entropy, no probe: fail the registration rather than issue a predictable nonce".
* **ExpiredComesBack** (`Discovery`, 1 worker; `discovery.c:664`). EVICT is sent once, fire and forget, and the SYSTEM_ERR that answers an expired worker's heartbeats is thrown away at discovery.c:405, so a lost EVICT is never made up for. distinf.c:228 says "When the master expires it, it sends PROC_EVICT; the listen thread sets *needs_reregister" and README.md:126 "heartbeat-driven soft-state lifecycle with eviction and re-registration".
* **StartsResident** (`Session`, 2/2/1/1/0/2/0/0; `distinf.c:928`). master_handle_shard_ready counts reports, not workers: a worker that received both transmissions of an ASSIGN_LAYERS whose reply was late reports twice, and generation starts with another worker's shard missing. distinf.c:1157-1159 says "Every shard reports resident within SHARD_LOAD_TIMEOUT_TICKS; a failure or a timeout aborts as -2 rather than generating against a ring that is only partly loaded".
* **InformedOfRing** (`Session`, 2/2/1/1/0/1/0/0; `distinf.c:1191`). run_generation_session ignores what discovery_notify_neighbor returns, so a worker whose SET_NEIGHBOR was lost still gets its assignment and serves hops with the pointers it had before. distinf.c:1150-1152 says "Every survivor is told its neighbours before it is told its layers, so no worker can receive a hop for a ring it has not been informed of".
* **ServesOwnSession** (`Session`, 1/1/1/1/0/1/1/0; `distinf.c:461`). Taking an assignment clears ready and releases the shard but leaves have_hop set, so once the new shard is ready the hop of the old session is computed on it and writes into its KV cache. distinf.c:419-421 says "this branch runs again on each restart with a different layer range, and it must leave no trace of the range it is replacing".
* **MidRingNotFinal** (`Session`, 2/2/1/1/0/1/0/1; `distinf.c:987`). handle_cap_ack links a returning head in behind the last worker with next = master, and tells it so; the head then marks its own output FINAL and master_ring_tail names it as the tail, so master_handle_final commits an activation that skipped the rest of the ring. distinf.c:955-958 says the source binding and the flag are there "so a mid-ring activation cannot be mistaken for a completed pass".
* **ServesWithCache** (`Session`, 1/1/2/2/0/2/0/0; `distinf.c:623`). worker_inference_hook takes a retransmitted ASSIGN_LAYERS of the session already loaded like a new one: the shard is reloaded, the KV cache is gone, and the next position is computed and committed without its predecessors. distinf.c:1137-1140 says the session "Always restarts generation at the prompt's first token (pos 0) rather than replaying to rebuild worker KV-cache state".
* **XidsDistinct** (`RpcSend`, 2 senders, 1 word, 2 sends; `rpc.c:102`). g_xid++ is a load and a store with no lock, and the heartbeat and inference threads both draw xids in a preemptive kernel on several harts (distinf.c:315 speaks of -smp 8), so two calls can carry the same xid. rpc.c:96 says "XID counter — monotonic; single-core xv6 needs no atomics".
* **AckedIsTaken** (`Mailbox`, 1 sequence number, 2 assignments; `distinf.c:451`). inference_thread copies a->assignment and then clears have_assignment without a lock; an assignment the listen thread posts in between is acknowledged and then erased (or copied half old, half new), and the master waits for a SHARD_READY that never comes. distinf.c:625-626 says the reply "acknowledges the assignment", and distinf.c:457-459 that "No lock is needed".
* **WindowIntact** (`MCRftp`, `TwoFiles`, `FileThenRange`, no loss, 1 duplicate; `ftpclient.c:344`). process_data_packet never compares the packet's file_id with the file it is fetching, so a delayed or duplicated chunk of the previous file on the same port fills a chunk of this one, and a range has no digest. ftpclient.c:532-533 says "A partial window is covered by chunk-completeness accounting plus the UDP checksum (RFC 768)".
* **FileIntact** (`MCRftp`, `TwoFiles`, `Files`, no loss, 2 duplicates; `ftpclient.c:639`). Neither META_RESP is compared with the file asked for, and verification is skipped when the window is not the size of the second META_RESP, so a stale META_RESP turns a whole-file fetch into an unverified one. ftpclient.c:15-17 says the client "verifies integrity with SHA-256, and returns an allocated buffer containing the file on success".
* **TransferEnds** (`MCRftp`, `OneRange`, `Prompt = TRUE`; `ftpclient.c:217`). llm_meta_request sends once and calls the unbounded recv, so a lost META_REQ or META_RESP hangs the transfer (and with it the master, which has no other thread). server/README.md:197 says the protocol "Recovers automatically from lost packets".
* **LossRecovered** (`MCRftp`, `OneRange`, `Prompt = TRUE`; `server/server.py:447`). handle_retrans_req reads offset before any assignment; the exception is turned into an ERROR reply, so no RETRANS_REQ is ever answered and one lost chunk fails the transfer. server/README.md:252-253 says "xv6 detects missing chunks → Sends RETRANS_REQ", "Server retransmits → xv6 assembles complete file".
* **NoTrace** (`MCShardLoad`; `shard.c:206`). A load that fails half way returns with the segments it attached and loaded = 0; shard_release then does nothing, and the next shard_load forgets the handles, so every failed load keeps attachments of the process until none is left. distinf.c:419-421 says an assignment "must leave no trace of the range it is replacing".
* **Reattaches** (`MCShardLoad`; `shard.c:173`). shard_load fetches every tensor whatever the segment holds. shard.c:89-90 says the segment is "Keyed by layer index alone, so a worker that is reassigned the same layers after a restart re-attaches instead of re-downloading".
* **OffsetsMirror** (`MCShardLoad`, `Plain` with 4 heads of each kind and seq_len 3; `llama_core.c:458`). memory_map_weights skips two tables of half of seq_len * head_size floats, each rounded down, llama_head_tail_offsets the whole product: with an odd product the classifier is one float further on. The master refuses models with a classifier of their own (distinf.c:791-796), so nothing reads there. llama_core.h:234-235 says "Offsets mirror memory_map_weights() exactly so they cannot diverge from the mapped layout".
* **EveryHitWhole** (`SegmentCache`; `llama.c:103`). A segment is taken for complete as soon as it exists, though it is created before the transfer and kept when that fails. llama.c:94-95 says "rather than handing back a partially-filled mapping".
* **FreeSlotFirst** (`RateLimiter`; `discovery.c:108`). The scan prefers a used bucket with tokens to an unused one. discovery.c:93-95 says a bucket is evicted "when all are in use".
* **MissingIsAbsent** (`XStdlib`; `xstdlib.c:75`). When malloc fails xqsort returns with the array half sorted and no way to tell; encode searches it all the same and may miss a token that is there. llama_core.c:899 says "efficiently find the perfect match for str in vocab, return its index or -1 if not found".
* **DecodesByte** (`Tokenizer`; `llama_core.c:849`). xsscanf does not know `%02hhX`, so a byte token is printed as its six characters. llama_core.c:846-847 says "parse this and convert and return the actual byte".
* **TokenReturned** (`Sampler`; `llama_core.c:1081`). With topp below 1/n all candidates may be cropped; the index of the last is then -1. llama_core.c:1079 says only "values smaller than (1 - topp) / (n - 1) cannot be part of the result".
* **OnlyTheObject** (`XdrStream`; `xdr.c:381`, `402`). A float goes through an 8-byte long, so reading one also writes the four bytes beside it. xdr.c:380 says "Treat float bits as long"; a long is 8 bytes here.

## Not modelled

* **Floating point**: the transformer's arithmetic, `xmath.c`, conversion of floats
  to and from text, rounding in the sampler. Out of TLC's reach.
* **Kernel internals**: the C source is not in the repository. Of memory order, only
  program order is modelled.
* **The capability checksum**: one 32-bit recurrence, written once for each end; its
  outcome, right or failed, is a choice in `Ring` and `Discovery`.
* **Concurrent `malloc`**: `umalloc.c` has no lock, and `xdrmem_create` calls it from
  threads that send and threads that receive. `Umalloc` has one thread.
* **A restarted node's xids**: they begin at 1 again, and an old reply might match.
  Whether one is still under way after a boot is a matter of time.
* **Formatted input and output, string and memory helpers** of the user library, and
  `grep`, `ls`, `kill`, `netecho`: far from inference.
* **`mem` and `stacktest`** of `usertests.c` and **`fsfull`**, which it does not run;
  `threadtest.c`, whose mutex is in `RpcSend`; the test programs that compare values or drive whole
  machines.
* **Multicast switch, simulation driver, test client, counters**: outside the nodes
  or I/O; to a node the switch is part of a lossy network.
* **Session over Mailbox's hand-overs** as one refinement: each is checked alone.
