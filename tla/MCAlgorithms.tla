---------------------------- MODULE MCAlgorithms ----------------------------
(***************************************************************************)
(* The sequential parts of the system, each on inputs of its own: the layer *)
(* split, and next to it XDR, the RPC codec, SHA-256, sorting and           *)
(* searching, the tokenizer, the sampler and the loops that drive them, the *)
(* segment cache, the rate limiter, the allocator and the shell's parser.   *)
(* part says which of them this behaviour is about; the variables a to g    *)
(* are its variables, unless it has its own.                                *)
(***************************************************************************)
EXTENDS LayerSplit, SegmentCache, RateLimiter, Generation, XStdlib, Umalloc, Sha256, XdrStream

VARIABLES part, a, b, c, d, e, f, g

regs == <<a, b, c, d, e, f, g>>
own == <<vars, loopVars, cacheVars, rateVars, sortVars, heapVars, shaVars, xdrVars>>
all == <<own, part, regs>>

Word(x) == <<0, 0, 0, x>>
MCItems == {<<"bool", Word(1)>>, <<"bool", Word(0)>>, <<"char", <<200>>>>, <<"u_char", <<200>>>>, <<"short", <<255, 2>>>>,
            <<"u_short", <<255, 2>>>>, <<"int", <<255, 255, 255, 6>>>>, <<"u_int", <<129, 2, 3, 4>>>>,
            <<"hyper", <<255, 2, 3, 4, 5, 6, 7, 8>>>>, <<"enum", Word(3)>>,
            <<"long", <<0, 0, 0, 0, 129, 0, 0, 1>>>>, <<"float", <<9, 9, 9, 9, 1, 2, 3, 4>>>>}

W == INSTANCE RpcCodec WITH
  RPC_PAYLOAD_MAX <- 2, OPAQUE_AUTH_BODY_MAX <- 4, Xids <- {Word(9), <<255, 0, 0, 1>>}, Procs <- {Word(0), Word(12)},
  Stats <- {Word(0), Word(1), Word(3)}, Payloads <- UNION {[1 .. len -> {0, 1}] : len \in 0 .. 3}, msg <- a, cut <- b

B == INSTANCE Sha256Block WITH i <- a, step <- b, m <- c, lo <- d, hi <- e

MCArrays == UNION {[0 .. len - 1 -> {1, 2, 3}] : len \in 0 .. 5}
            \cup {[x \in 0 .. 10 |-> ((x * s) % 11) + 1] : s \in 1 .. 10}

MCBytes == {7, 10, 32, 97, 98, 130, 200}
Pieces == <<<<32>>, <<97>>, <<98>>, <<32, 97>>, <<97, 98>>, <<97, 98, 97>>, <<200, 130>>, <<98, 98>>>>
Scores == <<1, 1, 1, 5, 7, 6, 2, 7>>
MCVocab == [id \in 0 .. 2 \cup {x + 3 : x \in MCBytes} \cup 300 .. 307 |->
              IF id < 3 THEN [piece |-> <<-1000 - id>>, score |-> 0]
              ELSE IF id < 300 THEN [piece |-> <<3 - id>>, score |-> 0]
              ELSE [piece |-> Pieces[id - 299], score |-> Scores[id - 299]]]
MCTexts == UNION {[1 .. len -> MCBytes] : len \in 0 .. 3} \cup [1 .. 4 -> {32, 97, 98}] \cup [1 .. 6 -> {130, 200}]
T == INSTANCE Tokenizer WITH Vocab <- MCVocab, Texts <- MCTexts,
       text <- a, eos <- b, c <- c, str_buffer <- d, tokens <- e, pc <- f

S == INSTANCE Sampler WITH One <- 8, MaxVocab <- 4, greedy <- a, probabilities <- b, topp <- c, coin <- d, next <- e

MCPrompts == {<<1>>, <<1, 5>>, <<1, 5, 6>>}
MCStepsArgs == {-1, 0, 1, 5, 9}

MCLines == UNION {[1 .. len -> {"a", " ", "<", ">", "|", "&", ";", "(", ")", "q"}] : len \in 0 .. 4}
           \cup [1 .. 6 -> {"a", ">", "|", "&", ";"}] \cup [1 .. 7 -> {"a", "(", ")", ";"}]
P == INSTANCE ShellParse WITH LineSet <- MCLines, MAXARGS <- 4, line <- a, cmd <- b
-----------------------------------------------------------------------------
NoSplit == n_layers = 0 /\ n = 0 /\ k = 0 /\ next_layer = 0 /\ given = << >> /\ outcome = "running"
NoLoop == mode = "chat" /\ steps = 0 /\ fed = << >> /\ turns = << >> /\ user_idx = 0 /\ user_turn = TRUE /\ next = 0 /\ pc = "loop"
NoSort == base = << >> /\ arr = << >> /\ stack = << >> /\ low = 0 /\ high = 0 /\ pivot = 0 /\ i = 0 /\ j = 0 /\ key = 0 /\ at = "start" /\ complete = FALSE

MCInit ==
  /\ \/ part \in {"split", "loop", "cache", "rate", "sort", "heap", "sha", "xdr"}
        /\ a = 0 /\ b = 0 /\ c = 0 /\ d = 0 /\ e = 0 /\ f = 0 /\ g = 0
     \/ part = "wire" /\ W!Init /\ c = 0 /\ d = 0 /\ e = 0 /\ f = 0 /\ g = 0
     \/ part = "block" /\ B!Init /\ f = 0 /\ g = 0
     \/ part = "tokens" /\ T!Init /\ g = 0
     \/ part = "sample" /\ S!Init /\ f = 0 /\ g = 0
     \/ part = "parse" /\ P!Init /\ c = 0 /\ d = 0 /\ e = 0 /\ f = 0 /\ g = 0
  /\ IF part = "split" THEN Init ELSE NoSplit
  /\ IF part = "loop" THEN LoopInit ELSE NoLoop
  /\ IF part = "sort" THEN SortInit ELSE NoSort
  /\ CacheInit /\ RateInit /\ HeapInit /\ sha256_init /\ XdrInit

MCNext ==
  /\ UNCHANGED part
  /\ \/ UNCHANGED regs /\ \/ part = "split" /\ Next /\ UNCHANGED <<loopVars, cacheVars, rateVars, sortVars, heapVars, shaVars, xdrVars>>
                          \/ part = "loop" /\ LoopNext /\ UNCHANGED <<vars, cacheVars, rateVars, sortVars, heapVars, shaVars, xdrVars>>
                          \/ part = "cache" /\ CacheNext /\ UNCHANGED <<vars, loopVars, rateVars, sortVars, heapVars, shaVars, xdrVars>>
                          \/ part = "rate" /\ RateNext /\ UNCHANGED <<vars, loopVars, cacheVars, sortVars, heapVars, shaVars, xdrVars>>
                          \/ part = "sort" /\ SortNext /\ UNCHANGED <<vars, loopVars, cacheVars, rateVars, heapVars, shaVars, xdrVars>>
                          \/ part = "heap" /\ HeapNext /\ UNCHANGED <<vars, loopVars, cacheVars, rateVars, sortVars, shaVars, xdrVars>>
                          \/ part = "sha" /\ ShaNext /\ UNCHANGED <<vars, loopVars, cacheVars, rateVars, sortVars, heapVars, xdrVars>>
                          \/ part = "xdr" /\ XdrNext /\ UNCHANGED <<vars, loopVars, cacheVars, rateVars, sortVars, heapVars, shaVars>>
     \/ UNCHANGED own /\ \/ part = "wire" /\ W!Next /\ UNCHANGED <<c, d, e, f, g>>
                         \/ part = "block" /\ B!Next /\ UNCHANGED <<f, g>>
                         \/ part = "tokens" /\ T!Next /\ UNCHANGED <<g>>
                         \/ part = "sample" /\ S!Next /\ UNCHANGED <<f, g>>
                         \/ part = "parse" /\ P!Next /\ UNCHANGED <<c, d, e, f, g>>

MCSpec == MCInit /\ [][MCNext]_all
-----------------------------------------------------------------------------
\* rpc.c, rpc_proto.py: what one end encodes is what the other decodes, or it is
\* refused, and the two implementations agree on it.
CodecFaithful == part = "wire" => W!MessageSurvives /\ W!CodecsMirrored
\* sha256_block: sixteen words and renamed registers compute what FIPS 180-4 says.
BlockAsStandard == part = "block" => B!BlockAsStandard
\* encode, decode: the tokens fit into the caller's array and spell the text, and
\* a printable prompt is printed back as it was typed.
TextKept == part = "tokens" => T!TokensFit /\ T!SpellingKept /\ T!PromptPrinted
\* sample: the token drawn is one the rule allows; cropping drops none of those.
SampleAllowed == part = "sample" => S!SampleAllowed /\ S!CropHarmless
\* sh.c: a line that is accepted is all in the command, and no word is
\* overwritten by the end of another.
LineParsed == part = "parse" => P!WordsSurvive /\ P!NothingLost
=============================================================================
