------------------------------ MODULE ShardLoad ------------------------------
(***************************************************************************)
(* How the weights get onto the nodes.  A worker's shard: shard_load and   *)
(* shard_release of shard.c as inference_thread drives them, over          *)
(* assignments that replace one another, loads that fail half way and a    *)
(* process that is killed and started again.  The segments, one per layer, *)
(* persist on the node.  And the master's ends: master_load_head_tail.     *)
(*                                                                         *)
(* The bytes of a tensor are abstracted to where they come from: the model *)
(* and the window of its checkpoint.                                       *)
(***************************************************************************)
EXTENDS Checkpoint, FiniteSetsExt

CONSTANTS Models,
          Config,             \* model -> the header of its checkpoint
          NLayers,            \* bound: layers a worker may be asked to hold
          SHARD_MAX_LAYERS,
          NSHM,               \* attachments a process may hold
          MaxLoads            \* bound: assignments, and starts of the master

ASSUME ConfigsPlausible ==
  \A m \in Models : Config[m] \in Headers /\ Plausible(Config[m])

ASSUME NLayersAssumption == NLayers \in Nat

Layers == 0 .. NLayers - 1
Empty == << >>

VARIABLES
  segment,     \* layer -> tensor -> <<model, window>> whose bytes are there
  attached,    \* layer -> how often the process has attached its segment
  sh,          \* the shard: [loaded, model, from, to]
  stage,       \* "idle", "attach", "fetch"
  l, i,        \* shard_load's loop variables
  loads,
  head         \* the master: [pc, model, embed, final]

shardVars == <<segment, attached, sh, stage, l, i, loads>>
loadVars == <<segment, attached, sh, stage, l, i, loads, head>>

NoShard == [loaded |-> FALSE, model |-> 0, from |-> 0, to |-> 0]
NoHead == [pc |-> "start", model |-> 0, embed |-> Empty, final |-> Empty]

LoadInit ==
  /\ segment = [k \in Layers |-> [t \in Tensors |-> Empty]]
  /\ attached = [k \in Layers |-> 0]
  /\ sh = NoShard /\ stage = "idle" /\ l = 0 /\ i = 1 /\ loads = 0
  /\ head = NoHead

-----------------------------------------------------------------------------
(* A worker.                                                               *)

Mine(k) == sh.loaded /\ sh.from <= k /\ k < sh.to

\* shard_release: detach the segments of a loaded shard.
Released == [k \in Layers |-> attached[k] - IF Mine(k) THEN 1 ELSE 0]

\* shard_load's checks of the range, and the shard it starts from.
RangeFits(c, from, to) == from < to /\ to <= c.n_layers /\ to - from <= SHARD_MAX_LAYERS

Fresh(m, from, to) == [loaded |-> FALSE, model |-> m, from |-> from, to |-> to]

\* An assignment is taken: release, fetch the header, compare it with what the
\* master sent, check the range.
Assign(m, from, to, agreed) ==
  /\ stage = "idle" /\ loads < MaxLoads
  /\ loads' = loads + 1
  /\ attached' = Released
  /\ IF agreed /\ RangeFits(Config[m], from, to)
     THEN /\ sh' = Fresh(m, from, to)
          /\ stage' = "attach" /\ l' = from
     ELSE /\ sh' = [sh EXCEPT !.loaded = FALSE]
          /\ UNCHANGED <<stage, l>>
  /\ UNCHANGED <<segment, i, head>>

Attachments == MapThenSumSet(LAMBDA k : attached[k], Layers)

\* shmget and shmat of layer l.
Attach ==
  /\ stage = "attach" /\ Attachments < NSHM
  /\ attached' = [attached EXCEPT ![l] = @ + 1]
  /\ stage' = "fetch" /\ i' = 1
  /\ UNCHANGED <<segment, sh, l, loads, head>>

\* No memory for the segment, or no attachment left.
AttachFails ==
  /\ stage = "attach"
  /\ stage' = "idle"
  /\ UNCHANGED <<segment, attached, sh, l, i, loads, head>>

Window(k, t) == <<sh.model, Fetched(Config[sh.model], k, t)>>

After(k) ==
  IF k + 1 < sh.to
  THEN l' = k + 1 /\ stage' = "attach" /\ sh' = sh
  ELSE l' = k /\ stage' = "idle" /\ sh' = [sh EXCEPT !.loaded = TRUE]

\* Mutant: a segment whose first tensor is there is taken to hold the layer.
FetchTensorCached ==
  /\ stage = "fetch"
  /\ LET hit == i = 1 /\ segment[l][1] # Empty
     IN /\ segment' = IF hit THEN segment ELSE [segment EXCEPT ![l][i] = Window(l, i)]
        /\ IF i < 9 /\ ~hit THEN i' = i + 1 /\ UNCHANGED <<l, stage, sh>>
           ELSE i' = i /\ After(l)
  /\ UNCHANGED <<attached, loads, head>>

\* llm_fetch_range of tensor i straight into the segment; after the last tensor
\* the next layer, after the last layer the shard is loaded.
FetchTensor ==
  /\ stage = "fetch"
  /\ segment' = [segment EXCEPT ![l][i] = Window(l, i)]
  /\ IF i < 9 THEN i' = i + 1 /\ UNCHANGED <<l, stage, sh>> ELSE i' = i /\ After(l)
  /\ UNCHANGED <<attached, loads, head>>

\* The transfer fails, possibly after some bytes: the rest of the load is given up.
FetchFails ==
  /\ stage = "fetch"
  /\ \E b \in {segment[l][i], Empty} : segment' = [segment EXCEPT ![l][i] = b]
  /\ stage' = "idle"
  /\ UNCHANGED <<attached, sh, l, i, loads, head>>

\* The process is killed and started again: its attachments go, the segments stay.
Restart ==
  /\ loads > 0
  /\ attached' = [k \in Layers |-> 0]
  /\ sh' = NoShard /\ stage' = "idle"
  /\ UNCHANGED <<segment, l, i, loads, head>>

-----------------------------------------------------------------------------
(* The master: master_load_head_tail.                                      *)

\* The header: fetched, plausible, and with a shared classifier, or not.
HeadConfig(m, ok) ==
  /\ head.pc = "start"
  /\ head' = [head EXCEPT !.model = m,
                          !.pc = IF ok /\ Shared(Config[m]) THEN "embed" ELSE "failed"]
  /\ UNCHANGED shardVars

\* The embedding, into its segment.
HeadEmbed(ok) ==
  /\ head.pc = "embed"
  /\ head' = IF ok
             THEN [head EXCEPT !.pc = "final",
                               !.embed = <<head.model, HeadTail(Config[head.model]).embed>>]
             ELSE [head EXCEPT !.pc = "failed", !.embed = Empty]
  /\ UNCHANGED shardVars

\* The final norm, into the heap; the embedding is the classifier as well.
HeadFinal(ok) ==
  /\ head.pc = "final"
  /\ head' = IF ok
             THEN [head EXCEPT !.pc = "loaded",
                               !.final = <<head.model, HeadTail(Config[head.model]).final>>]
             ELSE [head EXCEPT !.pc = "failed"]
  /\ UNCHANGED shardVars

\* The master's process ends and is started again; llm_embed persists.
HeadRestart ==
  /\ head.pc \in {"failed", "loaded"}
  /\ head' = [NoHead EXCEPT !.embed = head.embed]
  /\ UNCHANGED shardVars

-----------------------------------------------------------------------------

Worker ==
  \/ \E m \in Models, from, to \in 0 .. NLayers, agreed \in BOOLEAN :
       Assign(m, from, to, agreed)
  \/ Attach \/ AttachFails \/ FetchTensor \/ FetchFails \/ Restart

Master ==
  \/ \E m \in Models, ok \in BOOLEAN : HeadConfig(m, ok)
  \/ \E ok \in BOOLEAN : HeadEmbed(ok) \/ HeadFinal(ok)
  \/ HeadRestart

LoadNext == Worker \/ Master

LoadSpec == LoadInit /\ [][LoadNext]_loadVars

-----------------------------------------------------------------------------

\* shard.c:28-38, distinf.c:438-440: in a shard that serves hops, every tensor
\* llama_block is handed holds the floats a single node's forward() reads for
\* that layer, whatever earlier loads left in the segments.
LoadedAsMapped ==
  \A k \in Layers, t \in Tensors :
    Mine(k) => segment[k][t] = <<sh.model, ForwardReads(Config[sh.model], k, t)>>

\* distinf.c:752-843: a master that embeds and classifies does it with the floats a
\* single node reads for it: the embedding table, the final norm, and for the
\* classifier the table again.
HeadAsMapped ==
  head.pc = "loaded" =>
    LET reads == EndReads(Config[head.model])
    IN /\ head.embed = <<head.model, reads.embed>>
       /\ head.final = <<head.model, reads.final>>
       /\ head.embed = <<head.model, reads.wcls>>

\* distinf.c:419-421: an assignment "must leave no trace of the range it is
\* replacing": between loads only the loaded shard is attached.
NoTrace ==
  stage = "idle" => \A k \in Layers : attached[k] = IF Mine(k) THEN 1 ELSE 0

\* shard.c:89-90: a worker reassigned the same layers after a restart "re-attaches
\* instead of re-downloading".
Reattaches ==
  [][stage = "fetch" /\ i = 1 /\ (\A t \in Tensors : segment[l][t] = Window(l, t))
       => i' = i]_loadVars

\* llama_core.h:234-235: the offsets "mirror memory_map_weights() exactly so they
\* cannot diverge from the mapped layout", the classifier's included.
OffsetsMirror == \A m \in Models : HeadTail(Config[m]) = EndReads(Config[m])
=============================================================================
