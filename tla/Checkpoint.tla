----------------------------- MODULE Checkpoint -----------------------------
(***************************************************************************)
(* Where the tensors of a checkpoint are.  Three pieces of code walk the   *)
(* same file: memory_map_weights and llama_layer_at for a node that holds  *)
(* all of it, ckpt_geometry for a worker that fetches its layers, and      *)
(* llama_head_tail_offsets for the master, which fetches the two ends.     *)
(*                                                                         *)
(* Offsets and sizes are in floats behind the header.  A window is         *)
(* <<offset, length>>.  The nine tensors of a layer, in file order:        *)
(* rms_att, wq, wk, wv, wo, rms_ffn, w1, w2, w3.                           *)
(***************************************************************************)
EXTENDS Integers, Sequences

Tensors == 1 .. 9

\* The header: seven ints.
Headers == [dim : Int, hidden_dim : Int, n_layers : Int, n_heads : Int,
            n_kv_heads : Int, vocab_size : Int, seq_len : Int]

\* The sign of vocab_size says whether the classifier is the embedding.
Vocab(c) == IF c.vocab_size < 0 THEN -c.vocab_size ELSE c.vocab_size
Shared(c) == c.vocab_size > 0

\* The header checks of shard_fetch_config.
Plausible(c) ==
  /\ c.dim > 0 /\ c.hidden_dim > 0 /\ c.n_layers > 0 /\ c.n_heads > 0
  /\ c.n_kv_heads > 0 /\ Vocab(c) > 0 /\ c.seq_len > 0
  /\ c.dim % c.n_heads = 0

HeadSize(c) == c.dim \div c.n_heads

\* The running offset: where each of the sizes begins, and where the last ends.
Running(first, sizes) ==
  LET off[i \in 1 .. Len(sizes) + 1] ==
        IF i = 1 THEN first ELSE off[i - 1] + sizes[i - 1]
  IN off

-----------------------------------------------------------------------------
(* The whole model.                                                        *)

\* memory_map_weights: the tensors, all layers of each together.
WholeSizes(c) ==
  LET n == c.n_layers
      q == c.n_heads * HeadSize(c)
      kv == c.n_kv_heads * HeadSize(c)
  IN << n * c.dim, n * c.dim * q, n * c.dim * kv, n * c.dim * kv, n * q * c.dim,
        n * c.dim, n * c.dim * c.hidden_dim, n * c.hidden_dim * c.dim,
        n * c.dim * c.hidden_dim >>

Mapped(c) == Running(Vocab(c) * c.dim, WholeSizes(c))

KvDim(c) == (c.dim * c.n_kv_heads) \div c.n_heads

\* llama_layer_at: what a layer is long, and so where layer l of a tensor begins.
LayerSizes(c) ==
  LET d == c.dim
  IN << d, d * d, d * KvDim(c), d * KvDim(c), d * d, d,
        d * c.hidden_dim, d * c.hidden_dim, d * c.hidden_dim >>

LayerAt(c, l, t) == Mapped(c)[t] + l * LayerSizes(c)[t]

\* The floats behind a layer's pointer that llama_block reads: rmsnorm reads
\* dim of them, matmul(out, x, w, n, d) reads d rows of n.
BlockReads(c) ==
  LET d == c.dim
      h == c.hidden_dim
  IN << d, d * d, KvDim(c) * d, KvDim(c) * d, d * d, d, h * d, d * h, h * d >>

\* What forward() reads of tensor t in layer l.
ForwardReads(c, l, t) == << LayerAt(c, l, t), BlockReads(c)[t] >>

-----------------------------------------------------------------------------
(* A worker's layers.                                                      *)

\* ckpt_geometry.
Stride(c) ==
  LET d == c.dim
      kv == HeadSize(c) * c.n_kv_heads
  IN << d, d * d, d * kv, d * kv, d * d, d,
        d * c.hidden_dim, c.hidden_dim * d, d * c.hidden_dim >>

Base(c) == Running(Vocab(c) * c.dim, [t \in Tensors |-> c.n_layers * Stride(c)[t]])

\* The window shard_load asks the server for.  Its casts of the byte offset and
\* length to uint32_t change nothing in a checkpoint of less than 4 GB, which is
\* what a file of the server can be.
Fetched(c, l, t) == << Base(c)[t] + l * Stride(c)[t], Stride(c)[t] >>

-----------------------------------------------------------------------------
(* The master's ends.                                                      *)

\* memory_map_weights: where the classifier is.  Behind the final norm two rotary
\* tables are skipped, each of half the product rounded down.
ClassifierAt(c) ==
  IF Shared(c) THEN 0 ELSE Mapped(c)[10] + c.dim + 2 * ((c.seq_len * HeadSize(c)) \div 2)

\* What a single node reads at the ends: llama_embed rows of the table, llama_head
\* the final norm and a classifier of vocab_size rows.
EndReads(c) ==
  [embed |-> << 0, Mapped(c)[1] >>,
   final |-> << Mapped(c)[10], c.dim >>,
   wcls |-> << ClassifierAt(c), Vocab(c) * c.dim >>]

\* Mutant: keys and values counted with as many heads as queries.
HeadTailUngrouped(c) ==
  LET n == c.n_layers
      q == c.n_heads * HeadSize(c)
      table == Vocab(c) * c.dim
      final == table + n * c.dim + 3 * (n * c.dim * q) + n * q * c.dim + n * c.dim
               + n * c.dim * c.hidden_dim + n * c.hidden_dim * c.dim + n * c.dim * c.hidden_dim
      wcls == final + c.dim + c.seq_len * HeadSize(c)
  IN [embed |-> << 0, table >>, final |-> << final, c.dim >>,
      wcls |-> << IF Shared(c) THEN 0 ELSE wcls, table >>]

\* llama_head_tail_offsets adds up on its own.  The master does not read wcls: it
\* refuses a model whose classifier is not shared.
HeadTail(c) ==
  LET n == c.n_layers
      q == c.n_heads * HeadSize(c)
      kv == c.n_kv_heads * HeadSize(c)
      table == Vocab(c) * c.dim
      final == table + n * c.dim + n * c.dim * q + n * c.dim * kv + n * c.dim * kv
               + n * q * c.dim + n * c.dim + n * c.dim * c.hidden_dim
               + n * c.hidden_dim * c.dim + n * c.dim * c.hidden_dim
      wcls == final + c.dim + c.seq_len * HeadSize(c)
  IN [embed |-> << 0, table >>, final |-> << final, c.dim >>,
      wcls |-> << IF Shared(c) THEN 0 ELSE wcls, table >>]
=============================================================================
