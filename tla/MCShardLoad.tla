----------------------------- MODULE MCShardLoad -----------------------------
(* Module ShardLoad for TLC: a model with grouped key and value heads and a   *)
(* shared classifier, and one with neither.                                   *)
EXTENDS ShardLoad

Grouped == [dim |-> 6, hidden_dim |-> 5, n_layers |-> 3, n_heads |-> 3,
            n_kv_heads |-> 1, vocab_size |-> 7, seq_len |-> 4]
Plain == [dim |-> 4, hidden_dim |-> 6, n_layers |-> 2, n_heads |-> 2,
          n_kv_heads |-> 2, vocab_size |-> -5, seq_len |-> 4]

Configs == <<Grouped, Plain>>
=============================================================================
