----------------------------- MODULE LayerSplit -----------------------------
(***************************************************************************)
(* How the master splits the model's layers over the active workers.       *)
(* discovery_assign_layers hands the ranges out in a loop that carries the *)
(* next free layer along; discovery_assign_one computes the k-th range     *)
(* alone, from k and the number of workers.  Both must describe the same   *)
(* split, and the split must cover the model exactly.                      *)
(*                                                                         *)
(* The loop runs over the workers of discovery_ring_order; the rpc_call to *)
(* each is answered or not, and a refusal ends the loop.                   *)
(***************************************************************************)
EXTENDS Layers

CONSTANTS MAX_WORKERS,
          MaxLayers       \* bound: the largest n_layers_total considered

ASSUME WorkersAssumption == MAX_WORKERS \in Nat \ {0}
ASSUME LayersAssumption == MaxLayers \in Nat

VARIABLES
  n_layers,     \* tmpl->n_layers_total
  n,            \* active workers
  k,            \* the worker to be assigned next
  next_layer,
  given,        \* worker index -> its range, <<layer_start, layer_end>>
  outcome       \* "running", the return value -1 or n

vars == <<n_layers, n, k, next_layer, given, outcome>>

-----------------------------------------------------------------------------
(* discovery_assign_layers: the loop.                                      *)

Init ==
  /\ n_layers \in 0 .. MaxLayers
  /\ n \in 0 .. MAX_WORKERS
  /\ k = 0
  /\ next_layer = 0
  /\ given = << >>
  /\ outcome = "running"

\* No active worker, or fewer layers than workers.
Refuse ==
  /\ outcome = "running"
  /\ ~Splittable(n_layers, n)
  /\ outcome' = "failed"
  /\ UNCHANGED <<n_layers, n, k, next_layer, given>>

\* One turn of the loop, the worker answers.
Assign ==
  /\ outcome = "running"
  /\ Splittable(n_layers, n)
  /\ k < n
  /\ LET count == n_layers \div n + (IF k < n_layers % n THEN 1 ELSE 0)
     IN /\ given' = [i \in 0 .. k |-> IF i < k THEN given[i]
                                      ELSE <<next_layer, next_layer + count>>]
        /\ next_layer' = next_layer + count
  /\ k' = k + 1
  /\ UNCHANGED <<n_layers, n, outcome>>

\* One turn of the loop, rpc_call fails.
AssignFails ==
  /\ outcome = "running"
  /\ Splittable(n_layers, n)
  /\ k < n
  /\ outcome' = "failed"
  /\ UNCHANGED <<n_layers, n, k, next_layer, given>>

Finish ==
  /\ outcome = "running"
  /\ Splittable(n_layers, n)
  /\ k = n
  /\ outcome' = "assigned"
  /\ UNCHANGED <<n_layers, n, k, next_layer, given>>

Next == Refuse \/ Assign \/ AssignFails \/ Finish

Spec == Init /\ [][Next]_vars

-----------------------------------------------------------------------------

TypeInv ==
  /\ n_layers \in Nat
  /\ n \in Nat
  /\ k \in Nat
  /\ k <= n
  /\ next_layer \in Nat
  /\ outcome \in {"running", "failed", "assigned"}

\* discovery.c:954-956: worker k's range is the same whichever of the two
\* functions emits it.
LoopAgreesWithClosedForm ==
  \A i \in 0 .. k - 1 :
    given[i] = <<Start(n_layers, n, i), Start(n_layers, n, i) + Count(n_layers, n, i)>>

\* discovery.h:225-226: when every worker has its range, each layer of the
\* model belongs to exactly one worker, and no worker is left without one.
CoversExactly ==
  outcome = "assigned" =>
    /\ \A l \in 0 .. n_layers - 1 :
         \E i \in 0 .. n - 1 :
           /\ given[i][1] <= l /\ l < given[i][2]
           /\ \A j \in 0 .. n - 1 :
                (given[j][1] <= l /\ l < given[j][2]) => j = i
    /\ \A i \in 0 .. n - 1 : given[i][1] < given[i][2] /\ given[i][2] <= n_layers

\* The loop's invariant: next_layer is where the closed form puts worker k.
IInv ==
  /\ TypeInv
  /\ k > 0 => Splittable(n_layers, n)
  /\ outcome = "assigned" => (Splittable(n_layers, n) /\ k = n)
  /\ Splittable(n_layers, n) => next_layer = Start(n_layers, n, k)
  /\ LoopAgreesWithClosedForm
=============================================================================
