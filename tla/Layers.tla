------------------------------- MODULE Layers -------------------------------
(***************************************************************************)
(* The even split of l layers over m workers, as discovery_assign_one      *)
(* computes it: worker i (from 0) gets [Start, Start + Count), the         *)
(* remainder goes to the lowest-indexed workers.                           *)
(***************************************************************************)
EXTENDS Integers

Start(l, m, i) == i * (l \div m) + (IF i < l % m THEN i ELSE l % m)

Count(l, m, i) == (l \div m) + (IF i < l % m THEN 1 ELSE 0)

\* Mutant: fewer layers than workers are split too.
SplittableAnyway(l, m) == m >= 1

\* The checks before anything is sent.
Splittable(l, m) == m >= 1 /\ l >= m
=============================================================================
