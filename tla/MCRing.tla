------------------------------- MODULE MCRing -------------------------------
(* Module Ring for TLC.  The workers are interchangeable.                  *)
EXTENDS Ring, TLC

WorkerSymmetry == Permutations(Workers)

\* The bound on the state space: workers join every slot as long as nobody is
\* lost, and from the first loss on at most two hold a slot at a time.
Few == Cardinality({s \in Slots : registry[s].id # NoWorker}) <= 2

ChurnSpec == RingInit /\ [][RingNext /\ (calm' \/ Few')]_ringVars
=============================================================================
