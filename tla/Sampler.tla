------------------------------ MODULE Sampler ------------------------------
(***************************************************************************)
(* sample of user/llama_core.c and the three samplers behind it.           *)
(*                                                                         *)
(* A probability is an integer number of One-ths, compared with the        *)
(* denominators multiplied out; rounding is left out, so the code's         *)
(* "in case of rounding errors" returns are reached only where the exact   *)
(* computation reaches them.  The softmaxed logits are the input.          *)
(***************************************************************************)
EXTENDS Integers, Sequences, FiniteSets, SequencesExt, FiniteSetsExt

CONSTANTS One,         \* the denominator of the probabilities
          MaxVocab     \* vocabulary sizes 2 .. MaxVocab

VARIABLES
  greedy,            \* temperature == 0.0f
  probabilities, topp, coin,
  next               \* the token returned, 0 before that

vars == <<greedy, probabilities, topp, coin, next>>

Garbage == -1    \* what probindex[-1].index may hold

sample_argmax ==
  CHOOSE i \in DOMAIN probabilities :
    \A j \in DOMAIN probabilities :
      \/ probabilities[j] < probabilities[i]
      \/ probabilities[j] = probabilities[i] /\ i <= j

\* The running sums of the loops.
Cdf(p, i) == FoldFunctionOnSet(+, 0, p, 1 .. i)

\* The first index of 1 .. n that passes the loop's test, or the fallback.
FirstOr(n, Test(_), fallback) ==
  IF \E i \in 1 .. n : Test(i) THEN Min({i \in 1 .. n : Test(i)}) ELSE fallback

\* Mutant: coin <= cdf.
sample_multAtMost ==
  LET n == Len(probabilities)
      Hit(i) == coin <= Cdf(probabilities, i)
  IN FirstOr(n, Hit, n)

sample_mult ==
  LET n == Len(probabilities)
      Hit(i) == coin < Cdf(probabilities, i)
  IN FirstOr(n, Hit, n)

\* The candidates that survive the crop at (1 - topp) / (n - 1).
Cropped == {i \in DOMAIN probabilities : probabilities[i] * (Len(probabilities) - 1) >= One - topp}

\* qsort with compare: descending, equal probabilities in any order.
Sorted(candidates) ==
  {order \in SetToSeqs(candidates) :
     \A i, j \in DOMAIN order : i < j => probabilities[order[i]] >= probabilities[order[j]]}

\* The draw from one sorted list of candidates.
Draw(order) ==
  LET p == [i \in DOMAIN order |-> probabilities[order[i]]]
      n0 == Len(order)
      Exceeds(i) == Cdf(p, i) > topp
      last_idx == FirstOr(n0, Exceeds, n0)
      Hit(i) == coin * Cdf(p, last_idx) < Cdf(p, i) * One
  IN IF n0 = 0 THEN Garbage ELSE order[FirstOr(last_idx, Hit, last_idx)]

\* Every token the code may return, one for each order qsort may leave.
sample_topp == {Draw(order) : order \in Sorted(Cropped)}

Sample ==
  /\ next = 0
  /\ next' \in IF greedy THEN {sample_argmax}
               ELSE IF topp <= 0 \/ topp >= One THEN {sample_mult}
               ELSE sample_topp
  /\ UNCHANGED <<greedy, probabilities, topp, coin>>

-----------------------------------------------------------------------------
Distributions == {p \in UNION {[1 .. n -> 0 .. One] : n \in 2 .. MaxVocab} :
                    FoldFunction(+, 0, p) = One}

\* random_f32 is in [0, 1).
Init ==
  /\ greedy \in BOOLEAN
  /\ probabilities \in Distributions
  /\ topp \in 0 .. One
  /\ coin \in 0 .. One - 1
  /\ next = 0

Next == Sample

Spec == Init /\ [][Next]_vars

-----------------------------------------------------------------------------
Mass(p, S) == FoldFunctionOnSet(+, 0, p, S)
Likelier(p, i) == {j \in DOMAIN p : p[j] > p[i]}

\* The comment of sample_topp: it samples "from the smallest set of tokens that
\* exceed probability topp" (llama_core.c:1072).  Neither the crop before the
\* sort nor the order of equal probabilities lets a token outside such a set
\* through, as long as topp is at least 1/n; and no sampler returns a token of
\* probability zero.
InNucleus(p, i) == i \in DOMAIN p /\ p[i] > 0 /\ Mass(p, Likelier(p, i)) <= topp
SampleAllowed ==
  next # 0 =>
    IF greedy THEN next \in DOMAIN probabilities /\ Likelier(probabilities, next) = {}
    ELSE IF topp \in {0, One} THEN next \in DOMAIN probabilities /\ probabilities[next] > 0
    ELSE topp * Len(probabilities) >= One => InNucleus(probabilities, next)

\* The crop is "for efficiency" only (llama_core.c:1080): every token drawn is
\* one that a draw from the whole sorted vocabulary gives for the same coin.
Whole == {Draw(order) : order \in Sorted(DOMAIN probabilities)}
CropHarmless ==
  next # 0 /\ ~greedy /\ topp \in 1 .. One - 1 /\ topp * Len(probabilities) >= One => next \in Whole

\* Without the bound on topp: a token of the vocabulary comes back.
TokenReturned == next # 0 => next \in DOMAIN probabilities
=============================================================================
