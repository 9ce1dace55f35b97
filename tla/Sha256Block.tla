---------------------------- MODULE Sha256Block ----------------------------
(***************************************************************************)
(* sha256_block, the compression function of user/sha256.c.  The schedule  *)
(* lives in 16 words that update_m rewrites in place, and the registers    *)
(* are not shifted but renamed by unrolling four rounds.  The words        *)
(* themselves are left out; what is kept is which word goes where.  A word *)
(* is its name in FIPS 180-4: <<"w", t>> in the schedule, <<"a", t>> and   *)
(* <<"e", t>> for the two registers that round t computes, those before    *)
(* round 0 being the chaining value.                                       *)
(***************************************************************************)
EXTENDS Integers, Sequences

VARIABLES
  i,        \* 0, 16, 32, 48: the pass over the schedule; 64 at the end
  step,     \* 0 .. 15 update_m is at word step, 16 .. 31 round step - 16
  m, lo, hi

vars == <<i, step, m, lo, hi>>

Wrong == <<"wrong", 0>>

Init ==
  /\ i = 0
  /\ step = 0
  /\ m = [j \in 0 .. 15 |-> Wrong]
  /\ lo = [n \in 0 .. 3 |-> <<"a", -1 - n>>]
  /\ hi = [n \in 0 .. 3 |-> <<"e", -1 - n>>]

\* m[j] += m[j + 9] + SIG0(m[j + 1]) + SIG1(m[j + 14]), indices modulo 16: the
\* word of round t if the four operands are those FIPS 180-4 gives round t.
Extended(j, t) ==
  IF /\ m[j] = <<"w", t - 16>>
     /\ m[(j + 9) % 16] = <<"w", t - 7>>
     /\ m[(j + 1) % 16] = <<"w", t - 15>>
     /\ m[(j + 14) % 16] = <<"w", t - 2>>
  THEN <<"w", t>> ELSE Wrong

update_m ==
  /\ i < 64 /\ step < 16
  /\ m' = [m EXCEPT ![step] = IF i < 16 THEN <<"w", step>> ELSE Extended(step, i + step)]
  /\ step' = step + 1
  /\ UNCHANGED <<i, lo, hi>>

\* Mutant: the registers of hi are not renamed from round to round.
RegistersFixed(q) ==
  [n \in 1 .. 8 |-> IF n <= 4 THEN lo[(n + 3 - q) % 4] ELSE hi[n - 5]]

\* The operands of one of the four unrolled rounds, as the code passes them:
\* a, b, c, d in lo and e, f, g, h in hi.
Registers(q) ==
  [n \in 1 .. 8 |-> IF n <= 4 THEN lo[(n + 3 - q) % 4] ELSE hi[(n - q - 1) % 4]]

Round ==
  LET q == (step - 16) % 4
      t == i + step - 16
      standard == /\ m[step - 16] = <<"w", t>>
                  /\ \A n \in 1 .. 4 : /\ Registers(q)[n] = <<"a", t - n>>
                                       /\ Registers(q)[n + 4] = <<"e", t - n>>
  IN /\ i < 64 /\ step >= 16
     /\ hi' = [hi EXCEPT ![3 - q] = IF standard THEN <<"e", t>> ELSE Wrong]
     /\ lo' = [lo EXCEPT ![3 - q] = IF standard THEN <<"a", t>> ELSE Wrong]
     /\ step' = (step + 1) % 32
     /\ i' = IF step = 31 THEN i + 16 ELSE i
     /\ UNCHANGED m

Next == update_m \/ Round

Spec == Init /\ [][Next]_vars

-----------------------------------------------------------------------------
\* sha256.c:105 "Only 16 elements instead of 64!": all the same, after round 63
\* each register holds what FIPS 180-4 leaves in it, in the place of the state
\* word it is added to.
BlockAsStandard ==
  i = 64 => \A n \in 0 .. 3 : lo[n] = <<"a", 63 - n>> /\ hi[n] = <<"e", 63 - n>>
=============================================================================
