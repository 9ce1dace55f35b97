---------------------------- MODULE RateLimiter ----------------------------
(***************************************************************************)
(* disc_rl_allow of user/discovery.c: a token bucket for each calling peer  *)
(* in a table of few slots.                                                 *)
(***************************************************************************)
EXTENDS Integers

CONSTANTS SLOTS, BURST,   \* DISCOVERY_RL_SLOTS, DISCOVERY_RL_BURST; one token a tick
          Peers, MaxTime  \* bound: who calls, and for how many ticks

VARIABLES
  disc_rl,    \* the buckets, by slot
  now,
  last,       \* peer -> when it called last, -1: never
  admitted,   \* what disc_rl_allow returned last, and to whom
  dropped     \* peers dropped since the last tick

rateVars == <<disc_rl, now, last, admitted, dropped>>

None == "none"

ASSUME RateAssumption ==
  /\ SLOTS \in Nat \ {0} /\ BURST \in Nat \ {0}
  /\ None \notin Peers

Slots == 0 .. SLOTS - 1

RateInit ==
  /\ disc_rl = [i \in Slots |-> [peer |-> None, tokens |-> 0, last |-> 0]]
  /\ now = 0
  /\ last = [p \in Peers |-> -1]
  /\ admitted = [peer |-> None, ok |-> TRUE, gap |-> 0]
  /\ dropped = {}

Used(i) == disc_rl[i].peer # None

\* The first of the fullest buckets from slot i on: the scan takes a bucket with
\* more tokens than the candidate so far.
Fullest(i) ==
  CHOOSE j \in i .. SLOTS - 1 : /\ \A k \in i .. SLOTS - 1 : disc_rl[k].tokens <= disc_rl[j].tokens
                                /\ \A k \in i .. j - 1 : disc_rl[k].tokens < disc_rl[j].tokens

\* Mutant: a free slot is not preferred.
LruFullest == Fullest(0)

\* The slot to claim: at a free slot the scan starts anew, with its 0 tokens.
Lru ==
  LET free == {i \in Slots : ~Used(i)}
  IN Fullest(IF free = {} THEN 0 ELSE CHOOSE i \in free : \A j \in free : j <= i)

disc_rl_allow(p) ==
  LET mine == {i \in Slots : disc_rl[i].peer = p}
      i == IF mine # {} THEN CHOOSE j \in mine : \A k \in mine : j <= k ELSE Lru
      bucket == IF mine # {} THEN disc_rl[i] ELSE [peer |-> p, tokens |-> BURST, last |-> now]
      sum == bucket.tokens + now - bucket.last
      tokens == IF sum > BURST THEN BURST ELSE sum
      ok == tokens > 0
  IN /\ disc_rl' = [disc_rl EXCEPT ![i] = [peer |-> p, tokens |-> IF ok THEN tokens - 1 ELSE tokens, last |-> now]]
     /\ admitted' = [peer |-> p, ok |-> ok, gap |-> IF last[p] = -1 THEN 1 ELSE now - last[p]]
     /\ last' = [last EXCEPT ![p] = now]
     /\ dropped' = IF ok THEN dropped ELSE dropped \cup {p}
     /\ UNCHANGED now

Tick ==
  /\ now < MaxTime
  /\ now' = now + 1
  /\ dropped' = {}
  /\ UNCHANGED <<disc_rl, last, admitted>>

RateNext == (\E p \in Peers : disc_rl_allow(p)) \/ Tick
RateSpec == RateInit /\ [][RateNext]_rateVars
-----------------------------------------------------------------------------
\* discovery.c:67-70 "throttled without starving the ring or the other peers":
\* a peer that calls at most once a tick is always let through, whatever the
\* others send and whosever bucket they take.
QuietPeerAdmitted == admitted.gap >= 1 => admitted.ok

\* A peer that was dropped stays out until the next tick, whatever the others
\* do, as long as there are no more of them than slots.
ThrottledStays == admitted.ok => admitted.peer \notin dropped

\* disc_rl_allow: throttling reaches those who flood, and only them.
BucketsFair == QuietPeerAdmitted /\ ThrottledStays

\* discovery.c:93-95 "evicting the fullest ... when all are in use": a bucket is
\* taken from its peer only when no slot is free.
FreeSlotFirst ==
  [][\A i \in Slots : Used(i) /\ disc_rl'[i].peer # disc_rl[i].peer => \A j \in Slots : Used(j)]_rateVars
=============================================================================
