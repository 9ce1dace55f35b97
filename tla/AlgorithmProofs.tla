--------------------------- MODULE AlgorithmProofs ---------------------------
(***************************************************************************)
(* The layer split covers the model exactly, for every number of layers    *)
(* and workers, and the loop and the closed form agree. The loops of       *)
(* generate and chat keep the dialog, for all prompts and any number of    *)
(* steps. The rate limiter lets quiet peers through and keeps a dropped    *)
(* one out, for any peers and any burst.                                   *)
(***************************************************************************)
EXTENDS LayerSplit, Generation, RateLimiter, Lemmas

-----------------------------------------------------------------------------
(* The layer split.                                                        *)

\* The loop keeps its invariant: next_layer is where the closed form puts the
\* next worker, and so every range handed out is the closed form's.
THEOREM LoopInvariant == Spec => []IInv
  <1> USE WorkersAssumption, LayersAssumption
  <1>1. Init => IInv
    <2> SUFFICES ASSUME Init PROVE IInv
      OBVIOUS
    <2>1. TypeInv
      BY DEF Init, TypeInv
    <2>2. Splittable(n_layers, n) => next_layer = Start(n_layers, n, k)
      <3> SUFFICES ASSUME Splittable(n_layers, n)
                   PROVE  next_layer = Start(n_layers, n, k)
        OBVIOUS
      <3>1. n_layers \in Nat /\ n \in Nat \ {0}
        BY DEF Init, Splittable
      <3> QED
        BY <3>1, SplitEnds DEF Init
    <2> QED
      BY <2>1, <2>2 DEF Init, IInv, LoopAgreesWithClosedForm
  <1>2. IInv /\ [Next]_vars => IInv'
    <2> SUFFICES ASSUME IInv, [Next]_vars PROVE IInv'
      OBVIOUS
    <2>1. CASE Refuse
      BY <2>1 DEF Refuse, IInv, TypeInv, LoopAgreesWithClosedForm, Start, Count, Splittable
    <2>2. CASE Assign
      <3> DEFINE count == n_layers \div n + (IF k < n_layers % n THEN 1 ELSE 0)
      <3>1. n_layers \in Nat /\ n \in Nat \ {0} /\ k \in Nat /\ k < n
        BY <2>2 DEF Assign, Splittable, IInv, TypeInv
      <3>2. count = Count(n_layers, n, k)
        BY DEF Count
      <3>3. next_layer = Start(n_layers, n, k)
        BY <2>2 DEF Assign, IInv
      <3>4. /\ next_layer' = next_layer + count
            /\ k' = k + 1
            /\ given' = [i \in 0 .. k |-> IF i < k THEN given[i]
                                         ELSE <<next_layer, next_layer + count>>]
            /\ UNCHANGED <<n_layers, n, outcome>>
            /\ outcome = "running"
            /\ Splittable(n_layers, n)
        BY <2>2 DEF Assign
      <3> HIDE DEF count
      <3>5. next_layer' = Start(n_layers, n, k + 1)
        BY <3>1, <3>2, <3>3, <3>4, SplitContiguous
      <3>6. next_layer' \in Nat
        BY <3>1, <3>5, SplitType
      <3>7. TypeInv'
        BY <3>1, <3>4, <3>6 DEF TypeInv
      <3>8. LoopAgreesWithClosedForm'
        <4> SUFFICES ASSUME NEW i \in 0 .. k
                     PROVE  given'[i] = <<Start(n_layers, n, i),
                                          Start(n_layers, n, i) + Count(n_layers, n, i)>>
          BY <3>1, <3>4 DEF LoopAgreesWithClosedForm
        <4>1. CASE i < k
          BY <4>1, <3>1, <3>4 DEF IInv, LoopAgreesWithClosedForm
        <4>2. CASE i = k
          BY <4>2, <3>1, <3>2, <3>3, <3>4
        <4> QED
          BY <4>1, <4>2, <3>1
      <3> QED
        BY <3>1, <3>4, <3>5, <3>7, <3>8 DEF IInv
    <2>3. CASE AssignFails
      BY <2>3 DEF AssignFails, IInv, TypeInv, LoopAgreesWithClosedForm, Splittable
    <2>4. CASE Finish
      BY <2>4 DEF Finish, IInv, TypeInv, LoopAgreesWithClosedForm
    <2>5. CASE UNCHANGED vars
      BY <2>5 DEF vars, IInv, TypeInv, LoopAgreesWithClosedForm
    <2> QED
      BY <2>1, <2>2, <2>3, <2>4, <2>5 DEF Next
  <1> QED
    BY <1>1, <1>2, PTL DEF Spec

\* discovery.c:954-956: the loop of discovery_assign_layers and the closed form
\* of discovery_assign_one describe the same split.
THEOREM TwoPathsAgree == Spec => []LoopAgreesWithClosedForm
  <1>1. IInv => LoopAgreesWithClosedForm
    BY DEF IInv
  <1> QED
    BY <1>1, LoopInvariant, PTL

\* discovery.h:225-226: the ranges are non-empty, do not overlap and cover
\* [0, n_layers), for every number of layers and workers.
THEOREM SplitIsExact == Spec => []CoversExactly
  <1>1. IInv => CoversExactly
    <2> SUFFICES ASSUME IInv, outcome = "assigned"
                 PROVE  CoversExactly
      BY DEF CoversExactly
    <2>1. /\ n_layers \in Nat /\ n \in Nat \ {0} /\ n_layers >= n /\ k = n
      BY DEF IInv, TypeInv, Splittable
    <2>2. ASSUME NEW i \in 0 .. n - 1
          PROVE  /\ given[i][1] = Start(n_layers, n, i)
                 /\ given[i][2] = Start(n_layers, n, i + 1)
                 /\ Start(n_layers, n, i) \in Nat
                 /\ Start(n_layers, n, i + 1) \in Nat
      <3>1. i \in Nat /\ i + 1 \in Nat /\ i \in 0 .. k - 1
        BY <2>1
      <3>2. given[i] = <<Start(n_layers, n, i),
                         Start(n_layers, n, i) + Count(n_layers, n, i)>>
        BY <3>1 DEF IInv, LoopAgreesWithClosedForm
      <3>3. Start(n_layers, n, i + 1) = Start(n_layers, n, i) + Count(n_layers, n, i)
        BY <2>1, <3>1, SplitContiguous
      <3> QED
        BY <2>1, <3>1, <3>2, <3>3, SplitType
    <2>3. ASSUME NEW x \in 0 .. n_layers - 1
          PROVE  \E i \in 0 .. n - 1 :
                   /\ given[i][1] <= x /\ x < given[i][2]
                   /\ \A j \in 0 .. n - 1 :
                        (given[j][1] <= x /\ x < given[j][2]) => j = i
      <3>1. PICK i \in 0 .. n - 1 : Start(n_layers, n, i) <= x
                                   /\ x < Start(n_layers, n, i + 1)
        BY <2>1, SplitOwner, Zenon
      <3>2. ASSUME NEW j \in 0 .. n - 1, given[j][1] <= x, x < given[j][2]
            PROVE  j = i
        <4>1. /\ Start(n_layers, n, j) <= x /\ x < Start(n_layers, n, j + 1)
              /\ Start(n_layers, n, j) \in Nat /\ Start(n_layers, n, j + 1) \in Nat
          BY <3>2, <2>2
        <4>2. CASE j < i
          <5>1. Start(n_layers, n, j + 1) <= Start(n_layers, n, i)
            BY <4>2, <2>1, SplitMonotone
          <5> QED
            BY <5>1, <4>1, <3>1, <2>2
        <4>3. CASE i < j
          <5>1. Start(n_layers, n, i + 1) <= Start(n_layers, n, j)
            BY <4>3, <2>1, SplitMonotone
          <5> QED
            BY <5>1, <4>1, <3>1, <2>2
        <4> QED
          BY <4>2, <4>3, <2>1
      <3> QED
        BY <3>1, <3>2, <2>2
    <2>4. ASSUME NEW i \in 0 .. n - 1
          PROVE  given[i][1] < given[i][2] /\ given[i][2] <= n_layers
      <3>1. i \in Nat /\ i + 1 \in Nat /\ i + 1 <= n
        BY <2>1
      <3>2. Count(n_layers, n, i) >= 1 /\ Count(n_layers, n, i) \in Nat
        BY <2>1, <3>1, SplitNonEmpty, SplitType
      <3>3. Start(n_layers, n, i + 1) = Start(n_layers, n, i) + Count(n_layers, n, i)
        BY <2>1, <3>1, SplitContiguous
      <3>4. Start(n_layers, n, i + 1) <= n_layers
        <4>1. Start(n_layers, n, i + 1) <= Start(n_layers, n, n)
          BY <2>1, <3>1, SplitMonotone
        <4> QED
          BY <4>1, <2>1, SplitEnds
      <3> QED
        BY <2>2, <3>2, <3>3, <3>4
    <2> QED
      BY <2>3, <2>4 DEF CoversExactly
  <1> QED
    BY <1>1, LoopInvariant, PTL

-----------------------------------------------------------------------------
(* The loops of generate and chat.                                         *)

Token == Nat \cup TextTokens
TurnRec == [prompt : Prompts, at : Nat, shown : Seq(Token)]

\* Where turn i ends, of the turns ts over the tokens f.
EndOf(ts, f, i) == IF i < Len(ts) THEN ts[i + 1].at ELSE Len(f)

\* Turn i starts with its prompt; a turn that is over ends with the first EOS of
\* its answer; and the answer was printed.
TurnOK(ts, f, i) ==
  LET t == ts[i]
      m == Len(t.prompt)
      e == EndOf(ts, f, i)
  IN /\ t.at <= e /\ e <= Len(f)
     /\ \A j \in 1 .. m : t.at + j <= e => f[t.at + j] = t.prompt[j]
     /\ i < Len(ts) => e > t.at + m /\ f[e] = EOS
     /\ \A j \in Nat : (t.at + m < j /\ j < e) => f[j] # EOS
     /\ \A j \in Nat : (t.at + m < j /\ j <= e /\ f[j] # EOS) =>
          j - (t.at + m) <= Len(t.shown) /\ t.shown[j - (t.at + m)] = f[j]

\* The last turn is under way: idx tokens of its prompt are fed, no EOS was, and
\* the token nx that comes next is printed.
Open(ts, f, idx, nx) ==
  LET t == ts[Len(ts)]
      m == Len(t.prompt)
      c == Len(f) - t.at
  IN /\ Len(ts) > 0
     /\ idx = IF c < m THEN c ELSE m
     /\ \A j \in Nat : (t.at + m < j /\ j <= Len(f)) => f[j] # EOS
     /\ c < m => Len(t.shown) = 0
     /\ (c >= m /\ nx # EOS) => Len(t.shown) = c - m + 1 /\ t.shown[c - m + 1] = nx

\* There is no turn yet, or the last one is over.
Closed(ts, f) ==
  \/ Len(ts) = 0 /\ Len(f) = 0
  \/ Len(ts) > 0 /\ Len(f) > ts[Len(ts)].at + Len(ts[Len(ts)].prompt) /\ f[Len(f)] = EOS

LoopType ==
  /\ mode \in {"generate", "chat"} /\ pc \in {"loop", "done"}
  /\ steps \in Nat /\ steps <= SEQ_LEN
  /\ fed \in Seq(Token) /\ Len(fed) <= steps
  /\ turns \in Seq(TurnRec)
  /\ user_idx \in Nat /\ user_turn \in BOOLEAN /\ next \in Token

ChatInv ==
  mode = "chat" =>
    /\ \A i \in 1 .. Len(turns) : TurnOK(turns, fed, i)
    /\ user_turn => Closed(turns, fed)
    /\ ~user_turn => Open(turns, fed, user_idx, next)

GenerateInv ==
  mode = "generate" =>
    /\ Len(turns) = 1 /\ turns[1].at = 0
    /\ \A j \in 1 .. Len(turns[1].prompt) : j <= Len(fed) => fed[j] = turns[1].prompt[j]
    /\ \A j \in 1 .. Len(fed) - 1 : j <= Len(turns[1].shown) /\ turns[1].shown[j] = fed[j + 1]
    /\ pc = "loop" =>
         /\ Len(turns[1].shown) = Len(fed)
         /\ Len(fed) > 0 => turns[1].shown[Len(fed)] = next
         /\ (Len(fed) > 0 /\ Len(fed) < Len(turns[1].prompt)) => next = turns[1].prompt[Len(fed) + 1]

LoopInv == LoopType /\ ChatInv /\ GenerateInv

LEMMA Prompt ==
  ASSUME NEW p \in Prompts
  PROVE  p \in Seq(Nat) /\ Len(p) \in Nat \ {0} /\ \A j \in 1 .. Len(p) : p[j] \in Nat /\ p[j] # EOS
  <1>1. p \in Seq(Nat \ {EOS}) /\ p # << >>
    BY PromptsAssumption
  <1>2. Len(p) \in Nat /\ Len(p) # 0 /\ \A j \in 1 .. Len(p) : p[j] \in Nat \ {EOS}
    BY <1>1
  <1>3. p \in [1 .. Len(p) -> Nat]
    BY <1>1, <1>2
  <1>4. p \in Seq(Nat)
    BY <1>2, <1>3
  <1> QED
    BY <1>2, <1>4

LEMMA FirstElement ==
  ASSUME NEW S, NEW s \in Seq(S), Len(s) = 1
  PROVE  s[1] \in S
  <1>1. 1 \in 1 .. Len(s) /\ \A i \in 1 .. Len(s) : s[i] \in S
    OBVIOUS
  <1> QED
    BY <1>1

LEMMA AppendLen ==
  ASSUME NEW S, NEW s \in Seq(S), NEW x
  PROVE  Len(Append(s, x)) = Len(s) + 1
  OBVIOUS

LEMMA Appended ==
  ASSUME NEW S, NEW s \in Seq(S), NEW x \in S
  PROVE  /\ Append(s, x) \in Seq(S) /\ Len(s) \in Nat /\ Len(Append(s, x)) = Len(s) + 1
         /\ Append(s, x)[Len(s) + 1] = x /\ \A j \in 1 .. Len(s) : Append(s, x)[j] = s[j]
  OBVIOUS

\* Showing a token changes what is shown of the last turn.
LEMMA ShowProps ==
  ASSUME NEW ts \in Seq(TurnRec), Len(ts) > 0, NEW x \in Token
  PROVE  /\ Show(ts, x) \in Seq(TurnRec) /\ Len(Show(ts, x)) = Len(ts)
         /\ \A i \in 1 .. Len(ts) : /\ Show(ts, x)[i].prompt = ts[i].prompt
                                    /\ Show(ts, x)[i].at = ts[i].at
                                    /\ i # Len(ts) => Show(ts, x)[i].shown = ts[i].shown
         /\ Show(ts, x)[Len(ts)].shown = Append(ts[Len(ts)].shown, x)
  <1>1. Len(ts) \in 1 .. Len(ts) /\ ts[Len(ts)] \in TurnRec
    OBVIOUS
  <1> DEFINE t == ts[Len(ts)]
             r == [t EXCEPT !.shown = Append(@, x)]
  <1>2. Show(ts, x) = [ts EXCEPT ![Len(ts)] = r]
    BY DEF Show
  <1>3. r \in TurnRec /\ r.prompt = t.prompt /\ r.at = t.at /\ r.shown = Append(t.shown, x)
    <2>1. t \in TurnRec /\ t.shown \in Seq(Token)
      BY <1>1 DEF TurnRec
    <2>2. PICK y \in Seq(Token) : y = Append(t.shown, x)
      BY <2>1, Appended, Zenon
    <2>3. r = [t EXCEPT !.shown = y]
      BY <2>2
    <2> HIDE DEF r, t
    <2>4. r \in TurnRec /\ r.prompt = t.prompt /\ r.at = t.at /\ r.shown = y
      BY <2>1, <2>3, Zenon DEF TurnRec
    <2> QED
      BY <2>2, <2>4
  <1> HIDE DEF r
  <1>4. Show(ts, x) \in Seq(TurnRec) /\ Len(Show(ts, x)) = Len(ts)
    BY <1>1, <1>2, <1>3
  <1>5. \A i \in 1 .. Len(ts) : Show(ts, x)[i] = IF i = Len(ts) THEN r ELSE ts[i]
    BY <1>1, <1>2, <1>3
  <1> QED
    BY <1>1, <1>3, <1>4, <1>5

\* One round of the chat in an open turn.
LEMMA FeedStep ==
  ASSUME NEW ts \in Seq(TurnRec), NEW f \in Seq(Token), NEW idx \in Nat, NEW nx \in Token, NEW ny \in Token,
         NEW tk, NEW idy, NEW us
  PROVE  /\ \A i \in 1 .. Len(ts) : TurnOK(ts, f, i)
         /\ Open(ts, f, idx, nx)
         /\ tk = IF idx < Len(ts[Len(ts)].prompt) THEN ts[Len(ts)].prompt[idx + 1] ELSE nx
         /\ idy = IF idx < Len(ts[Len(ts)].prompt) THEN idx + 1 ELSE idx
         /\ us = IF idy >= Len(ts[Len(ts)].prompt) /\ ny # EOS THEN Show(ts, ny) ELSE ts
         => /\ us \in Seq(TurnRec) /\ Append(f, tk) \in Seq(Token) /\ idy \in Nat
            /\ \A i \in 1 .. Len(us) : TurnOK(us, Append(f, tk), i)
            /\ tk = EOS => Closed(us, Append(f, tk))
            /\ tk # EOS => Open(us, Append(f, tk), idy, ny)
  <1>h. SUFFICES ASSUME \A i \in 1 .. Len(ts) : TurnOK(ts, f, i),
                        Open(ts, f, idx, nx),
                        tk = IF idx < Len(ts[Len(ts)].prompt) THEN ts[Len(ts)].prompt[idx + 1] ELSE nx,
                        idy = IF idx < Len(ts[Len(ts)].prompt) THEN idx + 1 ELSE idx,
                        us = IF idy >= Len(ts[Len(ts)].prompt) /\ ny # EOS THEN Show(ts, ny) ELSE ts
                 PROVE  /\ us \in Seq(TurnRec) /\ Append(f, tk) \in Seq(Token) /\ idy \in Nat
                        /\ \A i \in 1 .. Len(us) : TurnOK(us, Append(f, tk), i)
                        /\ tk = EOS => Closed(us, Append(f, tk))
                        /\ tk # EOS => Open(us, Append(f, tk), idy, ny)
    BY Zenon
  <1> DEFINE K == Len(ts)
             t == ts[K]
             m == Len(t.prompt)
             g == Append(f, tk)
             c == Len(f) - t.at
  <1>0. K \in Nat \ {0}
    BY <1>h DEF Open
  <1>1. K \in Nat \ {0} /\ t \in TurnRec /\ t.prompt \in Prompts /\ t.at \in Nat /\ t.shown \in Seq(Token)
    <2>1. t \in TurnRec
      BY <1>0
    <2> QED
      BY <1>0, <2>1 DEF TurnRec
  <1>2. m \in Nat \ {0} /\ \A j \in 1 .. m : t.prompt[j] \in Nat /\ t.prompt[j] # EOS
    BY <1>1, Prompt
  <1>3. c \in Nat /\ Len(f) \in Nat
    <2>1. TurnOK(ts, f, K)
      BY <1>h, <1>1
    <2> QED
      BY <1>1, <2>1 DEF TurnOK, EndOf
  <1>4. /\ idx = IF c < m THEN c ELSE m
        /\ \A j \in Nat : (t.at + m < j /\ j <= Len(f)) => f[j] # EOS
        /\ c < m => Len(t.shown) = 0
        /\ (c >= m /\ nx # EOS) => Len(t.shown) = c - m + 1 /\ t.shown[c - m + 1] = nx
    BY <1>h DEF Open
  <1>5. tk \in Token /\ idy \in Nat /\ idy = IF c + 1 < m THEN c + 1 ELSE m
    <2>1. tk = (IF idx < m THEN t.prompt[idx + 1] ELSE nx) /\ idy = IF idx < m THEN idx + 1 ELSE idx
      BY <1>h, Zenon
    <2>2. idx = IF c < m THEN c ELSE m
      BY <1>4, Zenon
    <2> HIDE DEF t, m, c
    <2>3. idy \in Nat /\ idy = IF c + 1 < m THEN c + 1 ELSE m
      BY <1>2, <1>3, <2>1, <2>2
    <2>4. idx < m => idx + 1 \in 1 .. m
      BY <1>2
    <2>5. tk \in Token
      BY <1>2, <2>1, <2>4 DEF Token
    <2> QED
      BY <2>3, <2>5
  <1>6. g \in Seq(Token) /\ Len(g) = Len(f) + 1 /\ g[Len(f) + 1] = tk /\ \A j \in 1 .. Len(f) : g[j] = f[j]
    BY <1>5
  <1>7. /\ us \in Seq(TurnRec) /\ Len(us) = K
        /\ \A i \in 1 .. K : us[i].prompt = ts[i].prompt /\ us[i].at = ts[i].at /\ (i # K => us[i].shown = ts[i].shown)
        /\ IF idy >= m /\ ny # EOS THEN us[K].shown = Append(t.shown, ny) ELSE us[K].shown = t.shown
    <2>1. CASE idy >= m /\ ny # EOS
      <3>1. us = Show(ts, ny) /\ Len(ts) > 0
        BY <1>h, <1>0, <2>1
      <3>2. /\ Show(ts, ny) \in Seq(TurnRec) /\ Len(Show(ts, ny)) = Len(ts)
            /\ \A i \in 1 .. Len(ts) : /\ Show(ts, ny)[i].prompt = ts[i].prompt
                                       /\ Show(ts, ny)[i].at = ts[i].at
                                       /\ i # Len(ts) => Show(ts, ny)[i].shown = ts[i].shown
            /\ Show(ts, ny)[Len(ts)].shown = Append(ts[Len(ts)].shown, ny)
        BY <3>1, ShowProps, Zenon
      <3> QED
        BY <2>1, <3>1, <3>2, Zenon
    <2>2. CASE ~(idy >= m /\ ny # EOS)
      <3>1. us = ts
        BY <1>h, <2>2
      <3> QED
        BY <2>2, <3>1
    <2> QED
      BY <2>1, <2>2
  <1> HIDE DEF g, c, m, t, K
  <1>8. us[K].prompt = t.prompt /\ us[K].at = t.at /\ us[K] \in TurnRec /\ us[K].shown \in Seq(Token)
    <2>1. K \in 1 .. K /\ t = ts[K]
      BY <1>1 DEF t
    <2>2. us[K] \in TurnRec
      BY <1>7, <1>1
    <2> QED
      BY <1>7, <2>1, <2>2, Zenon DEF TurnRec
  \* What is shown of the turn is kept.
  <1>9. /\ Len(us[K].shown) \in Nat /\ Len(t.shown) \in Nat /\ Len(t.shown) <= Len(us[K].shown)
        /\ \A j \in 1 .. Len(t.shown) : us[K].shown[j] = t.shown[j]
        /\ IF idy >= m /\ ny # EOS THEN Len(us[K].shown) = Len(t.shown) + 1 /\ us[K].shown[Len(t.shown) + 1] = ny
                                   ELSE us[K].shown = t.shown
    <2>1. CASE idy >= m /\ ny # EOS
      <3>1. us[K].shown = Append(t.shown, ny)
        BY <1>7, <2>1
      <3>2. PICK y : y = us[K].shown
        OBVIOUS
      <3>3. /\ Len(t.shown) \in Nat /\ Len(y) = Len(t.shown) + 1
            /\ y[Len(t.shown) + 1] = ny /\ \A j \in 1 .. Len(t.shown) : y[j] = t.shown[j]
        BY <1>1, <3>1, <3>2, Appended
      <3> QED
        BY <2>1, <3>2, <3>3
    <2>2. CASE ~(idy >= m /\ ny # EOS)
      <3>1. us[K].shown = t.shown /\ Len(t.shown) \in Nat
        BY <1>1, <1>7, <2>2
      <3> QED
        BY <2>2, <3>1
    <2> QED
      BY <2>1, <2>2
  <1>10. Len(f) = t.at + c
    BY <1>1, <1>3 DEF c
  <1>11. Len(us) = K /\ Len(ts) = K /\ ts[K] = t
    BY <1>7 DEF K, t
  <1>12. ASSUME NEW i \in 1 .. Len(us), i # K PROVE TurnOK(us, g, i)
    <2>1. i \in 1 .. K /\ i + 1 \in 1 .. K /\ i < K
      BY <1>1, <1>11, <1>12
    <2> DEFINE o == ts[i]
               e == ts[i + 1].at
    <2>2. o \in TurnRec /\ ts[i + 1] \in TurnRec
      BY <2>1, <1>11
    <2>3. o.prompt \in Prompts /\ o.at \in Nat /\ e \in Nat
      BY <2>2 DEF TurnRec
    <2>4. us[i].prompt = o.prompt /\ us[i].at = o.at /\ us[i].shown = o.shown /\ us[i + 1].at = e
      BY <1>7, <2>1
    <2>5. EndOf(us, g, i) = e /\ EndOf(ts, f, i) = e
      BY <1>11, <2>1, <2>4 DEF EndOf
    <2>6. Len(o.prompt) \in Nat
      BY <2>3, Prompt
    <2>7. TurnOK(ts, f, i)
      BY <1>h, <2>1, <1>11
    <2> HIDE DEF o, e
    <2>8. /\ o.at <= e /\ e <= Len(f)
          /\ \A j \in 1 .. Len(o.prompt) : o.at + j <= e => f[o.at + j] = o.prompt[j]
          /\ e > o.at + Len(o.prompt) /\ f[e] = EOS
          /\ \A j \in Nat : (o.at + Len(o.prompt) < j /\ j < e) => f[j] # EOS
          /\ \A j \in Nat : (o.at + Len(o.prompt) < j /\ j <= e /\ f[j] # EOS) =>
               j - (o.at + Len(o.prompt)) <= Len(o.shown) /\ o.shown[j - (o.at + Len(o.prompt))] = f[j]
      BY <2>5, <2>7, <2>1, <1>11 DEF TurnOK, o
    <2>9. /\ o.at <= e /\ e <= Len(g)
          /\ \A j \in 1 .. Len(o.prompt) : o.at + j <= e => g[o.at + j] = o.prompt[j]
          /\ e > o.at + Len(o.prompt) /\ g[e] = EOS
          /\ \A j \in Nat : (o.at + Len(o.prompt) < j /\ j < e) => g[j] # EOS
          /\ \A j \in Nat : (o.at + Len(o.prompt) < j /\ j <= e /\ g[j] # EOS) =>
               j - (o.at + Len(o.prompt)) <= Len(o.shown) /\ o.shown[j - (o.at + Len(o.prompt))] = g[j]
      <3>1. \A j \in Nat : (0 < j /\ j <= e) => g[j] = f[j]
        <4> SUFFICES ASSUME NEW j \in Nat, 0 < j, j <= e PROVE g[j] = f[j]
          OBVIOUS
        <4>1. j \in 1 .. Len(f)
          BY <1>3, <2>3, <2>8
        <4> QED
          BY <4>1, <1>6
      <3>2. o.at <= e /\ e <= Len(g)
        BY <1>3, <1>6, <2>3, <2>8
      <3>3. \A j \in 1 .. Len(o.prompt) : o.at + j <= e => g[o.at + j] = o.prompt[j]
        <4> SUFFICES ASSUME NEW j \in 1 .. Len(o.prompt), o.at + j <= e PROVE g[o.at + j] = o.prompt[j]
          OBVIOUS
        <4>1. o.at + j \in Nat /\ 0 < o.at + j
          BY <2>3, <2>6
        <4>2. g[o.at + j] = f[o.at + j]
          BY <4>1, <3>1
        <4> QED
          BY <4>2, <2>8
      <3>4. e > o.at + Len(o.prompt) /\ g[e] = EOS
        BY <2>3, <2>6, <2>8, <3>1
      <3>5. \A j \in Nat : (o.at + Len(o.prompt) < j /\ j <= e) => g[j] = f[j]
        BY <2>3, <2>6, <3>1
      <3>6. \A j \in Nat : j < e => j <= e
        BY <2>3
      <3> QED
        BY <2>8, <3>2, <3>3, <3>4, <3>5, <3>6, Zenon
    <2> QED
      BY <2>4, <2>5, <2>9, Zenon DEF TurnOK
  <1>13. TurnOK(us, g, K)
    <2>1. EndOf(us, g, K) = Len(f) + 1 /\ EndOf(ts, f, K) = Len(f)
      BY <1>1, <1>6, <1>11 DEF EndOf
    <2>2. TurnOK(ts, f, K)
      BY <1>h, <1>1, <1>11
    <2>3. /\ t.at <= Len(f)
          /\ \A j \in 1 .. m : t.at + j <= Len(f) => f[t.at + j] = t.prompt[j]
          /\ \A j \in Nat : (t.at + m < j /\ j <= Len(f) /\ f[j] # EOS) =>
               j - (t.at + m) <= Len(t.shown) /\ t.shown[j - (t.at + m)] = f[j]
      BY <2>1, <2>2, <1>11 DEF TurnOK, m
    <2>4. \A j \in 1 .. m : t.at + j <= Len(f) + 1 => g[t.at + j] = t.prompt[j]
      <3> SUFFICES ASSUME NEW j \in 1 .. m, t.at + j <= Len(f) + 1 PROVE g[t.at + j] = t.prompt[j]
        OBVIOUS
      <3>1. CASE t.at + j <= Len(f)
        <4>1. t.at + j \in 1 .. Len(f)
          BY <3>1, <1>1, <1>2, <1>3
        <4>2. g[t.at + j] = f[t.at + j]
          BY <4>1, <1>6
        <4> QED
          BY <3>1, <4>2, <2>3
      <3>2. CASE t.at + j = Len(f) + 1
        <4>1. j = c + 1 /\ c < m /\ idx = c
          BY <3>2, <1>1, <1>2, <1>3, <1>4, <1>10
        <4>2. tk = t.prompt[c + 1]
          BY <1>h, <4>1, <1>11 DEF m
        <4> QED
          BY <4>1, <4>2, <3>2, <1>6
      <3> QED
        BY <3>1, <3>2, <1>1, <1>3, SMTT(30)
    <2>5. \A j \in Nat : (t.at + m < j /\ j < Len(f) + 1) => g[j] # EOS
      <3> SUFFICES ASSUME NEW j \in Nat, t.at + m < j, j < Len(f) + 1 PROVE g[j] # EOS
        OBVIOUS
      <3>1. j \in 1 .. Len(f) /\ j <= Len(f)
        BY <1>1, <1>2, <1>3
      <3> QED
        BY <3>1, <1>4, <1>6
    <2>6. \A j \in Nat : (t.at + m < j /\ j <= Len(f) + 1 /\ g[j] # EOS) =>
            j - (t.at + m) <= Len(us[K].shown) /\ us[K].shown[j - (t.at + m)] = g[j]
      <3> SUFFICES ASSUME NEW j \in Nat, t.at + m < j, j <= Len(f) + 1, g[j] # EOS
                   PROVE  j - (t.at + m) <= Len(us[K].shown) /\ us[K].shown[j - (t.at + m)] = g[j]
        OBVIOUS
      <3>0. PICK d \in Nat : d = j - (t.at + m) /\ d > 0
        BY <1>1, <1>2
      <3>1. d <= Len(t.shown) /\ t.shown[d] = g[j]
        <4>1. CASE j <= Len(f)
          <5>1. g[j] = f[j]
            BY <4>1, <1>1, <1>2, <1>3, <1>6
          <5> QED
            BY <4>1, <5>1, <2>3, <3>0
        <4>2. CASE j = Len(f) + 1
          <5>1. c >= m /\ d = (c - m) + 1
            BY <4>2, <3>0, <1>1, <1>2, <1>3, <1>10, SMTT(30)
          <5>2. tk = nx /\ g[j] = nx
            BY <1>h, <4>2, <5>1, <1>2, <1>3, <1>4, <1>6, <1>11 DEF m
          <5> QED
            BY <5>1, <5>2, <1>4, <1>9
        <4> QED
          BY <4>1, <4>2, <1>3
      <3> QED
        BY <3>0, <3>1, <1>9
    <2> QED
      <3>1. us[K].at = t.at /\ us[K].prompt = t.prompt /\ Len(t.prompt) = m /\ ~(K < Len(us))
        BY <1>1, <1>8, <1>11 DEF m
      <3>2. t.at <= Len(f) + 1 /\ Len(f) + 1 <= Len(g)
        BY <1>1, <1>3, <1>6, <2>3
      <3> QED
        BY <2>1, <2>4, <2>5, <2>6, <3>1, <3>2, Zenon DEF TurnOK
  <1>14. tk = EOS => Closed(us, g)
    <2> SUFFICES ASSUME tk = EOS PROVE Closed(us, g)
      OBVIOUS
    <2>1. c >= m
      BY <1>h, <1>2, <1>3, <1>4, <1>11 DEF m
    <2>2. Len(g) > t.at + m /\ g[Len(g)] = EOS
      BY <2>1, <1>1, <1>2, <1>3, <1>6, <1>10
    <2> QED
      BY <2>2, <1>1, <1>8, <1>11 DEF Closed, m
  <1>15. tk # EOS => Open(us, g, idy, ny)
    <2> SUFFICES ASSUME tk # EOS PROVE Open(us, g, idy, ny)
      OBVIOUS
    <2> DEFINE c1 == Len(g) - t.at
    <2>1. c1 = c + 1
      BY <1>1, <1>3, <1>6, <1>10
    <2> HIDE DEF c1
    <2>2. idy = IF c1 < m THEN c1 ELSE m
      BY <2>1, <1>5
    <2>3. \A j \in Nat : (t.at + m < j /\ j <= Len(g)) => g[j] # EOS
      <3> SUFFICES ASSUME NEW j \in Nat, t.at + m < j, j <= Len(g) PROVE g[j] # EOS
        OBVIOUS
      <3>1. CASE j <= Len(f)
        <4>1. j \in 1 .. Len(f)
          BY <3>1, <1>1, <1>2, <1>3
        <4> QED
          BY <3>1, <4>1, <1>4, <1>6
      <3>2. CASE j = Len(f) + 1
        BY <3>2, <1>6
      <3> QED
        BY <3>1, <3>2, <1>3, <1>6
    <2>4. c1 < m => Len(us[K].shown) = 0
      BY <2>1, <2>2, <1>2, <1>3, <1>4, <1>9
    <2>5. (c1 >= m /\ ny # EOS) => Len(us[K].shown) = c1 - m + 1 /\ us[K].shown[c1 - m + 1] = ny
      <3> SUFFICES ASSUME c1 >= m, ny # EOS PROVE Len(us[K].shown) = (c1 - m) + 1 /\ us[K].shown[(c1 - m) + 1] = ny
        BY <2>1, <1>2, <1>3
      <3>1. Len(us[K].shown) = Len(t.shown) + 1 /\ us[K].shown[Len(t.shown) + 1] = ny
        BY <2>1, <2>2, <1>2, <1>3, <1>9
      <3>2. Len(t.shown) = c1 - m
        <4>1. CASE c < m
          <5>1. c1 - m = 0
            BY <4>1, <2>1, <1>2, <1>3
          <5> QED
            BY <4>1, <5>1, <1>4
        <4>2. CASE c >= m
          <5>1. tk = nx
            BY <1>h, <4>2, <1>2, <1>3, <1>4, <1>11 DEF m
          <5> QED
            BY <4>2, <5>1, <2>1, <1>2, <1>3, <1>4
        <4> QED
          BY <4>1, <4>2, <1>2, <1>3
      <3> QED
        BY <3>1, <3>2
    <2> QED
      BY <1>h, <2>2, <2>3, <2>4, <2>5, <1>1, <1>8, <1>11, Zenon DEF Open, m, c1
  <1> QED
    BY <1>5, <1>6, <1>7, <1>12, <1>13, <1>14, <1>15 DEF g

\* A new turn begins where the last one ended.
LEMMA OpenTurn ==
  ASSUME NEW ts \in Seq(TurnRec), NEW f \in Seq(Token), NEW nx \in Token, NEW p \in Prompts, NEW us
  PROVE  /\ \A i \in 1 .. Len(ts) : TurnOK(ts, f, i)
         /\ Closed(ts, f)
         /\ us = Append(ts, [prompt |-> p, at |-> Len(f), shown |-> << >>])
         => /\ us \in Seq(TurnRec)
            /\ \A i \in 1 .. Len(us) : TurnOK(us, f, i)
            /\ Open(us, f, 0, nx)
            /\ us[Len(us)].prompt = p
  <1>h. SUFFICES ASSUME \A i \in 1 .. Len(ts) : TurnOK(ts, f, i),
                        Closed(ts, f),
                        us = Append(ts, [prompt |-> p, at |-> Len(f), shown |-> << >>])
                 PROVE  /\ us \in Seq(TurnRec)
                        /\ \A i \in 1 .. Len(us) : TurnOK(us, f, i)
                        /\ Open(us, f, 0, nx)
                        /\ us[Len(us)].prompt = p
    BY Zenon
  <1>1. PICK new \in TurnRec : new.prompt = p /\ new.at = Len(f) /\ Len(new.shown) = 0 /\ us = Append(ts, new)
    <2>1. PICK empty : empty = << >>
      OBVIOUS
    <2>2. empty \in Seq(Token) /\ Len(empty) = 0
      BY <2>1
    <2>3. us = Append(ts, [prompt |-> p, at |-> Len(f), shown |-> empty])
      BY <1>h, <2>1
    <2>4. Len(f) \in Nat
      OBVIOUS
    <2>5. [prompt |-> p, at |-> Len(f), shown |-> empty] \in TurnRec
      BY <2>2, <2>4 DEF TurnRec
    <2> QED
      BY <2>2, <2>3, <2>5
  <1> DEFINE K == Len(ts)
  <1>2. /\ us \in Seq(TurnRec) /\ K \in Nat /\ Len(us) = K + 1 /\ Len(f) \in Nat
        /\ us[K + 1] = new /\ \A i \in 1 .. K : us[i] = ts[i]
    BY <1>1
  <1>3. Len(p) \in Nat \ {0}
    BY Prompt
  <1> HIDE DEF K
  <1>4. TurnOK(us, f, K + 1)
    <2>1. EndOf(us, f, K + 1) = Len(f)
      BY <1>2 DEF EndOf
    <2>2. \A j \in 1 .. Len(p) : ~(Len(f) + j <= Len(f))
      BY <1>2, <1>3
    <2>3. \A j \in Nat : ~(Len(f) + Len(p) < j /\ j <= Len(f)) /\ ~(Len(f) + Len(p) < j /\ j < Len(f))
      BY <1>2, <1>3
    <2>4. Len(f) <= Len(f) /\ ~(K + 1 < Len(us))
      BY <1>2
    <2>5. us[K + 1].prompt = p /\ us[K + 1].at = Len(f)
      BY <1>1, <1>2
    <2> QED
      BY <2>1, <2>2, <2>3, <2>4, <2>5, Zenon DEF TurnOK
  <1>5. ASSUME NEW i \in 1 .. K PROVE TurnOK(us, f, i)
    <2>1. TurnOK(ts, f, i) /\ us[i] = ts[i]
      BY <1>h, <1>2 DEF K
    <2>2. EndOf(us, f, i) = EndOf(ts, f, i)
      <3>1. CASE i < K
        <4>1. i + 1 \in 1 .. K /\ i < K + 1
          BY <1>2, <3>1
        <4> QED
          BY <3>1, <4>1, <1>2 DEF EndOf, K
      <3>2. CASE i = K
        BY <3>2, <1>1, <1>2 DEF EndOf, K
      <3> QED
        BY <3>1, <3>2, <1>2
    <2>3. EndOf(ts, f, i) > ts[i].at + Len(ts[i].prompt) /\ f[EndOf(ts, f, i)] = EOS
      <3>1. CASE i < K
        BY <2>1, <3>1, Zenon DEF TurnOK, K
      <3>2. CASE i = K
        <4>1. EndOf(ts, f, i) = Len(f) /\ ~(K = 0)
          BY <3>2, <1>2 DEF EndOf, K
        <4> QED
          BY <1>h, <3>2, <4>1 DEF Closed, K
      <3> QED
        BY <3>1, <3>2, <1>2
    <2> QED
      BY <2>1, <2>2, <2>3, Zenon DEF TurnOK
  <1>6. Open(us, f, 0, nx)
    <2>1. Len(f) - Len(f) = 0 /\ 0 < Len(p) /\ ~(0 >= Len(p))
      BY <1>2, <1>3
    <2>2. \A j \in Nat : ~(Len(f) + Len(p) < j /\ j <= Len(f))
      BY <1>2, <1>3
    <2>3. us[Len(us)] = new /\ Len(us) > 0
      BY <1>2
    <2> QED
      BY <1>1, <2>1, <2>2, <2>3, Zenon DEF Open
  <1> QED
    BY <1>1, <1>2, <1>4, <1>5, <1>6

LEMMA ChatStep ==
  ASSUME LoopInv, chat
  PROVE  LoopInv'
  <1>1. PICK p \in Prompts :
          LET ts == IF user_turn THEN Append(turns, [prompt |-> p, at |-> pos, shown |-> << >>]) ELSE turns
              prompt == ts[Len(ts)].prompt
              idx == IF user_turn THEN 0 ELSE user_idx
              token == IF idx < Len(prompt) THEN prompt[idx + 1] ELSE next
          IN /\ ~user_turn => p = prompt
             /\ user_idx' = IF idx < Len(prompt) THEN idx + 1 ELSE idx
             /\ user_turn' = (token = EOS)
             /\ fed' = Append(fed, token)
             /\ next' \in Sampled
             /\ turns' = IF user_idx' >= Len(prompt) /\ next' # EOS THEN Show(ts, next') ELSE ts
    BY Zenon DEF chat
  <1> DEFINE ts == IF user_turn THEN Append(turns, [prompt |-> p, at |-> pos, shown |-> << >>]) ELSE turns
             idx == IF user_turn THEN 0 ELSE user_idx
             token == IF idx < Len(ts[Len(ts)].prompt) THEN ts[Len(ts)].prompt[idx + 1] ELSE next
  <1>2. /\ user_idx' = IF idx < Len(ts[Len(ts)].prompt) THEN idx + 1 ELSE idx
        /\ user_turn' = (token = EOS)
        /\ fed' = Append(fed, token)
        /\ next' \in Sampled
        /\ turns' = IF user_idx' >= Len(ts[Len(ts)].prompt) /\ next' # EOS THEN Show(ts, next') ELSE ts
    BY <1>1, Zenon
  <1>3. /\ mode = "chat" /\ pc = "loop" /\ pos < steps /\ UNCHANGED <<mode, steps, pc>>
    BY DEF chat
  <1>4. LoopType /\ \A i \in 1 .. Len(turns) : TurnOK(turns, fed, i)
    BY <1>3 DEF LoopInv, ChatInv
  <1>5. next' \in Token /\ next \in Token /\ idx \in Nat
    BY <1>2, <1>4 DEF Sampled, Token, LoopType, BOS, EOS
  <1>6. ts \in Seq(TurnRec) /\ (\A i \in 1 .. Len(ts) : TurnOK(ts, fed, i)) /\ Open(ts, fed, idx, next)
    <2>1. CASE user_turn
      <3>1. Closed(turns, fed) /\ turns \in Seq(TurnRec) /\ fed \in Seq(Token)
        BY <1>3, <2>1 DEF LoopInv, LoopType, ChatInv
      <3>2. ts = Append(turns, [prompt |-> p, at |-> Len(fed), shown |-> << >>]) /\ idx = 0
        BY <2>1, Zenon DEF pos
      <3> HIDE DEF ts, idx
      <3> QED
        BY <1>4, <1>5, <3>1, <3>2, OpenTurn, ZenonT(30)
    <2>2. CASE ~user_turn
      <3>1. ts = turns /\ idx = user_idx
        BY <2>2, Zenon
      <3> HIDE DEF ts, idx
      <3> QED
        BY <3>1, <2>2, <1>3 DEF LoopInv, LoopType, ChatInv
    <2> QED
      BY <2>1, <2>2
  <1> HIDE DEF ts, idx
  <1>7. /\ turns' \in Seq(TurnRec) /\ fed' \in Seq(Token) /\ user_idx' \in Nat
        /\ \A i \in 1 .. Len(turns') : TurnOK(turns', fed', i)
        /\ token = EOS => Closed(turns', fed')
        /\ token # EOS => Open(turns', fed', user_idx', next')
    <2> HIDE DEF token
    <2>1. fed \in Seq(Token)
      BY <1>4 DEF LoopType
    <2> QED
      <3>1. token = IF idx < Len(ts[Len(ts)].prompt) THEN ts[Len(ts)].prompt[idx + 1] ELSE next
        BY DEF token
      <3>2. PICK ny \in Token : ny = next'
        BY <1>5
      <3>3. ASSUME NEW tk, tk = IF idx < Len(ts[Len(ts)].prompt) THEN ts[Len(ts)].prompt[idx + 1] ELSE next,
                   NEW idy, idy = IF idx < Len(ts[Len(ts)].prompt) THEN idx + 1 ELSE idx,
                   NEW us, us = IF idy >= Len(ts[Len(ts)].prompt) /\ ny # EOS THEN Show(ts, ny) ELSE ts
            PROVE  /\ us \in Seq(TurnRec) /\ Append(fed, tk) \in Seq(Token) /\ idy \in Nat
                   /\ \A i \in 1 .. Len(us) : TurnOK(us, Append(fed, tk), i)
                   /\ tk = EOS => Closed(us, Append(fed, tk))
                   /\ tk # EOS => Open(us, Append(fed, tk), idy, ny)
        BY <1>5, <1>6, <2>1, <3>3, FeedStep, SMTT(30)
      <3> QED
        BY <1>2, <3>1, <3>2, <3>3, Zenon
  <1>8. user_turn' \in BOOLEAN /\ (user_turn' => Closed(turns', fed')) /\ (~user_turn' => Open(turns', fed', user_idx', next'))
    <2> HIDE DEF token
    <2> QED
      BY <1>2, <1>7, Zenon
  <1>9. Len(fed') <= steps
    <2> HIDE DEF token
    <2>1. fed \in Seq(Token) /\ Len(fed) < steps /\ steps \in Nat
      BY <1>3, <1>4 DEF LoopType, pos
    <2>2. Len(fed') = Len(fed) + 1
      BY <1>2, <2>1, AppendLen, Zenon
    <2> QED
      BY <2>1, <2>2
  <1>10. LoopType'
    BY <1>3, <1>4, <1>5, <1>7, <1>8, <1>9, Zenon DEF LoopType
  <1>11. ChatInv'
    BY <1>7, <1>8, Zenon DEF ChatInv
  <1>12. GenerateInv'
    BY <1>3 DEF GenerateInv
  <1> QED
    BY <1>10, <1>11, <1>12 DEF LoopInv

\* One round of generate keeps the invariant.
LEMMA GenerateStep ==
  ASSUME LoopInv, generate
  PROVE  LoopInv'
  <1> DEFINE t == turns[1]
             prompt == t.prompt
             token == IF pos = 0 THEN prompt[1] ELSE next
  <1>1. /\ mode = "generate" /\ pc = "loop" /\ Len(fed) < steps
        /\ fed' = Append(fed, token)
        /\ next' \in IF Len(fed) < Len(prompt) - 1 THEN {prompt[Len(fed) + 2]} ELSE Sampled
        /\ IF next' = BOS THEN pc' = "done" /\ UNCHANGED turns
           ELSE turns' = Show(turns, next') /\ UNCHANGED pc
        /\ UNCHANGED <<mode, steps, user_idx, user_turn>>
    BY DEF generate, pos
  <1>2. /\ LoopType /\ Len(turns) = 1 /\ t.at = 0
        /\ \A j \in 1 .. Len(prompt) : j <= Len(fed) => fed[j] = prompt[j]
        /\ \A j \in 1 .. Len(fed) - 1 : j <= Len(t.shown) /\ t.shown[j] = fed[j + 1]
        /\ Len(t.shown) = Len(fed)
        /\ Len(fed) > 0 => t.shown[Len(fed)] = next
        /\ (Len(fed) > 0 /\ Len(fed) < Len(prompt)) => next = prompt[Len(fed) + 1]
    BY <1>1 DEF LoopInv, GenerateInv
  <1>3. t \in TurnRec /\ prompt \in Prompts /\ t.shown \in Seq(Token)
    <2>1. t \in TurnRec
      BY <1>2, FirstElement DEF LoopType
    <2> QED
      BY <2>1 DEF TurnRec
  <1>4. Len(prompt) \in Nat \ {0} /\ \A j \in 1 .. Len(prompt) : prompt[j] \in Nat
    BY <1>3, Prompt
  <1>5. fed \in Seq(Token) /\ Len(fed) \in Nat /\ steps \in Nat /\ next \in Token /\ turns \in Seq(TurnRec)
    BY <1>2 DEF LoopType
  <1>6. token \in Token
    BY <1>4, <1>5 DEF Token
  <1>7. (Len(fed) < Len(prompt) => token = prompt[Len(fed) + 1]) /\ (Len(fed) > 0 => token = next)
    BY <1>2, <1>4, <1>5 DEF pos
  <1>8. next' \in Token
    <2>1. CASE Len(fed) < Len(prompt) - 1
      <3>1. Len(fed) + 2 \in 1 .. Len(prompt)
        BY <2>1, <1>4, <1>5
      <3> QED
        BY <2>1, <3>1, <1>1, <1>4 DEF Token
    <2>2. CASE ~(Len(fed) < Len(prompt) - 1)
      BY <2>2, <1>1 DEF Token, Sampled, BOS, EOS
    <2> QED
      BY <2>1, <2>2
  <1> HIDE DEF token
  <1>9. /\ fed' \in Seq(Token) /\ Len(fed') = Len(fed) + 1 /\ fed'[Len(fed) + 1] = token
        /\ \A j \in 1 .. Len(fed) : fed'[j] = fed[j]
    <2>1. fed' = Append(fed, token) /\ fed \in Seq(Token)
      BY <1>1, <1>5
    <2> QED
      BY <2>1, <1>6, Appended
  <1>10. /\ turns' \in Seq(TurnRec) /\ Len(turns') = 1 /\ turns'[1].at = 0 /\ turns'[1].prompt = prompt
         /\ Len(t.shown) <= Len(turns'[1].shown) /\ \A j \in 1 .. Len(t.shown) : turns'[1].shown[j] = t.shown[j]
         /\ pc' = "loop" => Len(turns'[1].shown) = Len(t.shown) + 1 /\ turns'[1].shown[Len(t.shown) + 1] = next'
         /\ pc' \in {"loop", "done"}
    <2>1. CASE next' = BOS
      <3>1. turns' = turns /\ pc' = "done" /\ Len(t.shown) <= Len(t.shown)
        BY <1>1, <1>2, <1>5, <2>1
      <3> QED
        BY <3>1, <1>2, <1>5
    <2>2. CASE next' # BOS
      <3>1. turns' = Show(turns, next') /\ pc' = "loop" /\ Len(turns) > 0
        BY <1>1, <1>2, <2>2
      <3>2. /\ turns' \in Seq(TurnRec) /\ Len(turns') = 1
            /\ turns'[1].prompt = prompt /\ turns'[1].at = t.at
            /\ turns'[1].shown = Append(t.shown, next')
        <4>1. /\ Show(turns, next') \in Seq(TurnRec) /\ Len(Show(turns, next')) = Len(turns)
              /\ \A i \in 1 .. Len(turns) : /\ Show(turns, next')[i].prompt = turns[i].prompt
                                            /\ Show(turns, next')[i].at = turns[i].at
              /\ Show(turns, next')[Len(turns)].shown = Append(turns[Len(turns)].shown, next')
          BY <3>1, <1>5, <1>8, ShowProps, SMTT(30)
        <4>2. 1 \in 1 .. Len(turns)
          BY <1>2
        <4> QED
          BY <3>1, <4>1, <4>2, <1>2, Zenon
      <3>3. PICK y : y = turns'[1].shown
        OBVIOUS
      <3>4. /\ Len(y) = Len(t.shown) + 1 /\ Len(t.shown) \in Nat /\ y[Len(t.shown) + 1] = next'
            /\ \A j \in 1 .. Len(t.shown) : y[j] = t.shown[j]
        BY <3>2, <3>3, <1>3, <1>8, Appended
      <3>5. Len(t.shown) <= Len(y)
        BY <3>4
      <3> QED
        BY <3>1, <3>2, <3>3, <3>4, <3>5, <1>2
    <2> QED
      BY <2>1, <2>2
  <1>11. LoopType'
    BY <1>1, <1>2, <1>5, <1>8, <1>9, <1>10 DEF LoopType
  <1>12. GenerateInv'
    <2>1. \A j \in 1 .. Len(prompt) : j <= Len(fed') => fed'[j] = prompt[j]
      <3> SUFFICES ASSUME NEW j \in 1 .. Len(prompt), j <= Len(fed') PROVE fed'[j] = prompt[j]
        OBVIOUS
      <3>1. CASE j <= Len(fed)
        <4>1. j \in 1 .. Len(fed)
          BY <3>1, <1>4, <1>5
        <4> QED
          BY <3>1, <4>1, <1>2, <1>9
      <3>2. CASE j = Len(fed) + 1
        <4>1. Len(fed) < Len(prompt)
          BY <3>2, <1>4, <1>5
        <4> QED
          BY <3>2, <4>1, <1>7, <1>9
      <3> QED
        BY <3>1, <3>2, <1>4, <1>5, <1>9
    <2>2. \A j \in 1 .. Len(fed') - 1 : j <= Len(turns'[1].shown) /\ turns'[1].shown[j] = fed'[j + 1]
      <3> SUFFICES ASSUME NEW j \in 1 .. Len(fed') - 1 PROVE j <= Len(turns'[1].shown) /\ turns'[1].shown[j] = fed'[j + 1]
        OBVIOUS
      <3>1. j \in 1 .. Len(fed) /\ j <= Len(t.shown) /\ j \in 1 .. Len(t.shown)
        BY <1>2, <1>5, <1>9
      <3>2. turns'[1].shown[j] = t.shown[j] /\ j <= Len(turns'[1].shown)
        <4>1. Len(turns'[1].shown) \in Nat
          <5>1. turns'[1] \in TurnRec
            BY <1>10, FirstElement
          <5>2. turns'[1].shown \in Seq(Token)
            BY <5>1 DEF TurnRec
          <5> QED
            BY <5>2
        <4> QED
          BY <4>1, <3>1, <1>2, <1>5, <1>10
      <3>3. t.shown[j] = fed'[j + 1]
        <4>1. CASE j < Len(fed)
          <5>1. j \in 1 .. Len(fed) - 1 /\ j + 1 \in 1 .. Len(fed)
            BY <4>1, <3>1, <1>5
          <5> QED
            BY <5>1, <1>2, <1>9
        <4>2. CASE j = Len(fed)
          BY <4>2, <3>1, <1>2, <1>5, <1>7, <1>9
        <4> QED
          BY <4>1, <4>2, <3>1, <1>5
      <3> QED
        BY <3>2, <3>3
    <2>3. pc' = "loop" => Len(turns'[1].shown) = Len(fed') /\ turns'[1].shown[Len(fed')] = next'
      BY <1>2, <1>9, <1>10
    <2>4. Len(fed') < Len(prompt) => next' = prompt[Len(fed') + 1]
      <3> SUFFICES ASSUME Len(fed') < Len(prompt) PROVE next' = prompt[Len(fed') + 1]
        OBVIOUS
      <3>1. Len(fed) < Len(prompt) - 1 /\ Len(fed') + 1 = Len(fed) + 2
        BY <1>4, <1>5, <1>9
      <3> QED
        BY <3>1, <1>1
    <2> QED
      BY <1>10, <2>1, <2>2, <2>3, <2>4 DEF GenerateInv
  <1>13. ChatInv'
    BY <1>1 DEF ChatInv
  <1> QED
    BY <1>11, <1>12, <1>13 DEF LoopInv

LEMMA LoopStep == LoopInv /\ [LoopNext]_loopVars => LoopInv'
  <1> SUFFICES ASSUME LoopInv, [LoopNext]_loopVars PROVE LoopInv'
    OBVIOUS
  <1>1. CASE generate
    BY <1>1, GenerateStep
  <1>2. CASE chat
    BY <1>2, ChatStep
  <1>3. CASE Stop
    BY <1>3 DEF Stop, LoopInv, LoopType, ChatInv, GenerateInv
  <1>4. CASE UNCHANGED loopVars
    BY <1>4 DEF loopVars, LoopInv, LoopType, ChatInv, GenerateInv
  <1> QED
    BY <1>1, <1>2, <1>3, <1>4 DEF LoopNext

LEMMA LoopInitInv == LoopInit => LoopInv
  <1> SUFFICES ASSUME LoopInit PROVE LoopInv
    OBVIOUS
  <1>1. steps \in Nat /\ steps <= SEQ_LEN
    BY StepsAssumption DEF LoopInit, Steps, argparse
  <1>2. fed \in Seq(Token) /\ Len(fed) = 0
    BY DEF LoopInit
  <1>3. mode \in {"generate", "chat"} /\ pc = "loop" /\ user_idx = 0 /\ user_turn = TRUE /\ next = 0
    BY DEF LoopInit
  <1>4. CASE mode = "chat"
    <2>1. turns \in Seq(TurnRec) /\ Len(turns) = 0
      BY <1>4 DEF LoopInit
    <2> QED
      BY <1>1, <1>2, <1>3, <1>4, <2>1 DEF LoopInv, LoopType, ChatInv, GenerateInv, Closed, Token
  <1>5. CASE mode = "generate"
    <2>1. PICK p \in Prompts : turns = <<[prompt |-> p, at |-> 0, shown |-> << >>]>>
      BY <1>5 DEF LoopInit
    <2>2. PICK empty : empty = << >>
      OBVIOUS
    <2>3. empty \in Seq(Token) /\ Len(empty) = 0
      BY <2>2
    <2>4. PICK new : new = [prompt |-> p, at |-> 0, shown |-> empty]
      BY Zenon
    <2>5. new \in TurnRec /\ new.prompt = p /\ new.at = 0 /\ Len(new.shown) = 0
      BY <2>3, <2>4 DEF TurnRec
    <2>6. turns = <<new>>
      BY <2>1, <2>2, <2>4, Zenon
    <2>7. turns \in Seq(TurnRec) /\ Len(turns) = 1 /\ turns[1] = new
      BY <2>5, <2>6
    <2>8. Len(p) \in Nat \ {0}
      BY Prompt
    <2>9. LoopType
      BY <1>1, <1>2, <1>3, <2>7 DEF LoopType, Token
    <2>10. GenerateInv
      BY <1>2, <1>3, <2>5, <2>7, <2>8 DEF GenerateInv
    <2>11. ChatInv
      BY <1>5 DEF ChatInv
    <2> QED
      BY <2>9, <2>10, <2>11 DEF LoopInv
  <1> QED
    BY <1>3, <1>4, <1>5
LEMMA SubSeqAt ==
  ASSUME NEW S, NEW s \in Seq(S), NEW x \in Nat, NEW y \in Nat, x <= y, y <= Len(s)
  PROVE  /\ SubSeq(s, x + 1, y) \in Seq(S) /\ Len(SubSeq(s, x + 1, y)) = y - x
         /\ \A j \in 1 .. y - x : SubSeq(s, x + 1, y)[j] = s[x + j]
  OBVIOUS

LEMMA SameSequence ==
  ASSUME NEW S, NEW s \in Seq(S), NEW t \in Seq(S), Len(s) = Len(t), \A j \in 1 .. Len(s) : s[j] = t[j]
  PROVE  s = t
  OBVIOUS

LEMMA PrefixBy ==
  ASSUME NEW S, NEW s \in Seq(S), NEW t \in Seq(S), Len(s) <= Len(t), \A j \in 1 .. Len(s) : s[j] = t[j]
  PROVE  Begins(s, t)
  <1>1. Len(s) \in Nat /\ Len(t) \in Nat /\ 0 <= Len(s)
    OBVIOUS
  <1> DEFINE v == SubSeq(t, 0 + 1, Len(s))
  <1>3. v \in Seq(S) /\ Len(v) = Len(s) /\ \A j \in 1 .. Len(s) : v[j] = t[j]
    OBVIOUS
  <1>4. v = s
    <2> HIDE DEF v
    <2> QED
      BY <1>3, SameSequence
  <1> QED
    BY <1>4 DEF Begins

LEMMA TailAt ==
  ASSUME NEW S, NEW s \in Seq(S), s # << >>
  PROVE  /\ Tail(s) \in Seq(S) /\ Len(Tail(s)) = Len(s) - 1
         /\ \A j \in 1 .. Len(s) - 1 : Tail(s)[j] = s[j + 1]
  OBVIOUS

LEMMA EmptyByLen ==
  ASSUME NEW S, NEW s \in Seq(S)
  PROVE  s = << >> <=> Len(s) = 0
  OBVIOUS

\* The tokens of a turn and of its answer, by position.
LEMMA TurnAt ==
  ASSUME LoopType, NEW i \in 1 .. Len(turns),
         turns[i].at <= EndOf(turns, fed, i), EndOf(turns, fed, i) <= Len(fed), EndOf(turns, fed, i) \in Nat
  PROVE  LET o == turns[i]
             m == Len(o.prompt)
             e == EndOf(turns, fed, i)
         IN /\ o.at \in Nat /\ m \in Nat \ {0} /\ o.prompt \in Seq(Token) /\ o.shown \in Seq(Token)
            /\ Turn(i) \in Seq(Token) /\ Len(Turn(i)) = e - o.at
            /\ \A j \in 1 .. e - o.at : Turn(i)[j] = fed[o.at + j]
            /\ Answer(i) \in Seq(Token)
            /\ e <= o.at + m => Len(Answer(i)) = 0
            /\ ~(e <= o.at + m) => Len(Answer(i)) = e - (o.at + m)
            /\ \A j \in 1 .. Len(Answer(i)) : Answer(i)[j] = fed[o.at + m + j]
  <1> DEFINE o == turns[i]
             m == Len(o.prompt)
             e == EndOf(turns, fed, i)
  <1>0. o.at <= e /\ e <= Len(fed) /\ e \in Nat
    OBVIOUS
  <1>1. turns \in Seq(TurnRec) /\ fed \in Seq(Token)
    BY DEF LoopType
  <1>2. o \in TurnRec
    BY <1>1
  <1>3. o.prompt \in Prompts /\ o.at \in Nat /\ o.shown \in Seq(Token)
    BY <1>2 DEF TurnRec
  <1>4. m \in Nat \ {0} /\ o.prompt \in Seq(Nat) /\ Nat \subseteq Token
    BY <1>3, Prompt DEF Token, m
  <1> HIDE DEF e
  <1>5. o.prompt \in Seq(Token)
    BY <1>4
  <1> DEFINE u == Turn(i)
             v == Answer(i)
  <1>6. u = SubSeq(fed, o.at + 1, e)
    BY Zenon DEF Turn, EndOf, e
  <1> HIDE DEF o, m
  <1>7. u \in Seq(Token) /\ Len(u) = e - o.at /\ \A j \in 1 .. e - o.at : u[j] = fed[o.at + j]
    <2>1. fed \in Seq(Token) /\ o.at \in Nat /\ e \in Nat /\ o.at <= e /\ e <= Len(fed)
      BY <1>0, <1>1, <1>3
    <2> HIDE DEF u
    <2> QED
      BY <1>6, <2>1, SubSeqAt, SMTT(30)
  <1> HIDE DEF u
  <1>8. v = IF Len(u) <= m THEN << >> ELSE SubSeq(u, m + 1, Len(u))
    BY Zenon DEF Answer, u, m, o
  <1> HIDE DEF v
  <1>9. CASE e <= o.at + m
    <2>1. Len(u) <= m
      BY <1>0, <1>3, <1>4, <1>7, <1>9
    <2>2. v = << >>
      BY <1>8, <2>1
    <2>3. v \in Seq(Token) /\ Len(v) = 0
      BY <2>2
    <2>4. \A j \in 1 .. Len(v) : v[j] = fed[o.at + m + j]
      BY <2>3
    <2> QED
      BY <1>3, <1>4, <1>5, <1>7, <1>9, <2>3, <2>4, Zenon DEF u, v, o, m, e
  <1>10. CASE ~(e <= o.at + m)
    <2>1. ~(Len(u) <= m) /\ m <= Len(u) /\ Len(u) \in Nat /\ Len(u) - m = e - (o.at + m)
      BY <1>0, <1>3, <1>4, <1>7, <1>10, SMTT(30)
    <2>2. v = SubSeq(u, m + 1, Len(u))
      BY <1>8, <2>1, Zenon
    <2>3. v \in Seq(Token) /\ Len(v) = Len(u) - m /\ \A j \in 1 .. Len(u) - m : v[j] = u[m + j]
      BY <1>4, <1>7, <2>1, <2>2, SubSeqAt, SMTT(30)
    <2>4. ASSUME NEW j \in 1 .. Len(v) PROVE v[j] = fed[o.at + m + j]
      <3>1. m + j \in 1 .. e - o.at /\ j \in 1 .. Len(u) - m
        <4>1. /\ Len(v) \in Nat /\ Len(u) \in Nat
              /\ Len(v) = Len(u) - m /\ Len(u) = e - o.at
          <5>1. Len(v) \in Nat
            BY <2>3, SMTT(30)
          <5> QED
            BY <5>1, <1>7, <2>1, <2>3, Zenon
        <4>2. o.at \in Nat /\ m \in Nat /\ e \in Nat
          BY <1>0, <1>3, <1>4, Zenon
        <4> HIDE DEF o
        <4> QED
          BY <4>1, <4>2, SMTT(30)
      <3>2. o.at + (m + j) = o.at + m + j
        BY <3>1, <1>3, <1>4, SMTT(30)
      <3> QED
        BY <3>1, <3>2, <2>3, <1>7
    <2> QED
      <3>1. ~(e <= o.at + m) => Len(v) = e - (o.at + m)
        BY <2>1, <2>3
      <3> QED
        BY <1>3, <1>4, <1>5, <1>7, <1>10, <2>3, <2>4, <3>1, Zenon DEF u, v, o, m, e
  <1> QED
    BY <1>9, <1>10, Zenon

\* A turn that starts with its prompt, as far as it goes.
LEMMA PromptFirst ==
  ASSUME LoopType, NEW i \in 1 .. Len(turns),
         turns[i].at <= EndOf(turns, fed, i), EndOf(turns, fed, i) <= Len(fed), EndOf(turns, fed, i) \in Nat,
         \A j \in 1 .. Len(turns[i].prompt) :
           turns[i].at + j <= EndOf(turns, fed, i) => fed[turns[i].at + j] = turns[i].prompt[j]
  PROVE  Begins(Turn(i), turns[i].prompt) \/ Begins(turns[i].prompt, Turn(i))
  <1> DEFINE o == turns[i]
             m == Len(o.prompt)
             e == EndOf(turns, fed, i)
             u == Turn(i)
  <1>0. e \in Nat /\ \A j \in 1 .. m : o.at + j <= e => fed[o.at + j] = o.prompt[j]
    BY Zenon
  <1>1. /\ o.at \in Nat /\ m \in Nat \ {0} /\ o.prompt \in Seq(Token)
        /\ Turn(i) \in Seq(Token) /\ Len(Turn(i)) = e - o.at
        /\ \A j \in 1 .. e - o.at : Turn(i)[j] = fed[o.at + j]
    BY TurnAt, Zenon
  <1> HIDE DEF o, m, e, u
  <1>2. ASSUME NEW j \in 1 .. m, j <= e - o.at PROVE u[j] = o.prompt[j]
    <2>1. j \in 1 .. e - o.at /\ o.at + j <= e
      BY <1>0, <1>1, <1>2, SMTT(30)
    <2> QED
      BY <1>0, <1>1, <2>1 DEF u
  <1>3. CASE Len(u) <= m
    <2>1. \A j \in 1 .. Len(u) : u[j] = o.prompt[j]
      BY <1>1, <1>2, <1>3, <1>0, SMTT(30) DEF u
    <2> QED
      BY <1>1, <1>3, <2>1, PrefixBy, Zenon DEF o, m, u
  <1>4. CASE m <= Len(u)
    <2>1. \A j \in 1 .. m : o.prompt[j] = u[j]
      BY <1>1, <1>2, <1>4, <1>0, SMTT(30) DEF u
    <2> QED
      BY <1>1, <1>4, <2>1, PrefixBy, Zenon DEF o, m, u
  <1> QED
    BY <1>0, <1>1, <1>3, <1>4, SMTT(30) DEF u

LEMMA ChatKept ==
  ASSUME LoopInv, mode = "chat", NEW i \in 1 .. Len(turns)
  PROVE  /\ Begins(Turn(i), turns[i].prompt) \/ Begins(turns[i].prompt, Turn(i))
         /\ i < Len(turns) => Ended(Answer(i))
         /\ \A j \in 1 .. Len(Answer(i)) - 1 : Answer(i)[j] # EOS
         /\ Begins(IF Ended(Answer(i)) THEN SubSeq(Answer(i), 1, Len(Answer(i)) - 1) ELSE Answer(i), turns[i].shown)
  <1> DEFINE o == turns[i]
             m == Len(o.prompt)
             e == EndOf(turns, fed, i)
             v == Answer(i)
  <1>1. TurnOK(turns, fed, i) /\ LoopType
    BY DEF LoopInv, ChatInv
  <1>2. e \in Nat
    <2>1. turns \in Seq(TurnRec) /\ fed \in Seq(Token)
      BY <1>1 DEF LoopType
    <2>2. CASE i < Len(turns)
      <3>1. i + 1 \in 1 .. Len(turns)
        BY <2>1, <2>2
      <3>2. turns[i + 1] \in TurnRec
        BY <2>1, <3>1
      <3> QED
        BY <2>2, <3>2 DEF EndOf, TurnRec
    <2>3. CASE ~(i < Len(turns))
      BY <2>1, <2>3 DEF EndOf
    <2> QED
      BY <2>2, <2>3
  <1> HIDE DEF e
  <1>3. /\ o.at <= e /\ e <= Len(fed)
        /\ \A j \in 1 .. m : o.at + j <= e => fed[o.at + j] = o.prompt[j]
        /\ i < Len(turns) => e > o.at + m /\ fed[e] = EOS
        /\ \A j \in Nat : (o.at + m < j /\ j < e) => fed[j] # EOS
        /\ \A j \in Nat : (o.at + m < j /\ j <= e /\ fed[j] # EOS) =>
             j - (o.at + m) <= Len(o.shown) /\ o.shown[j - (o.at + m)] = fed[j]
    BY <1>1, Zenon DEF TurnOK, e
  <1> HIDE DEF o, m
  <1>4. /\ o.at \in Nat /\ m \in Nat \ {0} /\ o.shown \in Seq(Token)
        /\ v \in Seq(Token)
        /\ e <= o.at + m => Len(v) = 0
        /\ ~(e <= o.at + m) => Len(v) = e - (o.at + m)
        /\ \A j \in 1 .. Len(v) : v[j] = fed[o.at + m + j]
    BY <1>1, <1>2, <1>3, TurnAt, Zenon DEF o, m, e
  <1>5. Begins(Turn(i), o.prompt) \/ Begins(o.prompt, Turn(i))
    BY <1>1, <1>2, <1>3, PromptFirst, Zenon DEF o, m, e
  <1> HIDE DEF v
  <1>6. Len(v) \in Nat /\ Len(o.shown) \in Nat
    BY <1>4
  <1>7. i < Len(turns) => v # << >> /\ v[Len(v)] = EOS
    <2> SUFFICES ASSUME i < Len(turns) PROVE v # << >> /\ v[Len(v)] = EOS
      BY SMTT(30)
    <2>1. Len(v) \in 1 .. Len(v) /\ o.at + m + Len(v) = e /\ Len(v) # 0
      BY <1>2, <1>3, <1>4, SMTT(30)
    <2>2. v[Len(v)] = fed[e]
      BY <2>1, <1>4, Zenon
    <2> QED
      BY <2>1, <2>2, <1>3, <1>4, EmptyByLen
  <1>8. ASSUME NEW j \in 1 .. Len(v), j < Len(v) \/ v[j] # EOS
        PROVE  v[j] # EOS /\ j <= Len(o.shown) /\ o.shown[j] = v[j]
    <2>1. PICK x \in Nat : x = o.at + m + j /\ o.at + m < x /\ x <= e /\ x - (o.at + m) = j /\ (j < Len(v) => x < e)
      <3>1. PICK lv \in Nat : lv = Len(v) /\ (e <= o.at + m => lv = 0) /\ (~(e <= o.at + m) => lv = e - (o.at + m))
        BY <1>4, <1>6
      <3>2. j <= lv /\ j \in Nat \ {0} /\ (j < Len(v) => j < lv)
        BY <3>1
      <3>3. PICK y \in Nat : y = o.at + m
        BY <1>4
      <3>4. ~(e <= y) /\ j <= e - y /\ (j < Len(v) => j < e - y) /\ y + j \in Nat
        BY <1>2, <3>1, <3>2, <3>3
      <3>5. y < y + j /\ y + j <= e /\ (y + j) - y = j /\ (j < Len(v) => y + j < e)
        BY <1>2, <3>2, <3>3, <3>4, SMTT(30)
      <3> QED
        BY <3>3, <3>4, <3>5
    <2>2. v[j] = fed[x]
      BY <2>1, <1>4
    <2>3. fed[x] # EOS
      BY <1>3, <1>8, <2>1, <2>2
    <2> QED
      BY <1>3, <2>1, <2>2, <2>3
  <1>9. \A j \in 1 .. Len(v) - 1 : v[j] # EOS
    BY <1>6, <1>8
  <1>10. CASE v # << >> /\ v[Len(v)] = EOS
    <2>1. Len(v) > 0 /\ Len(v) - 1 \in Nat
      BY <1>4, <1>6, <1>10, EmptyByLen
    <2> DEFINE w == SubSeq(v, 0 + 1, Len(v) - 1)
    <2>2. w \in Seq(Token) /\ Len(w) = Len(v) - 1 /\ \A j \in 1 .. Len(v) - 1 : w[j] = v[j]
      <3>1. v \in Seq(Token) /\ 0 <= Len(v) - 1 /\ Len(v) - 1 <= Len(v) /\ 0 \in Nat
        BY <1>4, <1>6, <2>1
      <3>2. /\ w \in Seq(Token) /\ Len(w) = (Len(v) - 1) - 0
            /\ \A j \in 1 .. (Len(v) - 1) - 0 : w[j] = v[0 + j]
        BY <2>1, <3>1, SubSeqAt, Zenon
      <3> HIDE DEF w
      <3> QED
        BY <1>6, <3>2
    <2>3. SubSeq(v, 1, Len(v) - 1) = w
      OBVIOUS
    <2> HIDE DEF w
    <2>4. \A j \in 1 .. Len(w) : j <= Len(o.shown) /\ w[j] = o.shown[j]
      BY <1>6, <1>8, <2>1, <2>2
    <2>5. Len(w) <= Len(o.shown)
      <3>1. Len(w) \in Nat /\ Len(o.shown) \in Nat
        BY <1>6, <2>1, <2>2
      <3>2. Len(w) # 0 => Len(w) \in 1 .. Len(w)
        BY <3>1
      <3>3. Len(w) # 0 => Len(w) <= Len(o.shown)
        BY <3>2, <2>4, Zenon
      <3> QED
        BY <3>1, <3>3
    <2>6. Begins(SubSeq(v, 1, Len(v) - 1), o.shown)
      BY <1>4, <2>2, <2>3, <2>4, <2>5, PrefixBy, Zenon
    <2> QED
      BY <1>5, <1>7, <1>9, <1>10, <2>6, Zenon DEF Ended, o, v
  <1>11. CASE ~(v # << >> /\ v[Len(v)] = EOS)
    <2>1. \A j \in 1 .. Len(v) : j <= Len(o.shown) /\ v[j] = o.shown[j]
      <3> SUFFICES ASSUME NEW j \in 1 .. Len(v) PROVE j <= Len(o.shown) /\ v[j] = o.shown[j]
        OBVIOUS
      <3>1. Len(v) # 0
        BY <1>6
      <3>2. v[Len(v)] # EOS
        BY <3>1, <1>4, <1>11, EmptyByLen
      <3>3. j < Len(v) \/ v[j] # EOS
        BY <3>2, <1>6
      <3> QED
        BY <3>3, <1>8
    <2>2. Len(v) <= Len(o.shown)
      BY <1>6, <2>1
    <2>3. Begins(v, o.shown)
      BY <1>4, <2>1, <2>2, PrefixBy
    <2> QED
      BY <1>5, <1>7, <1>9, <1>11, <2>3, Zenon DEF Ended, o, v
  <1> QED
    BY <1>10, <1>11

LEMMA GenerateKept ==
  ASSUME LoopInv, mode = "generate"
  PROVE  /\ Begins(Turn(1), turns[1].prompt) \/ Begins(turns[1].prompt, Turn(1))
         /\ Begins(IF Turn(1) = << >> THEN << >> ELSE Tail(Turn(1)), turns[1].shown)
  <1> DEFINE o == turns[1]
             m == Len(o.prompt)
             e == EndOf(turns, fed, 1)
             u == Turn(1)
  <1>1. /\ LoopType /\ Len(turns) = 1 /\ o.at = 0
        /\ \A j \in 1 .. m : j <= Len(fed) => fed[j] = o.prompt[j]
        /\ \A j \in 1 .. Len(fed) - 1 : j <= Len(o.shown) /\ o.shown[j] = fed[j + 1]
    BY DEF LoopInv, GenerateInv
  <1>2. e = Len(fed) /\ Len(fed) \in Nat /\ 1 \in 1 .. Len(turns) /\ o.at <= e /\ e <= Len(fed) /\ e \in Nat
    BY <1>1 DEF EndOf, LoopType
  <1> HIDE DEF e, o, m
  <1>3. /\ m \in Nat \ {0} /\ o.shown \in Seq(Token)
        /\ u \in Seq(Token) /\ Len(u) = e - o.at
        /\ \A j \in 1 .. e - o.at : u[j] = fed[o.at + j]
    BY <1>1, <1>2, TurnAt, Zenon DEF o, m, e
  <1>4. \A j \in 1 .. m : o.at + j <= e => fed[o.at + j] = o.prompt[j]
    BY <1>1, <1>2, <1>3
  <1>5. Begins(Turn(1), o.prompt) \/ Begins(o.prompt, Turn(1))
    BY <1>1, <1>2, <1>4, PromptFirst, Zenon DEF o, m, e
  <1> HIDE DEF u
  <1>6. Len(u) = Len(fed) /\ Len(o.shown) \in Nat /\ \A j \in 1 .. Len(fed) : u[j] = fed[j]
    BY <1>1, <1>2, <1>3
  <1>7. CASE u = << >>
    <2>1. PICK w \in Seq(Token) : w = << >> /\ Len(w) = 0
      BY <1>3, <1>7, Zenon
    <2>2. Begins(w, o.shown)
      <3>1. Len(w) <= Len(o.shown) /\ \A j \in 1 .. Len(w) : w[j] = o.shown[j]
        BY <1>6, <2>1
      <3> QED
        BY <1>3, <3>1, PrefixBy
    <2> QED
      BY <1>5, <1>7, <2>1, <2>2, Zenon DEF o, u
  <1>8. CASE u # << >>
    <2>0. /\ Tail(u) \in Seq(Token) /\ Len(Tail(u)) = Len(u) - 1
          /\ \A j \in 1 .. Len(u) - 1 : Tail(u)[j] = u[j + 1]
      BY <1>3, <1>8, TailAt
    <2>1. PICK w \in Seq(Token) : w = Tail(u) /\ Len(w) = Len(u) - 1 /\ \A j \in 1 .. Len(u) - 1 : w[j] = u[j + 1]
      BY <2>0, Zenon
    <2>2. Len(u) # 0
      BY <1>3, <1>8, EmptyByLen
    <2>3. \A j \in 1 .. Len(w) : j <= Len(o.shown) /\ w[j] = o.shown[j]
      <3> SUFFICES ASSUME NEW j \in 1 .. Len(w) PROVE j <= Len(o.shown) /\ w[j] = o.shown[j]
        OBVIOUS
      <3>1. j \in 1 .. Len(fed) - 1 /\ j + 1 \in 1 .. Len(fed) /\ j \in 1 .. Len(u) - 1
        BY <1>2, <1>6, <2>1, <2>2
      <3> QED
        BY <1>1, <1>6, <2>1, <3>1
    <2>4. Len(w) <= Len(o.shown)
      <3>1. PICK lw \in Nat, ls \in Nat : lw = Len(w) /\ ls = Len(o.shown)
        BY <1>6, <2>1
      <3>2. lw > 0 => lw \in 1 .. Len(w)
        BY <3>1
      <3>3. lw > 0 => lw <= ls
        BY <2>3, <3>1, <3>2
      <3> QED
        BY <3>1, <3>3
    <2>5. Begins(w, o.shown)
      BY <1>3, <2>3, <2>4, PrefixBy
    <2> QED
      BY <1>5, <1>8, <2>1, <2>5, Zenon DEF o, u
  <1> QED
    BY <1>7, <1>8

\* generate and chat of llama.c, for all prompts and any number of steps: the
\* dialog is fed turn by turn, each prompt whole and each answer up to its EOS, the
\* model goes on from what was printed, and the key-value cache is never exceeded.
THEOREM DialogsKept == LoopSpec => []DialogKept
  <1>1. LoopInv => DialogKept
    <2> SUFFICES ASSUME LoopInv PROVE DialogKept
      OBVIOUS
    <2>0. turns \in Seq(TurnRec) /\ DOMAIN turns = 1 .. Len(turns)
      BY DEF LoopInv, LoopType
    <2>1. CacheNotExceeded
      BY StepsAssumption DEF LoopInv, LoopType, CacheNotExceeded
    <2>2. CASE mode = "chat"
      <3>1. TurnsWhole
        BY <2>0, <2>2, ChatKept, Zenon DEF TurnsWhole
      <3>2. AnswerShown
        BY <2>0, <2>2, ChatKept DEF AnswerShown
      <3> QED
        BY <2>1, <3>1, <3>2 DEF DialogKept
    <2>3. CASE mode = "generate"
      <3>1. Len(turns) = 1 /\ mode # "chat"
        BY <2>3 DEF LoopInv, GenerateInv
      <3>2. \A i \in DOMAIN turns : i = 1 /\ ~(i < Len(turns))
        BY <2>0, <3>1
      <3>3. TurnsWhole
        BY <2>3, <3>1, <3>2, GenerateKept, Zenon DEF TurnsWhole
      <3>4. AnswerShown
        BY <2>3, <3>2, GenerateKept, Zenon DEF AnswerShown
      <3> QED
        BY <2>1, <3>3, <3>4 DEF DialogKept
    <2> QED
      BY <2>2, <2>3 DEF LoopInv, LoopType
  <1> QED
    BY <1>1, LoopInitInv, LoopStep, PTL DEF LoopSpec

-----------------------------------------------------------------------------
(* The rate limiter.                                                       *)

Bucket == [peer : Peers \cup {None}, tokens : 0 .. BURST, last : Nat]

\* A peer has one bucket at most, brought up to date when it called last.
BucketsInv ==
  /\ now \in Nat
  /\ disc_rl \in [Slots -> Bucket]
  /\ last \in [Peers -> Int]
  /\ \A p \in Peers : last[p] <= now
  /\ \A i \in Slots : Used(i) => disc_rl[i].last = last[disc_rl[i].peer]
  /\ \A i \in Slots : ~Used(i) => disc_rl[i].tokens = 0
  /\ \A i, j \in Slots : Used(i) /\ disc_rl[i].peer = disc_rl[j].peer => i = j

\* The bucket of a peer that was dropped in this tick is still there, and empty.
DroppedInv ==
  /\ dropped \subseteq Peers
  /\ \A p \in dropped : \E i \in Slots : disc_rl[i] = [peer |-> p, tokens |-> 0, last |-> now]
  /\ ThrottledStays

\* No more peers than slots.
FewPeers == IsFiniteSet(Peers) /\ Cardinality(Peers) <= SLOTS

LEMMA SlotsNatural == Slots \subseteq Nat /\ 0 \in Slots /\ SLOTS - 1 \in Nat /\ \A i \in Slots : i <= SLOTS - 1
  BY RateAssumption DEF Slots

\* The scan from a slot on ends at a bucket with as many tokens as any of them.
LEMMA FullestSlot ==
  ASSUME BucketsInv, NEW i \in Slots
  PROVE  Fullest(i) \in Slots /\ Fullest(i) >= i /\ disc_rl[Fullest(i)].tokens >= disc_rl[i].tokens
         /\ (Fullest(i) # i => disc_rl[Fullest(i)].tokens > disc_rl[i].tokens)
  <1> DEFINE From == i .. SLOTS - 1
             tok(j) == disc_rl[j].tokens
  <1>1. From \subseteq Slots /\ i \in From /\ From \subseteq Nat
    BY SlotsNatural, RateAssumption DEF Slots
  <1>2. \A j \in From : tok(j) \in Nat /\ tok(j) <= BURST
    BY <1>1 DEF BucketsInv, Bucket
  <1>3. PICK top \in {tok(j) : j \in From} : \A t \in {tok(j) : j \in From} : t <= top
    <2>1. {tok(j) : j \in From} \in SUBSET Nat /\ {tok(j) : j \in From} # {}
      <3> HIDE DEF tok, From
      <3> QED
        BY <1>1, <1>2, Zenon
    <2>2. \A t \in {tok(j) : j \in From} : t <= BURST
      BY <1>2 DEF BucketsInv, Bucket
    <2> HIDE DEF tok, From
    <2> QED
      BY <2>1, <2>2, RateAssumption, GreatestNatural, Zenon
  <1> DEFINE Best == {j \in From : tok(j) = top}
  <1>4. PICK j \in Best : \A m \in Best : j <= m
    <2>1. Best \in SUBSET Nat /\ Best # {}
      BY <1>1, <1>3
    <2> QED
      BY <2>1, LeastNatural, Zenon
  <1>5. \A m \in From : tok(m) <= tok(j)
    BY <1>3, <1>4
  <1>6. \A m \in i .. j - 1 : tok(m) < tok(j)
    <2> SUFFICES ASSUME NEW m \in i .. j - 1 PROVE tok(m) < tok(j)
      OBVIOUS
    <2>0. j \in From
      BY <1>4
    <2>1. m \in From /\ m < j
      BY <1>1, <2>0, SlotsNatural
    <2>2. tok(m) # top
      <3>1. m \in Best => j <= m
        BY <1>4
      <3>2. j \in Nat /\ m \in Nat
        BY <1>1, <1>4, <2>1
      <3> QED
        BY <3>1, <3>2, <2>1
    <2>3. tok(m) <= tok(j) /\ tok(j) = top
      BY <1>4, <1>5, <2>1
    <2> HIDE DEF tok
    <2> QED
      BY <1>2, <1>4, <2>1, <2>2, <2>3
  <1> DEFINE f == Fullest(i)
  <1>7. f \in From /\ (\A m \in From : tok(m) <= tok(f)) /\ (\A m \in i .. f - 1 : tok(m) < tok(f))
    BY <1>4, <1>5, <1>6 DEF Fullest
  <1> HIDE DEF f
  <1>8. f \in Slots /\ f >= i /\ tok(f) >= tok(i)
    BY <1>1, <1>2, <1>7
  <1>9. f # i => tok(f) > tok(i)
    BY <1>1, <1>2, <1>7
  <1> QED
    BY <1>8, <1>9 DEF f

\* The slot that a peer without a bucket claims: one of the table; and when a slot
\* is free, it is free or its bucket has tokens.
LEMMA ClaimedSlot ==
  ASSUME BucketsInv
  PROVE  Lru \in Slots /\ ((\E i \in Slots : ~Used(i)) => ~Used(Lru) \/ disc_rl[Lru].tokens > 0)
  <1> DEFINE free == {i \in Slots : ~Used(i)}
  <1>1. CASE free = {}
    <2>1. Lru = Fullest(0)
      BY <1>1 DEF Lru
    <2> QED
      BY <1>1, <2>1, SlotsNatural, FullestSlot
  <1>2. CASE free # {}
    <2>1. PICK g \in free : \A j \in free : j <= g
      <3>1. free \in SUBSET Nat /\ \A j \in free : j <= SLOTS - 1
        BY SlotsNatural, Zenon
      <3> HIDE DEF free
      <3> QED
        BY <1>2, <3>1, SlotsNatural, GreatestNatural, Zenon
    <2> DEFINE from == CHOOSE i \in free : \A j \in free : j <= i
    <2>2. from \in free
      BY <2>1
    <2>3. Lru = Fullest(from)
      BY <1>2 DEF Lru
    <2> HIDE DEF from
    <2>4. from \in Slots /\ ~Used(from) /\ disc_rl[from].tokens = 0
      BY <2>2 DEF BucketsInv
    <2>5. Fullest(from) \in Slots /\ (Fullest(from) # from => disc_rl[Fullest(from)].tokens > disc_rl[from].tokens)
      BY <2>4, FullestSlot
    <2> QED
      BY <2>3, <2>4, <2>5
  <1> QED
    BY <1>1, <1>2

\* With no more peers than slots there is a slot for everyone.
LEMMA RoomForAll ==
  ASSUME BucketsInv, FewPeers, NEW p \in Peers, \A i \in Slots : disc_rl[i].peer # p
  PROVE  \E i \in Slots : ~Used(i)
  <1> SUFFICES ASSUME \A i \in Slots : Used(i) PROVE FALSE
    OBVIOUS
  <1> DEFINE f == [i \in Slots |-> disc_rl[i].peer]
             Others == Peers \ {p}
  <1>1. f \in [Slots -> Others]
    BY DEF BucketsInv, Bucket, Used
  <1>2. IsFiniteSet(Slots) /\ Cardinality(Slots) = SLOTS
    BY FS_Interval, RateAssumption DEF Slots
  <1>3. IsFiniteSet(Others) /\ Cardinality(Others) = Cardinality(Peers) - 1
    BY FS_RemoveElement DEF FewPeers
  <1>4. Cardinality(Peers) \in Nat
    BY FS_CardinalityType DEF FewPeers
  <1>5. Cardinality(Others) < Cardinality(Slots)
    BY <1>2, <1>3, <1>4, RateAssumption DEF FewPeers
  <1>6. PICK i, j \in Slots : i # j /\ f[i] = f[j]
    <2> HIDE DEF f, Others
    <2> QED
      BY <1>1, <1>2, <1>3, <1>5, FS_PigeonHole
  <1> QED
    BY <1>6 DEF BucketsInv

\* One call, by its slot and its bucket before it.
LEMMA CallAsBucket ==
  ASSUME BucketsInv, NEW p \in Peers, disc_rl_allow(p)
  PROVE  \E i \in Slots, t \in 0 .. BURST :
           /\ disc_rl' = [disc_rl EXCEPT ![i] = [peer |-> p, tokens |-> IF t > 0 THEN t - 1 ELSE t, last |-> now]]
           /\ admitted' = [peer |-> p, ok |-> t > 0, gap |-> IF last[p] = -1 THEN 1 ELSE now - last[p]]
           /\ last' = [last EXCEPT ![p] = now]
           /\ dropped' = IF t > 0 THEN dropped ELSE dropped \cup {p}
           /\ now' = now
           /\ \/ disc_rl[i].peer = p /\ \/ t = BURST /\ disc_rl[i].tokens + (now - last[p]) > BURST
                                        \/ t = disc_rl[i].tokens + (now - last[p])
              \/ t = BURST /\ i = Lru /\ \A j \in Slots : disc_rl[j].peer # p
  <1> DEFINE mine == {i \in Slots : disc_rl[i].peer = p}
             i == IF mine # {} THEN CHOOSE j \in mine : \A m \in mine : j <= m ELSE Lru
             bucket == IF mine # {} THEN disc_rl[i] ELSE [peer |-> p, tokens |-> BURST, last |-> now]
             sum == bucket.tokens + (now - bucket.last)
             t == IF sum > BURST THEN BURST ELSE sum
  <1>1. /\ disc_rl' = [disc_rl EXCEPT ![i] = [peer |-> p, tokens |-> IF t > 0 THEN t - 1 ELSE t, last |-> now]]
        /\ admitted' = [peer |-> p, ok |-> t > 0, gap |-> IF last[p] = -1 THEN 1 ELSE now - last[p]]
        /\ last' = [last EXCEPT ![p] = now]
        /\ dropped' = IF t > 0 THEN dropped ELSE dropped \cup {p}
        /\ now' = now
    BY Zenon DEF disc_rl_allow
  <1>2. mine # {} => i \in mine
    <2> SUFFICES ASSUME mine # {} PROVE i \in mine
      OBVIOUS
    <2>1. mine \in SUBSET Nat
      BY SlotsNatural, Zenon
    <2>2. \E j \in mine : \A m \in mine : j <= m
      <3> HIDE DEF mine
      <3> QED
        BY <2>1, LeastNatural
    <2> HIDE DEF mine
    <2> QED
      BY <2>2
  <1>3. mine = {} => i = Lru /\ \A j \in Slots : disc_rl[j].peer # p
    OBVIOUS
  <1> HIDE DEF i
  <1>4. i \in Slots
    BY <1>2, <1>3, ClaimedSlot
  <1>5. CASE mine # {}
    <2>1. disc_rl[i].peer = p /\ bucket = disc_rl[i]
      BY <1>2, <1>5
    <2>2. disc_rl[i].tokens \in 0 .. BURST /\ disc_rl[i].last = last[p] /\ last[p] \in Int /\ last[p] <= now /\ now \in Nat
      BY <2>1, <1>4, RateAssumption, SMTT(30) DEF BucketsInv, Bucket, Used
    <2>3. sum = disc_rl[i].tokens + (now - last[p])
      BY <2>1, <2>2, ZenonT(30)
    <2>4. /\ t \in 0 .. BURST
          /\ \/ t = BURST /\ disc_rl[i].tokens + (now - last[p]) > BURST
             \/ t = disc_rl[i].tokens + (now - last[p])
      <3> HIDE DEF bucket
      <3> QED
        BY <2>2, <2>3, RateAssumption
    <2> HIDE DEF t
    <2> QED
      BY <1>1, <1>4, <2>1, <2>4, Zenon
  <1>6. CASE mine = {}
    <2>1. bucket.tokens = BURST /\ bucket.last = now
      BY <1>6
    <2>2. now \in Nat
      BY DEF BucketsInv
    <2>3. t = BURST /\ t \in 0 .. BURST
      <3> HIDE DEF bucket
      <3> QED
        BY <2>1, <2>2, RateAssumption
    <2> HIDE DEF t
    <2> QED
      BY <1>1, <1>3, <1>4, <1>6, <2>3, ZenonT(30)
  <1> QED
    BY <1>5, <1>6

LEMMA BucketsStep ==
  ASSUME BucketsInv, QuietPeerAdmitted, [RateNext]_rateVars
  PROVE  BucketsInv' /\ QuietPeerAdmitted'
  <1>1. ASSUME NEW p \in Peers, disc_rl_allow(p) PROVE BucketsInv' /\ QuietPeerAdmitted'
    <2>1. PICK i \in Slots, t \in 0 .. BURST :
           /\ disc_rl' = [disc_rl EXCEPT ![i] = [peer |-> p, tokens |-> IF t > 0 THEN t - 1 ELSE t, last |-> now]]
           /\ admitted' = [peer |-> p, ok |-> t > 0, gap |-> IF last[p] = -1 THEN 1 ELSE now - last[p]]
           /\ last' = [last EXCEPT ![p] = now]
           /\ dropped' = IF t > 0 THEN dropped ELSE dropped \cup {p}
           /\ now' = now
           /\ \/ disc_rl[i].peer = p /\ \/ t = BURST /\ disc_rl[i].tokens + (now - last[p]) > BURST
                                        \/ t = disc_rl[i].tokens + (now - last[p])
              \/ t = BURST /\ i = Lru /\ \A j \in Slots : disc_rl[j].peer # p
      BY <1>1, CallAsBucket, Zenon
    <2> DEFINE b == [peer |-> p, tokens |-> IF t > 0 THEN t - 1 ELSE t, last |-> now]
    <2>2. b \in Bucket /\ b.peer = p /\ b.last = now /\ p # None
      BY RateAssumption DEF Bucket, BucketsInv
    <2> HIDE DEF b
    <2>3. disc_rl' \in [Slots -> Bucket] /\ disc_rl'[i] = b /\ \A j \in Slots \ {i} : disc_rl'[j] = disc_rl[j]
      BY <2>1, <2>2 DEF BucketsInv, b
    <2>4. last' \in [Peers -> Int] /\ last'[p] = now /\ \A q \in Peers \ {p} : last'[q] = last[q]
      BY <2>1 DEF BucketsInv
    <2>5. \A q \in Peers : last'[q] <= now
      BY <2>4 DEF BucketsInv
    <2>6. \A j \in Slots \ {i} : disc_rl[j].peer # p
      BY <2>1, <2>2 DEF BucketsInv, Used
    <2>7. \A j \in Slots : Used(j)' => disc_rl'[j].last = last'[disc_rl'[j].peer]
      <3> SUFFICES ASSUME NEW j \in Slots, Used(j)' PROVE disc_rl'[j].last = last'[disc_rl'[j].peer]
        OBVIOUS
      <3>1. CASE j = i
        BY <3>1, <2>2, <2>3, <2>4
      <3>2. CASE j # i
        <4>1. disc_rl'[j] = disc_rl[j] /\ disc_rl[j].peer \in Peers \ {p}
          BY <3>2, <2>3, <2>6 DEF BucketsInv, Bucket, Used
        <4> QED
          BY <4>1, <2>4 DEF BucketsInv, Used
      <3> QED
        BY <3>1, <3>2
    <2>8. \A j \in Slots : ~Used(j)' => disc_rl'[j].tokens = 0
      BY <2>2, <2>3 DEF BucketsInv, Used
    <2>9. \A j, m \in Slots : Used(j)' /\ disc_rl'[j].peer = disc_rl'[m].peer => j = m
      <3> SUFFICES ASSUME NEW j \in Slots, NEW m \in Slots, Used(j)', disc_rl'[j].peer = disc_rl'[m].peer PROVE j = m
        OBVIOUS
      <3>1. CASE j = i \/ m = i
        BY <3>1, <2>2, <2>3, <2>6
      <3>2. CASE j # i /\ m # i
        BY <3>2, <2>3, SMTT(30) DEF BucketsInv, Used
      <3> QED
        BY <3>1, <3>2
    <2>10. BucketsInv'
      BY <2>1, <2>3, <2>4, <2>5, <2>7, <2>8, <2>9, Zenon DEF BucketsInv, Slots
    <2>11. QuietPeerAdmitted'
      <3> SUFFICES ASSUME admitted'.gap >= 1 PROVE admitted'.ok
        BY DEF QuietPeerAdmitted
      <3>1. t > 0
        <4>1. CASE t = BURST
          BY <4>1, RateAssumption
        <4>2. CASE disc_rl[i].peer = p /\ t = disc_rl[i].tokens + (now - last[p])
          <5>1. disc_rl[i].last = last[p] /\ disc_rl[i].last \in Nat /\ disc_rl[i].tokens \in 0 .. BURST
            BY <4>2, <2>2 DEF BucketsInv, Bucket, Used
          <5>2. now - last[p] >= 1
            BY <5>1, <2>1
          <5> QED
            BY <4>2, <5>1, <5>2, RateAssumption DEF BucketsInv
        <4> QED
          BY <2>1, <4>1, <4>2
      <3> QED
        BY <2>1, <3>1, Zenon
    <2> QED
      BY <2>10, <2>11, SMTT(30)
  <1>2. CASE Tick
    BY <1>2 DEF Tick, BucketsInv, QuietPeerAdmitted, Slots, Used
  <1>3. CASE UNCHANGED rateVars
    BY <1>3 DEF rateVars, BucketsInv, QuietPeerAdmitted, Slots, Used
  <1> QED
    BY <1>1, <1>2, <1>3 DEF RateNext

LEMMA DroppedStep ==
  ASSUME FewPeers, BucketsInv, DroppedInv, [RateNext]_rateVars
  PROVE  DroppedInv'
  <1>1. ASSUME NEW p \in Peers, disc_rl_allow(p) PROVE DroppedInv'
    <2>1. PICK i \in Slots, t \in 0 .. BURST :
           /\ disc_rl' = [disc_rl EXCEPT ![i] = [peer |-> p, tokens |-> IF t > 0 THEN t - 1 ELSE t, last |-> now]]
           /\ admitted' = [peer |-> p, ok |-> t > 0, gap |-> IF last[p] = -1 THEN 1 ELSE now - last[p]]
           /\ last' = [last EXCEPT ![p] = now]
           /\ dropped' = IF t > 0 THEN dropped ELSE dropped \cup {p}
           /\ now' = now
           /\ \/ disc_rl[i].peer = p /\ \/ t = BURST /\ disc_rl[i].tokens + (now - last[p]) > BURST
                                        \/ t = disc_rl[i].tokens + (now - last[p])
              \/ t = BURST /\ i = Lru /\ \A j \in Slots : disc_rl[j].peer # p
      BY <1>1, CallAsBucket, Zenon
    <2> DEFINE b == [peer |-> p, tokens |-> IF t > 0 THEN t - 1 ELSE t, last |-> now]
    <2>2. disc_rl'[i] = b /\ \A j \in Slots \ {i} : disc_rl'[j] = disc_rl[j]
      BY <2>1, SMTT(30) DEF BucketsInv
    <2>3. \A q \in dropped : q \in Peers /\ q # None
      BY RateAssumption DEF DroppedInv
    <2>4. p \in dropped => t = 0
      <3> SUFFICES ASSUME p \in dropped PROVE t = 0
        OBVIOUS
      <3>1. PICK j \in Slots : disc_rl[j] = [peer |-> p, tokens |-> 0, last |-> now]
        BY DEF DroppedInv
      <3>2. disc_rl[j].peer = p /\ disc_rl[j].tokens = 0 /\ disc_rl[j].last = now
        BY <3>1
      <3>3. disc_rl[i].peer = p
        BY <2>1, <3>2
      <3>4. i = j
        BY <3>2, <3>3, <2>3 DEF BucketsInv, Used
      <3>5. now = last[p] /\ now \in Nat
        BY <3>2, <2>3 DEF BucketsInv, Used
      <3> QED
        BY <2>1, <3>2, <3>4, <3>5, RateAssumption
    <2>5. t = 0 => b = [peer |-> p, tokens |-> 0, last |-> now]
      OBVIOUS
    <2> HIDE DEF b
    <2>6. ASSUME NEW q \in dropped, q # p PROVE \E j \in Slots : disc_rl'[j] = [peer |-> q, tokens |-> 0, last |-> now]
      <3>1. PICK j \in Slots : disc_rl[j] = [peer |-> q, tokens |-> 0, last |-> now]
        BY SMTT(30) DEF DroppedInv
      <3>2. disc_rl[j].peer = q /\ disc_rl[j].tokens = 0 /\ Used(j)
        BY <3>1, <2>3 DEF Used
      <3>3. j # i
        <4>1. CASE disc_rl[i].peer = p
          BY <4>1, <3>2, <2>6
        <4>2. CASE i = Lru /\ \A m \in Slots : disc_rl[m].peer # p
          <5>1. ~Used(Lru) \/ disc_rl[Lru].tokens > 0
            BY <4>2, RoomForAll, ClaimedSlot, SMTT(30)
          <5> QED
            BY <4>2, <5>1, <3>2, SMTT(30)
        <4> QED
          BY <2>1, <4>1, <4>2
      <3> QED
        BY <3>1, <3>3, <2>2, SMTT(30)
    <2>7. ASSUME NEW q \in dropped' PROVE \E j \in Slots : disc_rl'[j] = [peer |-> q, tokens |-> 0, last |-> now]
      <3>1. CASE q # p
        BY <2>1, <2>6, <2>7, <3>1
      <3>2. CASE q = p
        <4>1. t = 0
          BY <2>1, <2>4, <2>7, <3>2, RateAssumption, SMTT(30)
        <4> QED
          BY <2>2, <2>5, <3>2, <4>1
      <3> QED
        BY <3>1, <3>2
    <2>8. dropped' \subseteq Peers
      BY <2>1 DEF DroppedInv
    <2>9. ThrottledStays'
      <3> SUFFICES ASSUME admitted'.ok PROVE admitted'.peer \notin dropped'
        BY DEF ThrottledStays
      <3>1. admitted'.peer = p /\ t > 0
        BY <2>1, Zenon
      <3> QED
        BY <2>1, <2>4, <3>1
    <2> QED
      BY <2>1, <2>7, <2>8, <2>9, SMTT(30) DEF DroppedInv, Slots
  <1>2. CASE Tick
    BY <1>2 DEF Tick, DroppedInv, ThrottledStays
  <1>3. CASE UNCHANGED rateVars
    BY <1>3 DEF rateVars, DroppedInv, ThrottledStays, Slots
  <1> QED
    BY <1>1, <1>2, <1>3 DEF RateNext

LEMMA RateInitInv == RateInit => BucketsInv /\ QuietPeerAdmitted /\ DroppedInv
  <1> SUFFICES ASSUME RateInit PROVE BucketsInv /\ QuietPeerAdmitted /\ DroppedInv
    OBVIOUS
  <1>1. \A i \in Slots : disc_rl[i] = [peer |-> None, tokens |-> 0, last |-> 0]
    BY DEF RateInit
  <1>2. [peer |-> None, tokens |-> 0, last |-> 0] \in Bucket
    BY RateAssumption DEF Bucket
  <1>3. disc_rl \in [Slots -> Bucket]
    BY <1>2 DEF RateInit
  <1> QED
    BY <1>1, <1>3 DEF RateInit, BucketsInv, QuietPeerAdmitted, DroppedInv, ThrottledStays, Used

\* disc_rl_allow, for any number of peers and slots: whoever calls at most once a
\* tick is let through, whatever the others send and whosever bucket they take.
THEOREM QuietAdmitted == RateSpec => []QuietPeerAdmitted
  <1>1. BucketsInv /\ QuietPeerAdmitted /\ [RateNext]_rateVars => (BucketsInv /\ QuietPeerAdmitted)'
    BY BucketsStep
  <1> QED
    BY <1>1, RateInitInv, PTL DEF RateSpec

\* disc_rl_allow, for any number of peers that find a slot each: the quiet ones
\* are let through, and one that was dropped is out until the next tick.
THEOREM BucketsAreFair ==
  ASSUME FewPeers
  PROVE  RateSpec => []BucketsFair
  <1> DEFINE Inv == BucketsInv /\ QuietPeerAdmitted /\ DroppedInv
  <1>1. Inv /\ [RateNext]_rateVars => Inv'
    BY BucketsStep, DroppedStep
  <1>2. Inv => BucketsFair
    BY DEF DroppedInv, BucketsFair
  <1> QED
    BY <1>1, <1>2, RateInitInv, PTL DEF RateSpec
=============================================================================
