----------------------------- MODULE Generation -----------------------------
(***************************************************************************)
(* The loops of user/llama.c that feed tokens to the model: generate, with  *)
(* one prompt, and chat, with a prompt for each turn of the user.           *)
(* Prompts are encoded already: BOS, then words.  What the model samples    *)
(* next is any token.                                                       *)
(***************************************************************************)
EXTENDS Integers, Sequences

CONSTANTS Prompts,     \* what encode makes of the prompts
          TextTokens,  \* tokens other than BOS and EOS
          SEQ_LEN,     \* transformer.config.seq_len: positions of the key-value cache
          StepsArgs    \* the values of the flag -n

VARIABLES
  mode,        \* "generate" or "chat"
  steps,       \* args.steps
  fed,         \* the tokens forward was called with, by position
  turns,       \* the turns so far: the prompt, the position it starts at, the tokens printed
  user_idx, user_turn,
  next,        \* the token sampled last
  pc

loopVars == <<mode, steps, fed, turns, user_idx, user_turn, next, pc>>

BOS == 1
EOS == 2
Sampled == TextTokens \cup {BOS, EOS}

ASSUME PromptsAssumption == \A p \in Prompts : p \in Seq(Nat \ {EOS}) /\ p # << >>
ASSUME StepsAssumption == SEQ_LEN \in Nat /\ StepsArgs \subseteq Int

\* argparse and main: the number of steps.
argparse(n) == IF n < 0 THEN 0 ELSE n

Steps(n) == LET s == argparse(n) IN IF s = 0 \/ s > SEQ_LEN THEN SEQ_LEN ELSE s

LoopInit ==
  /\ mode \in {"generate", "chat"}
  /\ \E n \in StepsArgs : steps = Steps(n)
  /\ fed = << >>
  /\ user_idx = 0 /\ user_turn = TRUE /\ next = 0
  /\ IF mode = "generate" THEN \E p \in Prompts : turns = <<[prompt |-> p, at |-> 0, shown |-> << >>]>>
     ELSE turns = << >>
  /\ pc = "loop"

pos == Len(fed)
Show(ts, t) == [ts EXCEPT ![Len(ts)].shown = Append(@, t)]

\* One round of generate: the prompt's next token is forced while there is one.
generate ==
  /\ mode = "generate" /\ pc = "loop" /\ pos < steps
  /\ LET prompt == turns[1].prompt
         token == IF pos = 0 THEN prompt[1] ELSE next
     IN /\ fed' = Append(fed, token)
        /\ next' \in IF pos < Len(prompt) - 1 THEN {prompt[pos + 2]} ELSE Sampled
        /\ IF next' = BOS THEN pc' = "done" /\ UNCHANGED turns
           ELSE turns' = Show(turns, next') /\ UNCHANGED pc
  /\ UNCHANGED <<mode, steps, user_idx, user_turn>>

\* Mutant: user_idx goes on where the turn before left it.
chatNoReset ==
  /\ mode = "chat" /\ pc = "loop" /\ pos < steps
  /\ \E p \in Prompts :
       LET ts == IF user_turn THEN Append(turns, [prompt |-> p, at |-> pos, shown |-> << >>]) ELSE turns
           prompt == ts[Len(ts)].prompt
           token == IF user_idx < Len(prompt) THEN prompt[user_idx + 1] ELSE next
       IN /\ ~user_turn => p = prompt
          /\ user_idx' = IF user_idx < Len(prompt) THEN user_idx + 1 ELSE user_idx
          /\ user_turn' = (token = EOS)
          /\ fed' = Append(fed, token)
          /\ next' \in Sampled
          /\ turns' = IF user_idx' >= Len(prompt) /\ next' # EOS THEN Show(ts, next') ELSE ts
  /\ UNCHANGED <<mode, steps, pc>>

\* One round of chat.
chat ==
  /\ mode = "chat" /\ pc = "loop" /\ pos < steps
  /\ \E p \in Prompts :
       LET ts == IF user_turn THEN Append(turns, [prompt |-> p, at |-> pos, shown |-> << >>]) ELSE turns
           prompt == ts[Len(ts)].prompt
           idx == IF user_turn THEN 0 ELSE user_idx
           token == IF idx < Len(prompt) THEN prompt[idx + 1] ELSE next
       IN /\ ~user_turn => p = prompt
          /\ user_idx' = IF idx < Len(prompt) THEN idx + 1 ELSE idx
          /\ user_turn' = (token = EOS)
          /\ fed' = Append(fed, token)
          /\ next' \in Sampled
          /\ turns' = IF user_idx' >= Len(prompt) /\ next' # EOS THEN Show(ts, next') ELSE ts
  /\ UNCHANGED <<mode, steps, pc>>

Stop ==
  /\ pc = "loop" /\ pos >= steps
  /\ pc' = "done"
  /\ UNCHANGED <<mode, steps, fed, turns, user_idx, user_turn, next>>

LoopNext == generate \/ chat \/ Stop
LoopSpec == LoopInit /\ [][LoopNext]_loopVars
-----------------------------------------------------------------------------
\* The tokens fed in turn k.
Turn(k) == SubSeq(fed, turns[k].at + 1, IF k < Len(turns) THEN turns[k + 1].at ELSE Len(fed))
Answer(k) == LET n == Len(turns[k].prompt) IN IF Len(Turn(k)) <= n THEN << >> ELSE SubSeq(Turn(k), n + 1, Len(Turn(k)))

Begins(s, t) == Len(s) <= Len(t) /\ SubSeq(t, 1, Len(s)) = s
Ended(s) == s # << >> /\ s[Len(s)] = EOS

\* forward writes the key-value cache at every position it is called with: they
\* stay within it, whatever -n says and however long the dialog is.
CacheNotExceeded == Len(fed) <= SEQ_LEN

\* A prompt is fed from its first token to its last before anything sampled is;
\* a turn of the chat ends with the first EOS of the answer, and only there.
TurnsWhole ==
  \A k \in DOMAIN turns :
    /\ Begins(Turn(k), turns[k].prompt) \/ Begins(turns[k].prompt, Turn(k))
    /\ k < Len(turns) => Ended(Answer(k))
    /\ mode = "chat" => \A j \in 1 .. Len(Answer(k)) - 1 : Answer(k)[j] # EOS

\* What the model goes on from is what the user has read: the answer's tokens
\* are printed, in order, before they are fed.
AnswerShown ==
  \A k \in DOMAIN turns :
    LET said == IF mode = "generate" THEN (IF Turn(k) = << >> THEN << >> ELSE Tail(Turn(k)))
                ELSE IF Ended(Answer(k)) THEN SubSeq(Answer(k), 1, Len(Answer(k)) - 1) ELSE Answer(k)
    IN Begins(said, turns[k].shown)

\* generate, chat: prompts are fed whole, a turn ends with EOS, what is fed was
\* printed, and the key-value cache is never exceeded.
DialogKept == TurnsWhole /\ AnswerShown /\ CacheNotExceeded
=============================================================================
