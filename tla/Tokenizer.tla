----------------------------- MODULE Tokenizer -----------------------------
(***************************************************************************)
(* encode, decode and safe_printf of user/llama_core.c: a prompt becomes   *)
(* tokens by cutting it into code points and merging neighbours, and the   *)
(* generation loop prints the tokens back.                                 *)
(*                                                                         *)
(* A string is a sequence of bytes.  The piece of a byte token, the six    *)
(* characters "<0xNN>", is <<-NN>>.  The pieces of Vocab are distinct and  *)
(* the space is among them, as in the tokenizer the server sends.          *)
(***************************************************************************)
EXTENDS Integers, Sequences, SequencesExt

CONSTANTS Vocab,    \* id -> [piece, score]
          Texts     \* the prompts considered

VARIABLES
  text, eos,
  c,            \* bytes of text consumed
  str_buffer, tokens,
  pc            \* "scan", "merge", "done"

vars == <<text, eos, c, str_buffer, tokens, pc>>

BOS == 1
EOS == 2
Space == <<32>>
Piece(id) == Vocab[id].piece

\* bsearch over a vocabulary that xqsort has sorted (XStdlib).
str_lookup(str) ==
  IF \E id \in DOMAIN Vocab : Piece(id) = str
  THEN CHOOSE id \in DOMAIN Vocab : Piece(id) = str ELSE -1

Continuation(b) == b \in 128 .. 191

-----------------------------------------------------------------------------
(* encode                                                                  *)

Init ==
  /\ text \in Texts
  /\ eos \in BOOLEAN
  /\ c = 0
  /\ str_buffer = << >>
  /\ tokens = IF text = << >> THEN <<BOS>> ELSE <<BOS, str_lookup(Space)>>
  /\ pc = "scan"

ByteFallback(str) == [i \in DOMAIN str |-> str[i] + 3]

\* Mutant: str_len is not reset after a code point.
ScanKept ==
  /\ pc = "scan" /\ c < Len(text)
  /\ LET b == text[c + 1]
         str == Append(IF Continuation(b) THEN str_buffer ELSE << >>, b)
         more == c + 2 <= Len(text) /\ Continuation(text[c + 2]) /\ Len(str) < 4
         id == str_lookup(str)
     IN /\ str_buffer' = str
        /\ tokens' = IF more THEN tokens ELSE tokens \o (IF id # -1 THEN <<id>> ELSE ByteFallback(str))
  /\ c' = c + 1
  /\ UNCHANGED <<text, eos, pc>>

\* One byte: a byte that is not a continuation starts a new code point, and a
\* code point ends where the next byte is not one, or after four bytes.
Scan ==
  /\ pc = "scan"
  /\ c < Len(text)
  /\ LET b == text[c + 1]
         str == Append(IF Continuation(b) THEN str_buffer ELSE << >>, b)
         more == c + 2 <= Len(text) /\ Continuation(text[c + 2]) /\ Len(str) < 4
         id == str_lookup(str)
     IN IF more THEN str_buffer' = str /\ UNCHANGED tokens
        ELSE /\ tokens' = tokens \o (IF id # -1 THEN <<id>> ELSE ByteFallback(str))
             /\ str_buffer' = << >>
  /\ c' = c + 1
  /\ UNCHANGED <<text, eos, pc>>

ScanDone ==
  /\ pc = "scan"
  /\ c = Len(text)
  /\ pc' = "merge"
  /\ UNCHANGED <<text, eos, c, str_buffer, tokens>>

MergeId(i) == str_lookup(Piece(tokens[i]) \o Piece(tokens[i + 1]))
Mergeable == {i \in 1 .. Len(tokens) - 1 : MergeId(i) # -1}
Score(i) == Vocab[MergeId(i)].score

\* The first pair of the best score.
Best(i) ==
  /\ i \in Mergeable
  /\ \A j \in Mergeable : Score(j) < Score(i) \/ (Score(j) = Score(i) /\ j >= i)

Merge ==
  /\ pc = "merge"
  /\ \E i \in Mergeable :
       /\ Best(i)
       /\ tokens' = SubSeq(tokens, 1, i - 1) \o <<MergeId(i)>> \o SubSeq(tokens, i + 2, Len(tokens))
  /\ UNCHANGED <<text, eos, c, str_buffer, pc>>

MergeDone ==
  /\ pc = "merge"
  /\ Mergeable = {}
  /\ tokens' = IF eos THEN Append(tokens, EOS) ELSE tokens
  /\ pc' = "done"
  /\ UNCHANGED <<text, eos, c, str_buffer>>

Next == Scan \/ ScanDone \/ Merge \/ MergeDone

Spec == Init /\ [][Next]_vars

-----------------------------------------------------------------------------
(* decode and safe_printf                                                  *)

\* sscanf(piece, "<0x%02hhX>"): xsscanf takes an 'h' before the width only, so
\* here the conversion is unknown to it and nothing is ever assigned.
ScansByte(piece) == FALSE

decode(prev_token, token) ==
  LET piece == Piece(token)
      stripped == IF prev_token = BOS /\ IsPrefix(Space, piece) THEN SubSeq(piece, 2, Len(piece))
                  ELSE piece
  IN IF ScansByte(stripped) THEN <<-stripped[1]>> ELSE stripped

Shown(b) == b \in 32 .. 126 \/ b \in {9, 10, 11, 12, 13, 32}

safe_printf(piece) ==
  CASE piece = << >> -> << >>
    [] Len(piece) = 1 /\ piece[1] < 0 -> IF Shown(-piece[1]) THEN <<-piece[1]>> ELSE << >>
    [] Len(piece) = 1 /\ piece[1] >= 0 -> IF Shown(piece[1]) THEN piece ELSE << >>
    [] OTHER -> piece

\* What the loop of generate prints for the prompt.
Printed ==
  FlattenSeq([i \in 1 .. Len(tokens) - 1 |-> safe_printf(decode(tokens[i], tokens[i + 1]))])

-----------------------------------------------------------------------------
\* llama.c:153 and distinf.c:1340 allocate strlen(prompt) + 3 tokens: encode
\* never writes more, however the bytes of the prompt break UTF-8.
TokensFit == Len(tokens) <= Len(text) + 3

Spelled(id) == IF id \in {BOS, EOS} THEN << >>
               ELSE [i \in DOMAIN Piece(id) |-> IF Piece(id)[i] < 0 THEN -Piece(id)[i] ELSE Piece(id)[i]]

\* Neither the fallback to bytes nor a merge loses, repeats or reorders a byte:
\* at every step the tokens spell the part of the prompt read so far, after the
\* space put in front of it.
SpellingKept ==
  FlattenSeq([i \in DOMAIN tokens |-> Spelled(tokens[i])]) \o str_buffer =
    (IF text = << >> THEN << >> ELSE Space) \o SubSeq(text, 1, c)

\* A prompt of visible bytes and known code points is printed back exactly,
\* without the space encode put in front.
Visible ==
  \A i \in DOMAIN text :
    \/ Shown(text[i])
    \/ i < Len(text) /\ str_lookup(<<text[i], text[i + 1]>>) # -1 /\ Continuation(text[i + 1])
                     /\ (i + 1 = Len(text) \/ ~Continuation(text[i + 2]))
    \/ i > 1 /\ str_lookup(<<text[i - 1], text[i]>>) # -1 /\ Continuation(text[i])
             /\ (i = Len(text) \/ ~Continuation(text[i + 1]))
PromptPrinted == pc = "done" /\ ~eos /\ Visible => Printed = text

\* llama_core.c:846-847: of a byte token decode returns "the actual byte".
DecodesByte ==
  pc = "done" => \A i \in 1 .. Len(tokens) - 1 :
                   \A j \in DOMAIN decode(tokens[i], tokens[i + 1]) :
                     tokens[i + 1] # EOS => decode(tokens[i], tokens[i + 1])[j] >= 0
=============================================================================
