----------------------------- MODULE ShellParse -----------------------------
(***************************************************************************)
(* The parser of user/sh.c.  A line is a sequence of characters, of which   *)
(* "q" is the quote and "a", "b" are ordinary.  A parsing function takes a  *)
(* position and returns a command and the position after it, or fails as    *)
(* panic does.  A word is its first position and the one after its last.    *)
(***************************************************************************)
EXTENDS Integers, Sequences, FiniteSets, SequencesExt

CONSTANTS LineSet, MAXARGS

VARIABLES line, cmd

vars == <<line, cmd>>

Panic == [type |-> "panic"]
At(s) == IF s > Len(line) THEN "end" ELSE line[s]
Symbols == {"<", "|", ">", "&", ";", "(", ")"}

\* The first position from s on whose character is in C; the end at the latest.
Until(s, C) == CHOOSE e \in s .. Len(line) + 1 :
                 /\ e = Len(line) + 1 \/ line[e] \in C
                 /\ \A j \in s .. e - 1 : line[j] \notin C
Skip(s) == Until(s, {"a", "b", "q"} \cup Symbols)

Token(tok, q, eq, s) == [tok |-> tok, q |-> q, eq |-> eq, s |-> Skip(s)]

gettoken(ps) ==
  LET s == Skip(ps)
  IN CASE At(s) = "end" -> Token("end", s, s, s)
       [] At(s) = ">" /\ At(s + 1) = ">" -> Token("+", s, s + 2, s + 2)
       [] At(s) \in Symbols /\ ~(At(s) = ">" /\ At(s + 1) = ">") -> Token(At(s), s, s + 1, s + 1)
       [] At(s) = "q" -> LET e == Until(s + 1, {"q"}) IN Token("a", s + 1, e, IF At(e) = "q" THEN e + 1 ELSE e)
       [] OTHER -> LET e == Until(s, {" "} \cup Symbols) IN Token("a", s, e, e)

peek(s, toks) == At(Skip(s)) \in toks

Done(c, s) == [cmd |-> c, s |-> s]
Failed == Done(Panic, 0)
IsPanic(r) == r.cmd.type = "panic"
-----------------------------------------------------------------------------
RECURSIVE parseline(_)
RECURSIVE parsepipe(_)
RECURSIVE parseredirs(_, _)
RECURSIVE Args(_, _)

\* Redirections are wrapped around the command in their order.
Mode == [t \in {"<", ">", "+"} |-> CASE t = "<" -> "O_RDONLY" [] t = ">" -> "O_TRUNC" [] t = "+" -> "O_CREATE"]
redircmd(c, t, f) ==
  [type |-> "REDIR", cmd |-> c, file |-> <<f.q, f.eq>>, mode |-> Mode[t], fd |-> IF t = "<" THEN 0 ELSE 1]
Redirected(c, t, f) == IF f.tok # "a" THEN Failed ELSE parseredirs(redircmd(c, t, f), f.s)
RedirTo(c, t) == Redirected(c, t.tok, gettoken(t.s))
parseredirs(c, s) == IF peek(s, {"<", ">"}) THEN RedirTo(c, gettoken(s)) ELSE Done(c, s)

\* Mutant: what parseredirs returns is not kept.
Unredirected(c, redirs) == IF IsPanic(redirs) THEN Failed ELSE Done(c, redirs.s)
CloseBlockBare(r) ==
  IF IsPanic(r) \/ ~peek(r.s, {")"}) THEN Failed ELSE Unredirected(r.cmd, parseredirs(r.cmd, gettoken(r.s).s))

\* parseblock after its parseline.
CloseBlock(r) ==
  IF IsPanic(r) \/ ~peek(r.s, {")"}) THEN Failed ELSE parseredirs(r.cmd, gettoken(r.s).s)

parseblock(ps) == CloseBlock(parseline(gettoken(ps).s))

\* The command under the redirections gets one more argument.
RECURSIVE AddArg(_, _)
AddArg(c, word) == IF c.type = "EXEC" THEN [c EXCEPT !.argv = Append(@, word)] ELSE [c EXCEPT !.cmd = AddArg(@, word)]

\* The loop of parseexec: a token, then the redirections after it.
Arg(r, argc, t) ==
  CASE t.tok = "end" -> r
    [] t.tok = "a" /\ argc + 1 < MAXARGS -> Args(parseredirs(AddArg(r.cmd, <<t.q, t.eq>>), t.s), argc + 1)
    [] OTHER -> Failed
Args(r, argc) ==
  IF IsPanic(r) \/ peek(r.s, {"|", ")", "&", ";"}) THEN r ELSE Arg(r, argc, gettoken(r.s))

parseexec(s) ==
  IF peek(s, {"("}) THEN parseblock(s) ELSE Args(parseredirs([type |-> "EXEC", argv |-> << >>], s), 0)

\* pipecmd and listcmd.
Both(type, left, r) == IF IsPanic(r) THEN r ELSE Done([type |-> type, left |-> left, right |-> r.cmd], r.s)

PipeRest(r) ==
  IF IsPanic(r) \/ ~peek(r.s, {"|"}) THEN r ELSE Both("PIPE", r.cmd, parsepipe(gettoken(r.s).s))
parsepipe(s) == PipeRest(parseexec(s))

RECURSIVE Backs(_)
Backs(r) ==
  IF IsPanic(r) \/ ~peek(r.s, {"&"}) THEN r ELSE Backs(Done([type |-> "BACK", cmd |-> r.cmd], gettoken(r.s).s))

LineRest(r) ==
  IF IsPanic(r) \/ ~peek(r.s, {";"}) THEN r ELSE Both("LIST", r.cmd, parseline(gettoken(r.s).s))
parseline(s) == LineRest(Backs(parsepipe(s)))

Whole(r) == IF IsPanic(r) \/ Skip(r.s) # Len(line) + 1 THEN Panic ELSE r.cmd
parsecmd == Whole(parseline(1))

\* The words of a command, whose ends nulterminate overwrites with NUL.
RECURSIVE Words(_)
Words(c) ==
  CASE c.type = "EXEC" -> Range(c.argv)
    [] c.type = "REDIR" -> {c.file} \cup Words(c.cmd)
    [] c.type = "BACK" -> Words(c.cmd)
    [] c.type \in {"PIPE", "LIST"} -> Words(c.left) \cup Words(c.right)
    [] OTHER -> {}
nulterminate(c) == [j \in 1 .. Len(line) + 1 |-> IF \E w \in Words(c) : w[2] = j THEN "end" ELSE At(j)]

Init == line \in LineSet /\ cmd = [type |-> "none"]
Parse == cmd.type = "none" /\ cmd' = parsecmd /\ UNCHANGED line
Next == Parse
Spec == Init /\ [][Next]_vars
-----------------------------------------------------------------------------
Text(w) == SubSeq(line, w[1], w[2] - 1)

\* nulterminate: every word still reads as it was typed when all the others
\* have been cut off too; none is overwritten by another's end.
WordsSurvive ==
  \A w \in Words(cmd) : \A j \in w[1] .. w[2] - 1 : nulterminate(cmd)[j] = line[j]

\* What a command says, as a line: what binds less than its place is in parentheses.
RECURSIVE Says(_)
Paren(c, types) == IF c.type \in types THEN <<"(">> \o Says(c) \o <<")">> ELSE Says(c)
Loose == {"PIPE", "LIST", "BACK"}
Sign == [O_RDONLY |-> <<"<">>, O_TRUNC |-> <<">">>, O_CREATE |-> <<">", ">">>]
Quoted(w) == <<"q">> \o Text(w) \o <<"q">>
Says(c) ==
  CASE c.type = "EXEC" -> FlattenSeq([j \in DOMAIN c.argv |-> Quoted(c.argv[j])])
    [] c.type = "REDIR" -> Paren(c.cmd, Loose) \o Sign[c.mode] \o Quoted(c.file)
    [] c.type = "BACK" -> Paren(c.cmd, {"LIST"}) \o <<"&">>
    [] c.type = "PIPE" -> Paren(c.left, Loose) \o <<"|">> \o Paren(c.right, {"LIST", "BACK"})
    [] c.type = "LIST" -> Paren(c.left, {"LIST"}) \o <<";">> \o Says(c.right)

\* The characters of a line that are not spaces, quotes or parentheses.
Core(s) == SelectSeq(s, LAMBDA x : x \notin {" ", "q", "(", ")"})
Count(s, x) == Cardinality({j \in DOMAIN s : s[j] = x})

\* parsecmd: a line that is accepted is all in the command: no word, redirection
\* or operator is lost, doubled or invented, and without redirections in the
\* midst of arguments they are in their order.
NothingLost ==
  cmd.type \notin {"none", "panic"} =>
    /\ \A x \in {"a", "b", "<", ">", "|", "&", ";"} : Count(Says(cmd), x) = Count(line, x)
    /\ Count(line, "<") + Count(line, ">") = 0 => Core(Says(cmd)) = Core(line)
=============================================================================
