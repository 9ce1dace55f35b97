------------------------------ MODULE Commands ------------------------------
(***************************************************************************)
(* The small programs of xv6-riscv/user as scripts: their main, given the    *)
(* arguments after argv[0].  What they print on the console is left out,     *)
(* except for the programs whose output is their purpose.                    *)
(***************************************************************************)
EXTENDS Script

Opens(v, path, mode) == Must(open(v, path, mode), Ok)
NotOpen(path, mode) == Must(open("r", path, mode), Fail)
Works(c) == Must(c, Zero)
Refused(c) == Must(c, Fail)
Forks(v, child) == Must(fork(v, child), Some)
CW == O_CREATE(O_WRONLY)
CRW == O_CREATE(O_RDWR)
Create == O_CREATE(O_RDONLY)

\* Arguments, sequences of symbols, are written one by one with a blank or the
\* end of the line after each.
echo(args) ==
  For(Len(args), LAMBDA i :
    <<write("1", args[i]), write("1", IF i < Len(args) THEN <<" ">> ELSE <<"nl">>)>>)
  \o <<exit(0)>>

\* Copy until the end of the file; a write that falls short ends the program.
cat_fd(fd) ==
  <<read(fd, 2), while("r", Some, <<Must(writebuf("1"), Some), read(fd, 2)>>), Must(add("r", 0), Zero)>>

cat(args) ==
  (IF args = << >> THEN cat_fd("0")
   ELSE For(Len(args), LAMBDA i : <<Opens("fd", <<args[i]>>, O_RDONLY)>> \o cat_fd("fd") \o <<close("fd")>>))
  \o <<exit(0)>>

\* The counts are local to the program.
wc_fd(fd) == <<read(fd, 2), while("r", Some, <<read(fd, 2)>>), Must(add("r", 0), Zero)>>

wc(args) ==
  (IF args = << >> THEN wc_fd("0")
   ELSE For(Len(args), LAMBDA i : <<Opens("fd", <<args[i]>>, O_RDONLY)>> \o wc_fd("fd") \o <<close("fd")>>))
  \o <<exit(0)>>

ln(args) == (IF Len(args) # 2 THEN <<exit(1)>> ELSE <<link(<<args[1]>>, <<args[2]>>)>>) \o <<exit(0)>>

\* rm and mkdir stop at the first argument that fails.
UntilFails(args, Op(_)) ==
  (IF args = << >> THEN <<exit(1)>>
   ELSE Unrolled(LAMBDA a, rest : <<Op(<<a>>), if("r", Zero, rest)>>, args, << >>))
  \o <<exit(0)>>
rm(args) == UntilFails(args, unlink)
mkdir_main(args) == UntilFails(args, mkdir)

zombie == <<fork("pid", <<exit(0)>>), if("pid", Some, <<pause>>), exit(0)>>

\* An orphaned file and an orphaned directory: open, and not in the tree.
forphan ==
  <<Opens("fd", <<"file0">>, CW), Must(fstat("st", "fd"), Ok), Works(unlink(<<"file0">>)),
    NotOpen(<<"file0">>, O_RDONLY), forever(<<pause>>)>>

dorphan ==
  <<Works(mkdir(<<"dd">>)), Works(chdir(<<"dd">>)), Works(unlink(<<"..", "dd">>)), forever(<<pause>>)>>

pong == <<read("a0", 5), write("b1", <<"pong">>), exit(0)>>
ping == <<write("a1", <<"ping">>), read("b0", 5), exit(0)>>
pingpong == <<pipe2("a0", "a1"), pipe2("b0", "b1"), fork("pid", pong)>> \o ping

\* Every process but the last forks one more and works on its own file.
stressfs ==
  LET path == <<"stressfs0", "stressfs1", "stressfs2", "stressfs3", "stressfs4">>
      Work(i) == <<open("fd", <<path[i + 1]>>, CRW)>> \o Repeat(Few, <<write("fd", <<"a">>)>>)
                 \o <<close("fd"), open("fd", <<path[i + 1]>>, O_RDONLY)>> \o Repeat(Few, <<read("fd", 1)>>)
                 \o <<close("fd"), wait0, exit(0)>>
  IN Unrolled(LAMBDA i, rest : <<forkon("pid"), when("pid", Some, Work(i), rest)>>, <<0, 1>>, Work(2))

logstress(files) ==
  For(Len(files), LAMBDA i :
    <<Forks("pid1", <<Opens("fd", <<files[i]>>, CRW)>> \o Repeat(Few, <<Must(write("fd", <<files[i]>>), Is(1))>>)
                    \o <<exit(0)>>)>>)
  \o Repeat(Len(files), <<wait("xstatus", Whatever), if("xstatus", NonZero, <<exitv("xstatus")>>)>>)
  \o <<exit(0)>>

\* Mutant: one child is left over.
WaitAllButOne(n) == Repeat(IF n = 0 THEN 0 ELSE n - 1, <<Must(wait0, Some)>>) \o <<Refused(wait0), exit(0)>>

\* As many children as there are, and no more.
WaitAll(n) == Repeat(n, <<Must(wait0, Some)>>) \o <<Refused(wait0), exit(0)>>

\* Children until fork fails; N is more than the process table holds.
ForkAll(N, none) ==
  Unrolled(LAMBDA n, rest :
             <<fork("pid", <<exit(0)>>), when("pid", Fail, IF n = 0 THEN none ELSE WaitAll(n), rest)>>,
           [n \in 1 .. N |-> n - 1], <<failed>>)

forktest_main(N) == ForkAll(N, WaitAll(0))

\* init starts the shell and reaps whatever is left to it, and starts the shell
\* again when that exits: boots times in the model.
init_reaps(after) ==
  <<add("on", 1),
    while("on", Is(1), <<wait("st", Whatever), if("r", Fail, <<exit(1)>>), equal("r", "pid"),
                       if("r", Is(1), <<add("on", -1)>>)>>)>> \o after
init(sh, boots) ==
  <<open("fd", <<"console">>, O_RDWR), if("fd", Fail, <<mknod(<<"console">>), open("fd", <<"console">>, O_RDWR)>>),
    dup("r", "0"), dup("r", "0")>>
  \o Unrolled(LAMBDA k, rest : <<Forks("pid", <<exec(<<"sh">>, sh), exit(1)>>)>> \o init_reaps(rest),
              [k \in 1 .. boots |-> k], <<forever(<<reap>>)>>)
-----------------------------------------------------------------------------
\* user/sh.c without the parser (module ShellParse): what the shell and its
\* children do with the command tree of a line.

\* Command trees, as the constructors build them.
execcmd(argv) == [type |-> "EXEC", dir |-> << >>, argv |-> argv]
slashcmd(argv) == [type |-> "EXEC", dir |-> <<"/">>, argv |-> argv]
redircmd(cmd, file, mode, fd) == [type |-> "REDIR", cmd |-> cmd, file |-> file, mode |-> mode, fd |-> fd]
pipecmd(left, right) == [type |-> "PIPE", left |-> left, right |-> right]
listcmd(left, right) == [type |-> "LIST", left |-> left, right |-> right]
backcmd(cmd) == [type |-> "BACK", cmd |-> cmd]

\* fork, or panic.
fork1(v, child) == Forks(v, child)

\* What is in the program file of the name.
Program(argv) ==
  LET args == SubSeq(argv, 2, Len(argv))
  IN CASE argv[1] = "echo" -> echo([i \in DOMAIN args |-> <<args[i]>>])
       [] argv[1] = "cat" -> cat(args)
       [] argv[1] = "wc" -> wc(args)
       [] argv[1] = "rm" -> rm(args)
       [] argv[1] = "mkdir" -> mkdir_main(args)
       [] argv[1] = "ln" -> ln(args)
       [] argv[1] = "zombie" -> zombie
       [] OTHER -> << >>

\* Mutant: the second command does not wait for the first.
SequelAtOnce(left, right) == <<fork1("r", left)>> \o right

\* left ; right
Sequel(left, right) == <<fork1("r", left), wait0>> \o right

\* Mutant: the parent keeps the write end.
PipedOpen(left, right) ==
  <<Works(pipe2("p0", "p1")),
    fork1("r", <<close("1"), dup("r", "p1"), close("p0"), close("p1")>> \o left),
    fork1("r", <<close("0"), dup("r", "p0"), close("p0"), close("p1")>> \o right),
    close("p0"), wait0, wait0, exit(0)>>

\* left | right
Piped(left, right) ==
  <<Works(pipe2("p0", "p1")),
    fork1("r", <<close("1"), dup("r", "p1"), close("p0"), close("p1")>> \o left),
    fork1("r", <<close("0"), dup("r", "p0"), close("p0"), close("p1")>> \o right),
    close("p0"), close("p1"), wait0, wait0, exit(0)>>

\* A program that cannot be started is reported, and the child exits with 0.
RECURSIVE runcmd(_)
runcmd(cmd) ==
  CASE cmd.type = "EXEC" ->
         IF cmd.argv = << >> THEN <<exit(1)>>
         ELSE <<exec(cmd.dir \o <<cmd.argv[1]>>, Program(cmd.argv)), exit(0)>>
    [] cmd.type = "REDIR" ->
         <<close(cmd.fd), Opens("r", <<cmd.file>>, cmd.mode)>> \o runcmd(cmd.cmd)
    [] cmd.type = "LIST" -> Sequel(runcmd(cmd.left), runcmd(cmd.right))
    [] cmd.type = "PIPE" -> Piped(runcmd(cmd.left), runcmd(cmd.right))
    [] cmd.type = "BACK" -> <<fork1("r", runcmd(cmd.cmd)), exit(0)>>

\* The prompt is where a line is asked for; "cd" is done by the shell itself.
prompt == Into("prompt", write("2", <<"$ ">>))

Command(line) ==
  CASE line.type = "blank" -> << >>
    [] line.type = "cd" -> <<chdir(<<line.dir>>)>>
    [] OTHER -> <<fork1("r", runcmd(line)), wait0>>

\* Three descriptors are open; a line at a time until the input ends.
sh(lines) ==
  <<open("fd", <<"console">>, O_RDWR), while("fd", Within(0, 2), <<open("fd", <<"console">>, O_RDWR)>>),
    if("fd", Ok, <<close("fd")>>)>>
  \o For(Len(lines), LAMBDA i : <<prompt>> \o Command(lines[i])) \o <<prompt, exit(0)>>
=============================================================================
