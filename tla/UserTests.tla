----------------------------- MODULE UserTests ------------------------------
(***************************************************************************)
(* The tests of user/usertests.c as scripts.  A Must is a test's            *)
(* "if(...) { printf(...); exit(1); }".  Counts of repetitions are the      *)
(* constant Few; a written block is a symbol.  Addresses are small numbers; *)
(* Kernel says which of them a process has.                                 *)
(***************************************************************************)
EXTENDS Commands

\* Pointers no process has: the kernel's memory, the trampoline and beyond.
Bad == <<5000, 6000, 7000, 8000, 9000>>

copyin ==
  For(Len(Bad), LAMBDA i :
    <<Opens("fd", <<"copyin1">>, CW), Refused(At(write("fd", <<"a">>), "zero", Bad[i], 2)),
      close("fd"), unlink(<<"copyin1">>),
      Must(At(write("1", <<"a">>), "zero", Bad[i], 2), Within(-1, 0)),
      Works(pipe2("p0", "p1")), Must(At(write("p1", <<"a">>), "zero", Bad[i], 2), Within(-1, 0)),
      close("p0"), close("p1")>>)

\* Address 0 is mapped, but read-only.
copyout ==
  LET addrs == <<0>> \o Bad
  IN For(Len(addrs), LAMBDA i :
       <<Opens("fd", <<"README">>, O_RDONLY), Must(At(read("fd", 2), "zero", addrs[i], 2), Within(-1, 0)),
         close("fd"),
         Works(pipe2("p0", "p1")), Must(write("p1", <<"x">>), Is(1)),
         Must(At(read("p0", 2), "zero", addrs[i], 2), Within(-1, 0)),
         close("p0"), close("p1")>>)

copyinstr1 == For(Len(Bad), LAMBDA i : <<Refused(At(open("fd", <<"x">>, CW), "zero", Bad[i], 1))>>)

\* A string as long as the kernel's buffer, and exec arguments too big for a page.
copyinstr2 ==
  LET Long(c) == At(c, "zero", 0, 10000)
  IN <<Refused(Long(unlink(<<"b">>))), Refused(Long(open("fd", <<"b">>, CW))),
       Refused(Long(link(<<"b">>, <<"b">>))), Refused(Long(exec(<<"b">>, << >>))),
       Must(fork("pid", <<Refused(Long(exec(<<"echo">>, << >>))), exit(747)>>), Some),
       wait("st", Is(747))>>

\* A string that runs over the end of the last page.
copyinstr3 ==
  LET Over(c) == Refused(At(c, "top", -1, 2))
  IN <<sbrk("r", 2 * PGSIZE), sbrk("top", 0), store("top", -1, "x"),
       Over(unlink(<<"x">>)), Over(open("fd", <<"x">>, CW)), Over(link(<<"x">>, <<"x">>)),
       Over(exec(<<"x">>, << >>))>>

rwsbrk ==
  <<Must(sbrk("a", 2 * PGSIZE), Ok), Must(sbrk("r", -2 * PGSIZE), Ok),
    Opens("fd", <<"rwsbrk">>, CW), Refused(At(write("fd", <<"a">>), "a", PGSIZE, 1)), close("fd"),
    unlink(<<"rwsbrk">>),
    Opens("fd", <<"README">>, O_RDONLY), Refused(At(read("fd", 1), "a", PGSIZE, 1)), close("fd"),
    exit(0)>>

truncate1 ==
  LET tf == <<"truncfile">>
  IN <<unlink(tf), open("fd1", tf, O_TRUNC(CW)), write("fd1", <<"a", "b", "c", "d">>), close("fd1"),
       open("fd2", tf, O_RDONLY), Must(read("fd2", 32), Is(4)),
       open("fd1", tf, O_TRUNC(O_WRONLY)),
       open("fd3", tf, O_RDONLY), Must(read("fd3", 32), Is(0)), Must(read("fd2", 32), Is(0)),
       write("fd1", <<"a", "b", "c", "d", "e", "f">>),
       Must(read("fd3", 32), Is(6)), Must(read("fd2", 32), Is(2)),
       unlink(tf), close("fd1"), close("fd2"), close("fd3")>>

truncate2 ==
  LET tf == <<"truncfile">>
  IN <<unlink(tf), open("fd1", tf, O_TRUNC(CW)), write("fd1", <<"a", "b">>),
       open("fd2", tf, O_TRUNC(O_WRONLY)), Refused(write("fd1", <<"x">>)),
       unlink(tf), close("fd1"), close("fd2")>>

\* The child writes through a descriptor opened afresh while the parent truncates.
truncate3 ==
  LET tf == <<"truncfile">>
      child == Repeat(Few, <<Opens("fd", tf, O_WRONLY), Must(write("fd", <<"1", "2">>), Is(2)), close("fd"),
                             open("fd", tf, O_RDONLY), read("fd", 32), close("fd")>>) \o <<exit(0)>>
  IN <<open("fd", tf, O_TRUNC(CW)), close("fd"), Must(fork("pid", child), Some)>>
     \o Repeat(Few, <<Opens("fd", tf, O_TRUNC(CW)), Must(write("fd", <<"x">>), Is(1)), close("fd")>>)
     \o <<wait("xstatus", Whatever), unlink(tf), exitv("xstatus")>>

iputtest ==
  <<Works(mkdir(<<"iputdir">>)), Works(chdir(<<"iputdir">>)), Works(unlink(<<"..", "iputdir">>)),
    Works(chdir(<<"/">>))>>

exitiputtest ==
  <<Must(fork("pid", <<Works(mkdir(<<"iputdir">>)), Works(chdir(<<"iputdir">>)),
                       Works(unlink(<<"..", "iputdir">>)), exit(0)>>), Some),
    wait("xstatus", Whatever), exitv("xstatus")>>

openiputtest ==
  <<Works(mkdir(<<"oidir">>)), Must(fork("pid", <<NotOpen(<<"oidir">>, O_RDWR), exit(0)>>), Some),
    pause, Works(unlink(<<"oidir">>)), wait("xstatus", Whatever), exitv("xstatus")>>

opentest == <<Opens("fd", <<"echo">>, O_RDONLY), close("fd"), NotOpen(<<"doesnotexist">>, O_RDONLY)>>

writetest ==
  <<Opens("fd", <<"small">>, CRW)>>
  \o Repeat(Few, <<Must(write("fd", <<"a">>), Is(1)), Must(write("fd", <<"b">>), Is(1))>>)
  \o <<close("fd"), Opens("fd", <<"small">>, O_RDONLY), Must(read("fd", 2 * Few), Is(2 * Few)),
       close("fd"), Works(unlink(<<"small">>))>>

Digit == <<"0", "1", "2", "3", "4", "5">>

writebig ==
  <<Opens("fd", <<"big">>, CRW)>> \o For(Few, LAMBDA i : <<Must(write("fd", <<Digit[i]>>), Is(1))>>)
  \o <<close("fd"), Opens("fd", <<"big">>, O_RDONLY)>>
  \o For(Few, LAMBDA i : <<Must(read("fd", 1), Is(1)), holds(<<Digit[i]>>)>>)
  \o <<Works(read("fd", 1)), close("fd"), Works(unlink(<<"big">>))>>

Name(c, i) == CASE c = "a" -> <<"a1", "a2", "a3">>[i] [] c = "p" -> <<"p1", "p2", "p3">>[i]
                [] c = "q" -> <<"q1", "q2", "q3">>[i] [] c = "C" -> <<"C0", "C1", "C2", "C3">>[i]
                [] c = "x" -> <<"x1", "x2", "x3">>[i] [] c = "z" -> <<"z1", "z2", "z3">>[i]

createtest ==
  For(3, LAMBDA i : <<open("fd", <<Name("a", i)>>, CRW), close("fd")>>)
  \o For(3, LAMBDA i : <<unlink(<<Name("a", i)>>)>>)

dirtest ==
  <<Works(mkdir(<<"dir0">>)), Works(chdir(<<"dir0">>)), Works(chdir(<<"..">>)), Works(unlink(<<"dir0">>))>>

exectest ==
  <<unlink(<<"echo-ok">>),
    Must(fork("pid", <<close("1"), Must(open("fd", <<"echo-ok">>, CW), Is(1)),
                       Must(exec(<<"echo">>, echo(<<<<"O", "K">>>>)), Ok)>>), Some),
    wait("xstatus", Zero),
    Opens("fd", <<"echo-ok">>, O_RDONLY), Must(read("fd", 2), Is(2)), unlink(<<"echo-ok">>),
    holds(<<"O", "K">>), exit(0)>>
-----------------------------------------------------------------------------
\* The writer's numbers; the reader asks for more each time.  A wrong number
\* ends the test with a message and a return, as if it had passed.
pipe1 ==
  LET seq == <<"0", "1", "2", "3", "4", "5">>
      child == <<close("p0"), Must(write("p1", SubSeq(seq, 1, 3)), Is(3)), Must(write("p1", SubSeq(seq, 4, 6)), Is(3)), exit(0)>>
  IN <<Works(pipe2("p0", "p1")), Forks("pid", child), close("p1")>>
     \o Unrolled(LAMBDA cc, rest :
                   <<Into("n", readmore("p0", cc)),
                     if("n", Some, <<begins(seq), when("r", Is(1), rest, <<exit(0)>>)>>)>>,
                 <<1, 2, 4, 4, 4, 4, 4>>, << >>)
     \o <<holds(seq), close("p0"), wait0, exitv("xstatus")>>

killstatus ==
  Repeat(Few, <<Forks("pid1", <<forever(<<getpid("r")>>)>>), pause, kill("pid1"), wait("xst", Fail)>>) \o <<exit(0)>>

preempt ==
  <<Forks("pid1", <<spin>>), Forks("pid2", <<spin>>), pipe2("p0", "p1"),
    Forks("pid3", <<close("p0"), write("p1", <<"x">>), close("p1"), spin>>),
    close("p1"), read("p0", 9), if("r", Within(-1, 0), <<exit(0)>>), close("p0"),
    kill("pid1"), kill("pid2"), kill("pid3"), wait0, wait0, wait0>>

exitwait == For(Few, LAMBDA i : <<Forks("pid", <<exit(i)>>), wait("xstate", Is(i)), same("r", "pid")>>)

reparent ==
  <<getpid("master_pid")>>
  \o Repeat(Few, <<Forks("pid", <<fork("pid2", <<exit(0)>>), if("pid2", Fail, <<kill("master_pid"), failed>>), exit(0)>>),
                   wait0, same("r", "pid")>>)
  \o <<exit(0)>>

twochildren == Repeat(Few, <<Forks("pid1", <<exit(0)>>), Forks("pid2", <<exit(0)>>), wait0, wait0>>)

forkfork ==
  Repeat(2, <<Forks("pid", Repeat(Few, <<Forks("pid1", <<exit(0)>>), wait0>>) \o <<exit(0)>>)>>)
  \o Repeat(2, <<wait("xstatus", Zero)>>)

\* Every process forks on until one finds the file.
forkforkfork ==
  LET stop == <<"stopforking">>
      Stop == <<open("r", stop, CRW), close("r")>>
  IN <<unlink(stop),
       Forks("pid", <<forever(<<open("fd", stop, O_RDONLY), if("fd", Ok, <<exit(0)>>),
                                forkon("f"), if("f", Fail, Stop)>>)>>),
       pause>> \o Stop \o <<wait0, pause>>

\* One round: each leaves three processes to init.
reparent2 == <<Forks("pid1", <<forkon("r"), forkon("r"), exit(0)>>), wait0, exit(0)>>

\* More forks than there are slots.
forktest == ForkAll(NPROC + 1, <<failed>>)

\* Two writers at one offset: what is counted is the symbols of each.
sharedfd ==
  LET Writes(c) == Repeat(Few, <<Must(write("fd", <<c>>), Is(1))>>)
      Count(s, c) == Cardinality({i \in DOMAIN s : s[i] = c})
  IN <<unlink(<<"sharedfd">>), Opens("fd", <<"sharedfd">>, CRW), fork("pid", Writes("c") \o <<exit(0)>>)>>
     \o Writes("p")
     \o <<wait0, if("xstatus", NonZero, <<exitv("xstatus")>>), close("fd"),
          Opens("fd", <<"sharedfd">>, O_RDONLY), read("fd", 4 * Few), close("fd"), unlink(<<"sharedfd">>),
          holdsOne({s \in [1 .. 2 * Few -> {"c", "p"}] : Count(s, "c") = Few}), exit(0)>>

\* Children that write files of their own at the same time.
fourfiles ==
  LET NCHILD == 2
      f(i) == <<"f" \o ToString(i)>>
      d(i) == ToString(i)
      child(i) == <<Opens("fd", f(i), CRW)>> \o Repeat(Few, <<Must(write("fd", <<d(i)>>), Is(1))>>) \o <<exit(0)>>
  IN For(NCHILD, LAMBDA i : <<unlink(f(i)), Forks("pid", child(i))>>)
     \o Repeat(NCHILD, <<wait0, if("xstatus", NonZero, <<exitv("xstatus")>>)>>)
     \o For(NCHILD, LAMBDA i : <<open("fd", f(i), O_RDONLY), read("fd", 9), holds([k \in 1 .. Few |-> d(i)]),
                                 close("fd"), unlink(f(i))>>)

\* Of the names 0 .. N-1 each child removes 1 .. N/2-1 again.
createdelete ==
  LET N == 4
      NCHILD == 2
      name(pi, i) == <<(<<"p", "q">>[pi]) \o ToString(i)>>
      child(pi) == For(N, LAMBDA k : <<Opens("fd", name(pi, k - 1), CRW), close("fd")>>
                                     \o IF k > 1 /\ (k - 1) % 2 = 0 THEN <<Works(unlink(name(pi, (k - 1) \div 2)))>> ELSE << >>)
                   \o <<exit(0)>>
      Both(Do(_, _)) == For(N, LAMBDA k : For(NCHILD, LAMBDA pi : Do(pi, k - 1)))
  IN For(NCHILD, LAMBDA pi : <<Forks("pid", child(pi))>>)
     \o Repeat(NCHILD, <<wait("xstatus", Zero)>>)
     \o Both(LAMBDA pi, i : IF i = 0 \/ i >= N \div 2 THEN <<Opens("fd", name(pi, i), O_RDONLY), close("fd")>>
                            ELSE <<NotOpen(name(pi, i), O_RDONLY)>>)
     \o Both(LAMBDA pi, i : <<unlink(name(pi, i))>>)

manywrites ==
  LET nchildren == 2
      child(ci) == LET name == <<"b" \o ToString(ci)>>
                   IN <<unlink(name)>>
                      \o Repeat(Few, Repeat(ci, <<Opens("fd", name, CRW), Must(write("fd", <<"b">>), Is(1)), close("fd")>>)
                                     \o <<unlink(name)>>)
                      \o <<unlink(name), exit(0)>>
  IN For(nchildren, LAMBDA ci : <<Forks("pid", child(ci))>>)
     \o Repeat(nchildren, <<wait("st", Whatever), if("st", NonZero, <<exitv("st")>>)>>) \o <<exit(0)>>
-----------------------------------------------------------------------------
unlinkread ==
  LET f == <<"unlinkread">>
  IN <<Opens("fd", f, CRW), write("fd", <<"h", "e">>), close("fd"), Opens("fd", f, O_RDWR), Works(unlink(f)),
       open("fd1", f, CRW), write("fd1", <<"y">>), close("fd1"),
       Must(read("fd", 9), Is(2)), holds(<<"h", "e">>), Must(write("fd", <<"h", "e", "y">>), Is(3)), close("fd"), unlink(f)>>

linktest ==
  LET lf1 == <<"lf1">>
      lf2 == <<"lf2">>
  IN <<unlink(lf1), unlink(lf2), Opens("fd", lf1, CRW), Must(write("fd", <<"h", "e">>), Is(2)), close("fd"),
       Works(link(lf1, lf2)), unlink(lf1), NotOpen(lf1, O_RDONLY),
       Opens("fd", lf2, O_RDONLY), Must(read("fd", 9), Is(2)), close("fd"),
       Refused(link(lf2, lf2)), unlink(lf2), Refused(link(lf2, lf1)), Refused(link(<<".">>, lf1))>>

\* Parent and child create or link the same name at the same time.
concreate ==
  LET N == 5
      file(k) == <<"C" \o ToString(k - 1)>>
      Links(k) == <<link(file(1), file(k))>>
      Makes(k) == <<Opens("fd", file(k), CRW), close("fd")>>
      parent(k) == IF (k - 1) % 3 = 1 THEN Links(k) ELSE Makes(k)
      child(k) == IF (k - 1) % 5 = 1 THEN Links(k) ELSE Makes(k)
      Looks(k) == Repeat(Few, <<open("r", file(k), O_RDONLY), close("r")>>)
      Drops(k) == Repeat(Few, <<unlink(file(k))>>)
  IN For(N, LAMBDA k : <<unlink(file(k)), fork("pid", child(k) \o <<exit(0)>>)>> \o parent(k) \o <<wait("xstatus", Zero)>>)
     \o <<open("fd", <<".">>, O_RDONLY), Must(entries("fd", {file(k)[1] : k \in 1 .. N}), Is(N)), close("fd")>>
     \o For(N, LAMBDA k : <<Forks("pid", (IF (k - 1) % 3 = 0 THEN Looks(k) ELSE Drops(k)) \o <<exit(0)>>)>>
                          \o (IF (k - 1) % 3 = 1 THEN Looks(k) ELSE Drops(k)) \o <<wait0>>)

linkunlink ==
  LET x == <<"x">>
      work == Repeat(Few, <<oneof(<<<<open("r", x, CRW), close("r")>>, <<link(<<"cat">>, x)>>, <<unlink(x)>>>>)>>)
  IN <<unlink(x), Forks("pid", work \o <<exit(0)>>)>> \o work \o <<wait0>>

subdir ==
  LET dd == <<"dd">>
      Not(c) == Must(c, Fail)
  IN <<unlink(<<"ff">>), Works(mkdir(dd)), Opens("fd", <<"dd", "ff">>, CRW), write("fd", <<"f", "f">>), close("fd"),
       Not(unlink(dd)), Works(mkdir(<<"/", "dd", "dd">>)),
       Opens("fd", <<"dd", "dd", "ff">>, CRW), write("fd", <<"F", "F">>), close("fd"),
       Opens("fd", <<"dd", "dd", "..", "ff">>, O_RDONLY), Must(read("fd", 9), Is(2)), holds(<<"f", "f">>), close("fd"),
       Works(link(<<"dd", "dd", "ff">>, <<"dd", "dd", "ffff">>)), Works(unlink(<<"dd", "dd", "ff">>)),
       NotOpen(<<"dd", "dd", "ff">>, O_RDONLY),
       Works(chdir(dd)), Works(chdir(<<"dd", "..", "..", "dd">>)), Works(chdir(<<"dd", "..", "..", "..", "dd">>)),
       Works(chdir(<<".", "..">>)),
       Opens("fd", <<"dd", "dd", "ffff">>, O_RDONLY), Must(read("fd", 9), Is(2)), close("fd"),
       NotOpen(<<"dd", "dd", "ff">>, O_RDONLY),
       NotOpen(<<"dd", "ff", "ff">>, CRW), NotOpen(<<"dd", "xx", "ff">>, CRW),
       NotOpen(dd, Create), NotOpen(dd, O_RDWR), NotOpen(dd, O_WRONLY),
       Not(link(<<"dd", "ff", "ff">>, <<"dd", "dd", "xx">>)), Not(link(<<"dd", "xx", "ff">>, <<"dd", "dd", "xx">>)),
       Not(link(<<"dd", "ff">>, <<"dd", "dd", "ffff">>)),
       Not(mkdir(<<"dd", "ff", "ff">>)), Not(mkdir(<<"dd", "xx", "ff">>)), Not(mkdir(<<"dd", "dd", "ffff">>)),
       Not(unlink(<<"dd", "xx", "ff">>)), Not(unlink(<<"dd", "ff", "ff">>)),
       Not(chdir(<<"dd", "ff">>)), Not(chdir(<<"dd", "xx">>)),
       Works(unlink(<<"dd", "dd", "ffff">>)), Works(unlink(<<"dd", "ff">>)), Not(unlink(dd)),
       Works(unlink(<<"dd", "dd">>)), Works(unlink(dd))>>

bigwrite ==
  LET f == <<"bigwrite">>
  IN <<unlink(f)>>
     \o For(Few, LAMBDA sz : <<Opens("fd", f, CRW)>> \o Repeat(2, <<Must(write("fd", [k \in 1 .. sz |-> "b"]), Is(sz))>>)
                             \o <<close("fd"), unlink(f)>>)

\* What is written two blocks at a time is read one at a time.
bigfile ==
  LET f == <<"bigfile.dat">>
  IN <<unlink(f), Opens("fd", f, CRW)>>
     \o For(Few, LAMBDA i : <<Must(write("fd", <<ToString(i), ToString(i)>>), Is(2))>>)
     \o <<close("fd"), Opens("fd", f, O_RDONLY)>>
     \o For(2 * Few, LAMBDA i : <<Must(read("fd", 1), Is(1)), holds(<<ToString((i + 1) \div 2)>>)>>)
     \o <<Works(read("fd", 1)), close("fd"), unlink(f)>>

fourteen ==
  LET n14 == "12345678901234"
      n15 == "123456789012345"
  IN <<Works(mkdir(<<n14>>)), Works(mkdir(<<n14, n15>>)), Opens("fd", <<n15, n15, n15>>, Create), close("fd"),
       Opens("fd", <<n14, n14, n14>>, O_RDONLY), close("fd"),
       Refused(mkdir(<<n14, n14>>)), Refused(mkdir(<<n15, n14>>)),
       unlink(<<n15, n14>>), unlink(<<n14, n14>>), unlink(<<n14, n14, n14>>), unlink(<<n15, n15, n15>>),
       unlink(<<n14, n15>>), unlink(<<n14>>)>>

rmdot ==
  <<Works(mkdir(<<"dots">>)), Works(chdir(<<"dots">>)), Refused(unlink(<<".">>)), Refused(unlink(<<"..">>)),
    Works(chdir(<<"/">>)), Refused(unlink(<<"dots", ".">>)), Refused(unlink(<<"dots", "..">>)), Works(unlink(<<"dots">>))>>

dirfile ==
  LET xx == <<"dirfile", "xx">>
  IN <<Opens("fd", <<"dirfile">>, Create), close("fd"), Refused(chdir(<<"dirfile">>)),
       NotOpen(xx, O_RDONLY), NotOpen(xx, Create), Refused(mkdir(xx)), Refused(unlink(xx)), Refused(link(<<"README">>, xx)),
       Works(unlink(<<"dirfile">>)), NotOpen(<<".">>, O_RDWR),
       open("fd", <<".">>, O_RDONLY), Must(write("fd", <<"x">>), Within(-1, 0)), close("fd")>>

\* Names may be empty; the directories nest.
iref ==
  Repeat(Few + 1, <<Works(mkdir(<<"irefd">>)), Works(chdir(<<"irefd">>)), mkdir(<< >>), link(<<"README">>, << >>),
                    open("fd", << >>, Create), if("fd", Ok, <<close("fd")>>),
                    open("fd", <<"xx">>, Create), if("fd", Ok, <<close("fd")>>), unlink(<<"xx">>)>>)
  \o Repeat(Few + 1, <<chdir(<<"..">>), unlink(<<"irefd">>)>>) \o <<chdir(<<"/">>)>>

bigdir ==
  LET name(i) == <<"x" \o ToString(i)>>
  IN <<unlink(<<"bd">>), Opens("fd", <<"bd">>, Create), close("fd")>>
     \o For(3, LAMBDA i : <<Works(link(<<"bd">>, name(i)))>>) \o <<unlink(<<"bd">>)>>
     \o For(3, LAMBDA i : <<Works(unlink(name(i)))>>)

\* Blocks taken by writes that fail would use up the disk.
badwrite ==
  LET junk == <<"junk">>
  IN <<unlink(junk)>>
     \o Repeat(FSSIZE + 1, <<Opens("fd", junk, CW), At(write("fd", <<"x">>), "zero", 9000, 1), close("fd"), unlink(junk)>>)
     \o <<Opens("fd", junk, CW), Must(write("fd", <<"x">>), Is(1)), close("fd"), unlink(junk), exit(0)>>

zz(i) == <<"zz" \o ToString(i)>>
FillsInodes(nzz) ==
  Unrolled(LAMBDA i, rest : <<unlink(zz(i)), open("fd", zz(i), O_TRUNC(CRW)), if("fd", Ok, <<close("fd")>> \o rest)>>,
           [i \in 1 .. nzz |-> i], << >>)

\* Files of MAXFILE blocks until a write fails, then names until one fails.
diskfull ==
  LET MAXFILE == 5
      big(i) == <<"big" \o ToString(i)>>
      Fills(rest) ==
        Unrolled(LAMBDA k, more : <<write("fd", <<"b">>), when("r", Is(1), more, <<close("fd"), close("fd")>>)>>,
                 [k \in 1 .. MAXFILE |-> k], <<close("fd")>> \o rest)
  IN <<unlink(<<"diskfulldir">>)>>
     \o Unrolled(LAMBDA i, rest : <<unlink(big(i)), open("fd", big(i), O_TRUNC(CRW)), if("fd", Ok, Fills(rest))>>,
                 <<1, 2, 3, 4>>, << >>)
     \o FillsInodes(3) \o <<mkdir(<<"diskfulldir">>), unlink(<<"diskfulldir">>)>>
     \o For(3, LAMBDA i : <<unlink(zz(i))>>) \o For(4, LAMBDA i : <<unlink(big(i))>>)

outofinodes == FillsInodes(12) \o For(12, LAMBDA i : <<unlink(zz(i))>>)
-----------------------------------------------------------------------------
\* Addresses of the kernel and beyond; a request larger than the machine; a large one.
Beyond == <<5000, 7000, 9000>>
TOOMUCH == 1000
BIG == 10 * PGSIZE
Big(c) == At(c, "zero", 0, 10000)
Wild(c) == At(c, "zero", 9000, 1)
\* A child that touches what it may not is killed.
DiesOf(touch) == <<Forks("pid", <<touch, failed>>), wait("xstatus", Fail)>>

sbrkbasic ==
  <<Forks("pid", <<sbrk("a", TOOMUCH), if("a", Fail, <<exit(0)>>), store("a", TOOMUCH - PGSIZE, "99"), failed>>),
    wait("xstatus", Within(-1, 0)), sbrk("a", 0)>>
  \o For(PGSIZE + 1, LAMBDA i : <<sbrk("b", 1), at("b", "a", i - 1), store("b", 0, "1")>>)
  \o <<Must(forkon("pid"), Ok), sbrk("c", 1), sbrk("c", 1), at("c", "a", PGSIZE + 2), if("pid", Zero, <<exit(0)>>),
       wait0, exitv("xstatus")>>

sbrkmuch ==
  <<sbrk("oldbrk", 0), sbrk("a", 0), brk("p", "zero", BIG), same("p", "a"), store("zero", BIG - 1, "99"),
    sbrk("a", 0), Must(sbrk("c", -PGSIZE), Ok), sbrk("c", 0), at("c", "a", -PGSIZE),
    sbrk("a", 0), sbrk("c", PGSIZE), same("c", "a"), sbrk("c", 0), at("c", "a", PGSIZE),
    load("zero", BIG - 1, {"0"}),
    sbrk("a", 0), brk("c", "oldbrk", 0), same("c", "a")>>

kernmem == For(Len(Beyond), LAMBDA i : DiesOf(load("zero", Beyond[i], {})))
MAXVAplus == For(Len(Beyond), LAMBDA i : DiesOf(store("zero", Beyond[i], "99")))

\* Children take memory until there is none: the one that fails keeps none.
sbrkfail ==
  LET child == <<brk("r", "zero", BIG), when("r", Fail, <<write("p1", <<"0">>)>>, <<write("p1", <<"1">>)>>), forever(<<pause>>)>>
      pids == <<"pid1", "pid2", "pid3">>
  IN <<Works(pipe2("p0", "p1"))>>
     \o For(Len(pids), LAMBDA i : <<fork(pids[i], child), if(pids[i], Some, <<read("p0", 1)>>)>>)
     \o <<sbrk("c", PGSIZE)>>
     \o For(Len(pids), LAMBDA i : <<if(pids[i], Some, <<kill(pids[i]), wait0>>)>>)
     \o <<Must(add("c", 0), Ok), Forks("pid", <<sbrk("a", 10 * BIG), if("a", Fail, <<exit(0)>>), failed>>),
          wait("xstatus", Zero)>>

sbrkarg ==
  <<sbrk("a", PGSIZE), open("fd", <<"sbrk">>, CW), unlink(<<"sbrk">>), Must(add("fd", 0), Ok),
    Must(At(write("fd", <<"m">>), "a", 0, PGSIZE), Ok), close("fd"),
    sbrk("a", PGSIZE), Works(At(pipe2("p0", "p1"), "a", 0, 2))>>

validatetest == For(Few, LAMBDA i : <<Refused(At(link(<<"nosuchfile">>, <<"p">>), "zero", i * PGSIZE, 1))>>)

bsstest == For(Few, LAMBDA i : <<load("zero", PGSIZE + i, {"0"})>>)

bigargtest ==
  <<unlink(<<"bigarg-ok">>),
    Forks("pid", <<Big(exec(<<"echo">>, << >>)), open("fd", <<"bigarg-ok">>, Create), close("fd"), exit(0)>>),
    wait0, if("xstatus", NonZero, <<exitv("xstatus")>>), Opens("fd", <<"bigarg-ok">>, O_RDONLY), close("fd")>>

\* A read of -1 bytes at the last address.
argptest == <<Opens("fd", <<"init">>, O_RDONLY), sbrk("top", 0), At(read("fd", 1), "top", -1, 10000), close("fd")>>

nowrite ==
  LET addrs == <<0>> \o Beyond
  IN For(Len(addrs), LAMBDA i : <<Forks("pid", <<store("zero", addrs[i], "10"), exit(0)>>), wait("xstatus", NonZero)>>)
     \o <<exit(0)>>

pgbug == <<Wild(exec(<<"x">>, << >>)), Wild(pipe2("p0", "p1")), exit(0)>>

\* No memory at all, a break in the first page, one inside a page.
sbrkbugs ==
  <<Forks("pid", <<brk("r", "zero", 0), load("zero", 0, {}), exit(0)>>), wait0,
    Forks("pid", <<brk("r", "zero", PGSIZE - 1), load("zero", 0, {"0"}), exit(0)>>), wait0,
    Forks("pid", <<brk("r", "zero", 2 * PGSIZE + 2), sbrk("r", -1), exit(0)>>), wait0, exit(0)>>

sbrklast ==
  <<sbrk("r", PGSIZE), sbrk("r", 1), sbrk("r", -2), sbrk("top", 0), store("top", -2, "x"),
    At(open("fd", <<"x">>, CRW), "top", -2, 2), At(write("fd", <<"x">>), "top", -2, 1), close("fd"),
    At(open("fd", <<"x">>, O_RDWR), "top", -2, 2), store("top", -2, "0"), At(read("fd", 1), "top", -2, 1), holds(<<"x">>)>>

\* The argument is a negative int.
sbrk8000 == <<sbrk("r", -10000), sbrk("top", 0), store("top", -1, "1")>>

badarg == Repeat(Few, <<Wild(exec(<<"echo">>, << >>))>>) \o <<exit(0)>>

lazy_alloc ==
  <<Must(sbrklazy("prev_end", TOOMUCH), Ok)>>
  \o For(Few, LAMBDA i : <<store("prev_end", i * PGSIZE, ToString(i))>>)
  \o For(Few, LAMBDA i : <<load("prev_end", i * PGSIZE, {ToString(i)})>>) \o <<exit(0)>>

lazy_unmap ==
  <<Must(sbrklazy("prev_end", TOOMUCH), Ok)>>
  \o For(Few, LAMBDA i : <<store("prev_end", i * PGSIZE, ToString(i))>>)
  \o For(Few, LAMBDA i : <<Forks("pid", <<sbrklazy("r", -TOOMUCH), store("prev_end", i * PGSIZE, "1"), exit(0)>>),
                           wait("status", NonZero)>>)
  \o <<exit(0)>>

lazy_copy ==
  <<sbrk("p", 0), sbrklazy("r", 4 * PGSIZE), At(open("r", << >>, O_RDONLY), "p", 2 * PGSIZE, 1),
    sbrk("xx", 0), brk("ret", "zero", -1), same("ret", "xx")>>
  \o For(Len(Beyond), LAMBDA i :
       <<Opens("fd", <<"README">>, O_RDONLY), Refused(At(read("fd", 1), "zero", Beyond[i], 1)), close("fd"),
         Opens("fd", <<"junk">>, O_TRUNC(CRW)), Refused(At(write("fd", <<"x">>), "zero", Beyond[i], 1)), close("fd")>>)
  \o <<exit(0)>>

\* exec when there is little memory, or none.
execout ==
  For(4, LAMBDA avail :
    <<Forks("pid", <<sbrk("a", PGSIZE), while("a", Ok, <<store("a", PGSIZE - 1, "1"), sbrk("a", PGSIZE)>>)>>
                   \o Repeat(avail - 1, <<sbrk("r", -PGSIZE)>>)
                   \o <<close("1"), exec(<<"echo">>, echo(<<<<"x">>>>)), exit(0)>>),
      wait0>>)
  \o <<exit(0)>>

\* countfree: the pages sbrk gives until it fails, counted in n and given back.
countfree(n) ==
  <<add(n, 0), sbrk("sz0", 0), sbrk("a", PGSIZE), while("a", Ok, <<add(n, 1), sbrk("a", PGSIZE)>>), brk("r", "sz0", 0)>>
=============================================================================
