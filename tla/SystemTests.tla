---------------------------- MODULE SystemTests -----------------------------
(***************************************************************************)
(* Test programs as scripts: user/cowtest.c (copy-on-write fork),           *)
(* user/testshm.c (shared memory segments), user/schedtest.c (the           *)
(* schedulers) and user/grind.c, two processes that do pseudo-random file   *)
(* and process operations next to each other.  What grind's numbers choose  *)
(* is oneof.                                                                *)
(***************************************************************************)
EXTENDS Commands

\* Pages first .. last from p on hold the value.
Fill(first, last, val) == For(last - first + 1, LAMBDA i : <<store("p", (first + i - 2) * PGSIZE, val)>>)
Filled(first, last, val) == For(last - first + 1, LAMBDA i : <<load("p", (first + i - 2) * PGSIZE, {val})>>)

\* More than half of the memory, and a fork that copies none of it.
simpletest ==
  LET sz == (PHYS \div 3) * 2
  IN <<Must(sbrk("p", sz), Ok)>> \o Fill(1, Few, "me")
     \o <<Forks("pid", <<exit(0)>>), wait0, Must(sbrk("r", -sz), Ok)>>

\* Three processes write the same pages, each its own copy.
threetest ==
  LET sz == PHYS \div 4
      second == Fill(1, Few, "pid2") \o Filled(1, Few, "pid2") \o <<exit(-1)>>
      first == <<Forks("pid2", second)>> \o Fill(1, 1, "9999") \o <<exit(0)>>
  IN <<Must(sbrk("p", sz), Ok), Forks("pid1", first)>> \o Fill(1, Few, "me") \o <<wait0, pause>>
     \o Filled(1, Few, "me") \o <<Must(sbrk("r", -sz), Ok)>>

\* A child's read goes to its own copy of buf, here its address PGSIZE.
filetest ==
  <<store("zero", PGSIZE, "99")>>
  \o For(Few, LAMBDA i :
       <<Works(pipe2("fds0", "fds1")),
         Forks("pid", <<pause, Must(read("fds0", 1), Is(1)), pause, holds(<<ToString(i)>>), exit(0)>>),
         Must(write("fds1", <<ToString(i)>>), Is(1))>>)
  \o Repeat(Few, <<wait("xstatus", Zero)>>) \o <<load("zero", PGSIZE, {"99"})>>

forkforktest(children) ==
  <<sbrk("p", 2 * PGSIZE)>> \o Fill(1, 2, "27")
  \o Repeat(children, <<fork("r", <<pause, forkon("r"), forkon("r"), exit(0)>>)>>)
  \o Repeat(children, <<wait("st", Whatever)>>)
  \o <<pause>> \o Filled(1, 2, "27")

\* threetest three times and three children in the code.
cowtest(times, children) ==
  simpletest \o simpletest \o Repeat(times, threetest) \o filetest \o forkforktest(children) \o <<exit(0)>>
-----------------------------------------------------------------------------
\* testshm: a child for each step.  get_shmaddr reports an error and goes on.
get_shmaddr(name, create, persist) == <<shmget(name, create, persist), if("r", Ok, <<shmat(name)>>)>>
InChild(child) == <<Forks("pid", child \o <<exit(0)>>), wait("status", Zero)>>

test_child_write ==
  InChild(get_shmaddr("seg", TRUE, TRUE) \o <<shmstore("seg", "data"), Works(shmdt("seg"))>>)
test_child_read_and_mark_delete ==
  InChild(get_shmaddr("seg", FALSE, FALSE) \o <<shmload("seg", "data"), Works(shmrm("seg")), Works(shmdt("seg"))>>)
test_child_verify_deleted ==
  InChild(<<shmget("seg", FALSE, FALSE), if("r", Fail, <<exit(0)>>), failed>>)
test_large_buffer_create ==
  InChild(get_shmaddr("large", TRUE, TRUE) \o <<shmstore("large", "cycle"), Works(shmdt("large"))>>)
test_large_buffer_verify ==
  InChild(get_shmaddr("large", FALSE, FALSE) \o <<shmload("large", "cycle"), Works(shmdt("large")), Works(shmrm("large"))>>)

testshm ==
  test_child_write \o test_child_read_and_mark_delete \o test_child_verify_deleted
  \o test_large_buffer_create \o test_large_buffer_verify \o <<exit(0)>>
-----------------------------------------------------------------------------
\* schedtest: children with a pipe each for the result, and a parent that reads
\* the results in order.  A child keeps only its own writing end.  What the
\* priorities do to the order is left open: the children run in any order.
N == 2
rd(i) == <<"r1", "r2", "r3">>[i]
wr(i) == <<"w1", "w2", "w3">>[i]
Child(i, result) ==
  For(N, LAMBDA j : <<close(rd(j))>> \o IF j # i THEN <<close(wr(j))>> ELSE << >>)
  \o <<getpid("me"), write(wr(i), <<result>>), close(wr(i)), exit(0)>>
Collect(Forking(_), Reading(_)) ==
  For(N, LAMBDA i : <<Works(pipe2(rd(i), wr(i)))>>)
  \o For(N, LAMBDA i : Forking(i)) \o For(N, LAMBDA i : <<close(wr(i))>>)
  \o For(N, LAMBDA i : Reading(i) \o <<close(rd(i))>>) \o Repeat(N, <<wait0>>)

Index(i) == <<Forks("pid", Child(i, ToString(i)))>>
\* Two tests do not look at what fork returns.
IndexUnchecked(i) == <<fork("pid", Child(i, ToString(i)))>>
PriorityUnchecked(i) == <<fork("pid", Child(i, IF i <= N \div 2 THEN "high" ELSE "low"))>>
Taken(i) == <<read(rd(i), 1)>>

test_rr_benchmark == Collect(Index, Taken)
\* All NUM_PROCESSES results arrive.
test_correctness_completion == Collect(Index, LAMBDA i : <<Must(read(rd(i), 1), Is(1))>>)
test_correctness_priority_order == Collect(IndexUnchecked, Taken)
\* The averages are over high_count and low_count results: one of each at least.
test_correctness_fairness ==
  Collect(PriorityUnchecked, LAMBDA i : <<read(rd(i), 1), holds(<<IF i <= N \div 2 THEN "high" ELSE "low">>)>>)
test_priority_benchmark == Collect(Index, Taken)

schedtest(priority) ==
  (IF priority THEN test_correctness_completion \o test_correctness_priority_order
                    \o test_correctness_fairness \o test_priority_benchmark
   ELSE test_rr_benchmark)
  \o <<exit(0)>>
-----------------------------------------------------------------------------
Touch(path) == <<open("r", path, CRW), close("r")>>
Forks1(child) == <<Forks("pid", child)>>

\* echo hi | cat
pipeline ==
  <<Works(pipe2("a0", "a1")), Works(pipe2("b0", "b1")),
    Forks("pid1", <<close("b0"), close("b1"), close("a0"), close("1"), Must(dup("r", "a1"), Is(1)), close("a1"),
                    exec(<<"grindir", "..", "echo">>, echo(<<<<"h", "i">>>>)), failed>>),
    Forks("pid2", <<close("a1"), close("b0"), close("0"), Must(dup("r", "a0"), Is(0)), close("a0"),
                    close("1"), Must(dup("r", "b1"), Is(1)), close("b1"), exec(<<"/", "cat">>, cat(<< >>)), failed>>),
    close("a0"), close("a1"), close("b1"), read("b0", 1), readmore("b0", 1), readmore("b0", 1), close("b0"),
    wait("st1", Zero), wait("st2", Zero), holds(<<"h", "i", "nl">>)>>

\* The branches of go, by the value of what.
What == [
  w1 |-> Touch(<<"grindir", "..", "a">>),
  w2 |-> Touch(<<"grindir", "..", "grindir", "..", "b">>),
  w3 |-> <<unlink(<<"grindir", "..", "a">>)>>,
  w4 |-> <<Works(chdir(<<"grindir">>)), unlink(<<"..", "b">>), chdir(<<"/">>)>>,
  w5 |-> <<close("fd"), open("fd", <<"/", "grindir", "..", "a">>, CRW)>>,
  w6 |-> <<close("fd"), open("fd", <<"/", ".", "grindir", ".", "..", "b">>, CRW)>>,
  w7 |-> <<write("fd", <<"buf">>)>>,
  w8 |-> <<read("fd", 1)>>,
  w9 |-> <<mkdir(<<"grindir", "..", "a">>)>> \o Touch(<<"a", "..", "a", ".", "a">>) \o <<unlink(<<"a", "a">>)>>,
  w10 |-> <<mkdir(<<"/", "..", "b">>)>> \o Touch(<<"grindir", "..", "b", "b">>) \o <<unlink(<<"b", "b">>)>>,
  w11 |-> <<unlink(<<"b">>), link(<<"..", "grindir", ".", "..", "a">>, <<"..", "b">>)>>,
  w12 |-> <<unlink(<<"..", "grindir", "..", "a">>), link(<<"..", ".", "b">>, <<"/", "grindir", "..", "a">>)>>,
  w13 |-> Forks1(<<exit(0)>>) \o <<wait0>>,
  w14 |-> Forks1(<<forkon("r"), forkon("r"), exit(0)>>) \o <<wait0>>,
  w15 |-> <<sbrk("r", 3)>>,
  w16 |-> <<brk("r", "break0", 0)>>,
  w17 |-> Forks1(Touch(<<"a">>) \o <<exit(0)>>) \o <<Works(chdir(<<"..", "grindir", "..">>)), kill("pid"), wait0>>,
  w18 |-> Forks1(<<getpid("me"), kill("me"), exit(0)>>) \o <<wait0>>,
  w19 |-> <<Works(pipe2("p0", "p1"))>>
          \o Forks1(<<forkon("r"), forkon("r"), write("p1", <<"x">>), read("p0", 1), exit(0)>>)
          \o <<close("p0"), close("p1"), wait0>>,
  w20 |-> Forks1(<<unlink(<<"a">>), mkdir(<<"a">>), chdir(<<"a">>), unlink(<<"..", "a">>),
                   open("fd", <<"x">>, CRW), unlink(<<"x">>), exit(0)>>) \o <<wait0>>,
  w21 |-> <<unlink(<<"c">>), Opens("fd1", <<"c">>, CRW), Must(write("fd1", <<"x">>), Is(1)), Must(fstat("size", "fd1"), Is(1)),
            close("fd1"), unlink(<<"c">>)>>,
  w22 |-> pipeline]

\* go: the first rounds of the choices in whats, names of What.  The code goes on
\* for ever: a process that has come to the bound spins.
go(whats, rounds) ==
  LET alts == [i \in DOMAIN whats |-> What[whats[i]]]
  IN <<sbrk("break0", 0), add("fd", -1), mkdir(<<"grindir">>), Works(chdir(<<"grindir">>)), chdir(<<"/">>)>>
     \o Repeat(rounds, <<oneof(alts)>>) \o <<spin>>

\* iter: the first of the two to fail takes the other one with it.  go does not
\* return, so the waits are for one that fails.
iter(A, B, rounds) ==
  <<unlink(<<"a">>), unlink(<<"b">>), Forks("pid1", go(A, rounds)), Forks("pid2", go(B, rounds)),
    wait("st1", Whatever), if("st1", NonZero, <<kill("pid1"), kill("pid2")>>), wait("st2", Whatever), exit(0)>>

grind(A, B, rounds) ==
  <<forever(<<fork("pid", iter(A, B, rounds)), if("pid", Some, <<wait0>>), pause>>)>>
=============================================================================
