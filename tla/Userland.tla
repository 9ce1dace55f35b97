------------------------------ MODULE Userland ------------------------------
(***************************************************************************)
(* The user programs of xv6-riscv/user on the system calls of Kernel: the   *)
(* shell with its commands under init, usertests, grind and the other test  *)
(* programs.  A scenario is what the machine is started for.                *)
(***************************************************************************)
EXTENDS Kernel, SystemTests, UserTests

CONSTANT Scenarios     \* the names of the scenarios to start from

VARIABLE scenario

allvars == <<proc, file, inode, pipe, shm, nextpid, scenario>>
-----------------------------------------------------------------------------
(* usertests.c                                                             *)

Tests == [
  copyin |-> copyin, copyout |-> copyout, copyinstr1 |-> copyinstr1, copyinstr2 |-> copyinstr2, copyinstr3 |-> copyinstr3,
  rwsbrk |-> rwsbrk, truncate1 |-> truncate1, truncate2 |-> truncate2, truncate3 |-> truncate3, openiput |-> openiputtest,
  exitiput |-> exitiputtest, iput |-> iputtest, opentest |-> opentest, writetest |-> writetest, writebig |-> writebig,
  createtest |-> createtest, dirtest |-> dirtest, exectest |-> exectest, pipe1 |-> pipe1, killstatus |-> killstatus,
  preempt |-> preempt, exitwait |-> exitwait, reparent |-> reparent, twochildren |-> twochildren, forkfork |-> forkfork,
  forkforkfork |-> forkforkfork, reparent2 |-> reparent2, sharedfd |-> sharedfd, fourfiles |-> fourfiles,
  createdelete |-> createdelete, unlinkread |-> unlinkread, linktest |-> linktest, concreate |-> concreate,
  linkunlink |-> linkunlink, subdir |-> subdir, bigwrite |-> bigwrite, bigfile |-> bigfile, fourteen |-> fourteen,
  rmdot |-> rmdot, dirfile |-> dirfile, iref |-> iref, forktest |-> forktest, sbrkbasic |-> sbrkbasic,
  sbrkmuch |-> sbrkmuch, kernmem |-> kernmem, MAXVAplus |-> MAXVAplus, sbrkfail |-> sbrkfail, sbrkarg |-> sbrkarg,
  validatetest |-> validatetest, bsstest |-> bsstest, bigargtest |-> bigargtest, argptest |-> argptest,
  nowrite |-> nowrite, pgbug |-> pgbug, sbrkbugs |-> sbrkbugs, sbrklast |-> sbrklast, sbrk8000 |-> sbrk8000,
  badarg |-> badarg, lazy_alloc |-> lazy_alloc, lazy_unmap |-> lazy_unmap, lazy_copy |-> lazy_copy,
  bigdir |-> bigdir, manywrites |-> manywrites, badwrite |-> badwrite, execout |-> execout, diskfull |-> diskfull,
  outofinodes |-> outofinodes]

\* The lists in their order, less the tests that leave processes behind.
quicktests == <<
  "copyin", "copyout", "copyinstr1", "copyinstr2", "copyinstr3", "rwsbrk", "truncate1", "truncate2", "truncate3", "openiput",
  "exitiput", "iput", "opentest", "writetest", "writebig", "createtest", "dirtest", "exectest", "pipe1", "killstatus", "preempt",
  "exitwait", "twochildren", "forkfork", "sharedfd", "fourfiles", "createdelete", "unlinkread", "linktest", "concreate",
  "linkunlink", "subdir", "bigwrite", "bigfile", "fourteen", "rmdot", "dirfile", "iref", "sbrkbasic", "sbrkmuch",
  "kernmem", "MAXVAplus", "sbrkfail", "sbrkarg", "validatetest", "bsstest", "bigargtest", "argptest", "nowrite", "pgbug",
  "sbrkbugs", "sbrklast", "sbrk8000", "badarg", "lazy_alloc", "lazy_unmap", "lazy_copy">>
slowtests == <<"bigdir", "manywrites", "badwrite", "execout", "diskfull", "outofinodes">>

\* A test in a process of its own, and FAILED when it does not exit with 0.
run(t) == <<Must(spawn("pid", t), Some), wait("xstatus", Whatever), if("xstatus", NonZero, <<failed>>)>>
runtests(tests) == For(Len(tests), LAMBDA i : run(tests[i]))

\* The free pages are counted before and after.
drivetests(tests) ==
  countfree("free0") \o runtests(tests) \o countfree("free1") \o <<less("free1", "free0"), if("r", Is(1), <<failed>>), exit(0)>>

spawn_(p) == Doing(p, "spawn") /\ Forked(p, Tests[Now(p).name] \o <<exit(0)>>)
-----------------------------------------------------------------------------
(* Scenarios                                                               *)

\* Lines for the shell, and what the files they write hold in the end.
Out(cmd, f) == redircmd(cmd, f, O_TRUNC(CW), "1")
In(cmd, f) == redircmd(cmd, f, O_RDONLY, "0")
x(w) == execcmd(<<"echo", w>>)
Lines == [
  list |-> <<listcmd(Out(x("one"), "f"), Out(In(execcmd(<<"cat">>), "f"), "g"))>>,
  pipe |-> <<Out(pipecmd(execcmd(<<"echo", "one", "two">>), execcmd(<<"cat">>)), "f")>>,
  group |-> <<[type |-> "blank"], pipecmd(listcmd(x("one"), x("two")), Out(execcmd(<<"cat">>), "f"))>>,
  back |-> <<backcmd(Out(x("one"), "f")), execcmd(<<"nosuch">>), Out(x("two"), "g")>>,
  dirs |-> <<execcmd(<<"mkdir", "d">>), [type |-> "cd", dir |-> "d"], Out(slashcmd(<<"echo", "one">>), "f"),
             slashcmd(<<"ln", "f", "g">>), slashcmd(<<"rm", "f">>), slashcmd(<<"cat", "f">>), slashcmd(<<"wc", "g">>)>>]
nl == "nl"
Content == [
  list |-> [f |-> <<"one", nl>>, g |-> <<"one", nl>>], pipe |-> [f |-> <<"one", " ", "two", nl>>],
  group |-> [f |-> <<"one", nl, "two", nl>>], back |-> [f |-> <<"one", nl>>, g |-> <<"two", nl>>],
  dirs |-> [g |-> <<"one", nl>>]]

Files == <<"w1", "w2", "w3", "w4", "w5", "w6", "w7", "w8", "w9", "w10", "w11", "w12", "w15", "w16", "w21">>
Procs == <<"w13", "w17", "w18", "w20", "w22">>
Many == <<"w14", "w19">>

\* What the shell started, by scenario.
Started == [
  quick |-> drivetests(quicktests \o slowtests),
  orphans |-> drivetests(<<"reparent">>), orphans2 |-> drivetests(<<"reparent2">>),
  forks |-> drivetests(<<"forkforkfork">>), slots |-> drivetests(<<"forktest">>),
  grindfiles |-> grind(Files, Files, 1), grindprocs |-> grind(Procs, <<"w1", "w15">>, 1), grindmany |-> go(Many, 1), grindalone |-> go(Files, 3),
  cow |-> cowtest(2, 1), shm |-> testshm, rr |-> schedtest(FALSE), mlfq |-> schedtest(TRUE),
  stress |-> stressfs, log |-> logstress(<<"l1", "l2">>), forktest |-> forktest_main(NPROC), pingpong |-> pingpong, zombie |-> zombie,
  file |-> forphan, dir |-> dorphan]

\* Processes of someone else, so that few slots are left.
Busy(s) == IF s \in {"forks", "slots", "forktest"} THEN 5 ELSE 0

Booted == DOMAIN Lines
Machine(s) ==
  IF s \in Booted THEN (INIT :> [Process(1, 1, init(sh(Lines[s]), 1)) EXCEPT !.fds = [d \in {} |-> 0]])
  ELSE (INIT :> Process(1, 1, <<forever(<<reap>>)>>)) @@ (2 :> Process(2, INIT, Started[s]))
       @@ [b \in NPROC - Busy(s) + 1 .. NPROC |-> Process(b, INIT, <<spin>>)]

\* A new disk has no console yet when init first runs.
Image == <<"README", "cat", "echo", "init", "sh", "wc", "rm", "ln", "mkdir">>
         \o IF scenario \in Booted THEN << >> ELSE <<"console">>
Init == scenario \in Scenarios /\ Boot(Machine(scenario), Image)


\* A process that sleeps in the kernel: for data or room in a pipe, for a child.
Asleep(p) ==
  LET fd == Now(p).fd
      f == file[FileOf(p, fd)]
      InPipe == FileOf(p, fd) # 0 /\ f.type = "pipe"
  IN \/ Doing(p, "spin")
     \/ Doing(p, "wait") /\ LET children == {q \in DOMAIN proc : proc[q].parent = p /\ q # p}
                            IN /\ children # {} \/ Now(p).block
                               /\ \A q \in children : proc[q].state = "run"
     \/ Doing(p, "read") /\ InPipe /\ f.r /\ BufOk(p) /\ pipe[f.id] = << >> /\ End(f.id, "w")
     \/ Doing(p, "write") /\ InPipe /\ f.w /\ PtrOk(p) /\ Len(pipe[f.id]) = PIPESIZE /\ Now(p).data # << >> /\ End(f.id, "r")
     \/ Doing(p, "writebuf") /\ InPipe /\ f.w /\ PtrOk(p) /\ Len(pipe[f.id]) = PIPESIZE
        /\ Now(p).done < Len(proc[p].buf) /\ End(f.id, "r")
CanStep(p) == Live(p) /\ (proc[p].killed \/ ~Asleep(p))
\* A process that does nothing but pause or ask for its pid, again and again.
Looping(p) ==
  /\ Doing(p, "pause") \/ Doing(p, "getpid")
  /\ Len(proc[p].todo) > 1 /\ LET s == proc[p].todo[2] IN s.op = "while" /\ s.then = <<Now(p)>>
  /\ ~proc[p].killed
Quiescent == \A p \in DOMAIN proc : ~CanStep(p) \/ Looping(p)
\* Only init and the processes that spin for ever are left.
Halted == \A p \in DOMAIN proc \ {INIT} : Doing(p, "spin")
\* In grind the two processes have done their rounds and reaped what they forked,
\* and their ancestors wait for them.
Grinds == {"grindfiles", "grindprocs", "grindmany", "grindalone"}
RoundsOver == \A p \in DOMAIN proc \ {INIT} : Doing(p, "spin") \/ Doing(p, "wait")

Act(p) == p \in DOMAIN proc /\ (Step(p) \/ spawn_(p) \/ Die(p)) /\ UNCHANGED scenario
Next == \E p \in 1 .. NPROC : Act(p)
\* Weak fairness of Next, with what enables it written out.
Spec == Init /\ [][Next]_allvars /\ ([]<>Quiescent \/ []<><<TRUE>>_allvars)
-----------------------------------------------------------------------------
\* No test fails, whatever the order in which its processes run: none of them
\* reaches the exit of a failed check.
TestsPass ==
  scenario \notin Booted => \A p \in DOMAIN proc : Doing(p, "exit") => ~Now(p).failed

\* sh.c main: the shell asks for the next line when the commands it waits for are over.
PromptAlone ==
  \A p \in DOMAIN proc : Doing(p, "write") /\ Now(p).v = "prompt" => \A q \in DOMAIN proc : proc[q].parent # p

\* runcmd: when all is over the files hold what the lines put into them.
LinesDone ==
  scenario \in Booted /\ Quiescent =>
    \A f \in DOMAIN Content[scenario] : \E i \in DOMAIN inode :
      inode[i].data = Content[scenario][f] /\ \E d \in DOMAIN inode : f \in DOMAIN inode[d].entries /\ inode[d].entries[f] = i

\* Every program ends, and init has reaped every process, orphans included.  Three
\* do not end: forphan and dorphan sleep until they are killed, and of grind every
\* round ends, with what the round forked.
Ends == scenario \notin {"file", "dir"} ~> IF scenario \in Grinds THEN RoundsOver ELSE Halted
=============================================================================
