------------------------------- MODULE Kernel -------------------------------
(***************************************************************************)
(* The system calls the user programs of xv6-riscv/user are written         *)
(* against.  The kernel's C files are not in the repository, so this is the *)
(* contract as the programs and usertests.c use it: processes, descriptors, *)
(* pipes, a file system with directories and links, user memory and shared  *)
(* memory segments.  Each call is one atomic step of its process.           *)
(*                                                                          *)
(* A program is a script, a sequence of statements (module Script); todo is *)
(* what a process has still to run.  A statement names the variable its     *)
(* result goes to, and in must the results after which the program goes on  *)
(* ({}: any); after another one it prints a message and exits with 1.      *)
(* References are counted by looking: Commit drops what nobody holds.       *)
(***************************************************************************)
EXTENDS Script, FiniteSets, FiniteSetsExt, Functions

CONSTANTS
  NOFILE,      \* descriptors of a process
  NINODE,      \* inodes of the disk
  PIPESIZE,    \* what a pipe holds
  TEXT, SZ     \* a program's read-only part, and its initial size

VARIABLES proc, file, inode, pipe, shm, nextpid

vars == <<proc, file, inode, pipe, shm, nextpid>>

INIT == 1
Root == 1
Live(p) == p \in DOMAIN proc /\ proc[p].state = "run"
Now(p) == IF proc[p].todo = << >> THEN exit(0) ELSE Head(proc[p].todo)
Doing(p, op) == Live(p) /\ Now(p).op = op
Val(p, v) == proc[p].var[v]

\* The process me after its statement returned r; a killed one does not come
\* back from its call.
After(me, r) ==
  LET s == Head(me.todo)
  IN [me EXCEPT !.var = (s.v :> r) @@ ("r" :> r) @@ @,
                !.todo = IF me.killed THEN <<exit(-1)>>
                         ELSE IF Matches(r, s.must) THEN Tail(@) ELSE <<failed>>]
Return(p, r) == After(proc[p], r)

\* What a program computes between its calls goes with the call before it.
RECURSIVE Settled(_)
Settled(me) ==
  IF me.state # "run" \/ me.todo = << >> THEN me
  ELSE LET s == Head(me.todo)
           rest == Tail(me.todo)
           Bit(b) == Settled(After(me, IF b THEN 1 ELSE 0))
       IN CASE s.op = "when" -> Settled([me EXCEPT !.todo = (IF Matches(me.var[s.test], s.set) THEN s.then ELSE s.else) \o rest])
            [] s.op = "while" -> Settled([me EXCEPT !.todo = IF Matches(me.var[s.test], s.set) THEN s.then \o @ ELSE rest])
            [] s.op = "add" -> Settled(After(me, s.n + IF s.v \in DOMAIN me.var THEN me.var[s.v] ELSE 0))
            [] s.op = "less" -> Bit(me.var[s.a] < me.var[s.b])
            [] s.op = "equal" -> Bit(me.var[s.a] = me.var[s.b])
            [] s.op = "at" -> Bit(me.var[s.a] = me.var[s.b] + s.n)
            [] s.op = "begins" -> Bit(IsPrefix(me.buf, s.data))
            [] s.op = "holds" -> Bit(me.buf \in s.data)
            [] OTHER -> me

\* What the counts of the kernel free: files, inodes and pipes not referred to,
\* and segments that are not persistent and not attached.
Commit(pr, fl, ind, pp, sh) ==
  LET used == UNION {Range(pr[p].fds) : p \in DOMAIN pr}
      files == Restrict(fl, used)
      Refers(t, i) == \E f \in used : files[f].type = t /\ files[f].id = i
      Linked(i) == \E d \in DOMAIN ind : \E n \in DOMAIN ind[d].entries \ {".", ".."} : ind[d].entries[n] = i
      Held(i) == i = Root \/ Linked(i) \/ Refers("inode", i) \/ \E p \in DOMAIN pr : pr[p].cwd = i
      Kept(s) == sh[s].persist \/ \E p \in DOMAIN pr : s \in pr[p].shm
  IN /\ proc' = [p \in DOMAIN pr |-> Settled(pr[p])]
     /\ file' = files
     /\ inode' = Restrict(ind, {i \in DOMAIN ind : Held(i)})
     /\ pipe' = Restrict(pp, {i \in DOMAIN pp : Refers("pipe", i)})
     /\ shm' = Restrict(sh, {s \in DOMAIN sh : Kept(s)})

Returns(p, r) == Commit([proc EXCEPT ![p] = Return(p, r)], file, inode, pipe, shm) /\ UNCHANGED nextpid
Fails(p) == Returns(p, -1)

\* User memory: addresses 0 .. sz-1; the pointer argument of a call.
RoundUp(n) == ((n + PGSIZE - 1) \div PGSIZE) * PGSIZE
Mapped(p, a, n) == n = 0 \/ (a >= 0 /\ a + n <= RoundUp(proc[p].sz))
\* What the processes have allocated themselves; fork shares pages copy-on-write.
Used == MapThenSumSet(LAMBDA p : proc[p].own, DOMAIN proc)
PtrOk(p) == LET f == Now(p).from IN Mapped(p, Val(p, f.base) + f.off, f.len)
\* What the kernel copies out to must not be in the read-only part.
BufOk(p) == LET f == Now(p).from IN PtrOk(p) /\ (f.len = 0 \/ Val(p, f.base) + f.off >= TEXT)

Least(S) == IF S = {} THEN 0 ELSE Min(S)
FreeFd(p) == (0 .. NOFILE - 1) \ DOMAIN proc[p].fds
NewFile == Min(1 .. Cardinality(DOMAIN file) + 1 \ DOMAIN file)

-----------------------------------------------------------------------------
(* Processes                                                               *)

Forked(p, child) ==
  LET slot == Min(1 .. NPROC \ DOMAIN proc)
      me == [proc[p] EXCEPT !.var = (Now(p).v :> 0) @@ ("r" :> 0) @@ @, !.parent = p, !.pid = nextpid,
                            !.todo = child, !.killed = FALSE, !.own = 0]
  IN IF DOMAIN proc = 1 .. NPROC THEN Fails(p)
     ELSE /\ Commit((slot :> me) @@ [proc EXCEPT ![p] = Return(p, nextpid)], file, inode, pipe, shm)
          /\ nextpid' = nextpid + 1

fork_(p) == Doing(p, "fork") /\ Forked(p, Now(p).child)
\* Both go on, in a child that has 0 for its pid.
forkon_(p) == Doing(p, "forkon") /\ Forked(p, Tail(proc[p].todo))

\* A parent's children go to init.
Exited(p, code) ==
  [q \in DOMAIN proc |->
    IF q = p THEN [proc[p] EXCEPT !.state = "zombie", !.status = code, !.todo = << >>,
                                  !.fds = [d \in {} |-> 0], !.var = [v \in {} |-> 0], !.buf = << >>,
                                  !.mem = [a \in {} |-> ""], !.shm = {}, !.cwd = Root, !.own = 0]
    ELSE IF proc[q].parent = p THEN [proc[q] EXCEPT !.parent = INIT] ELSE proc[q]]

Exits(p, code) == Commit(Exited(p, code), file, inode, pipe, shm) /\ UNCHANGED nextpid

exit_(p) == Doing(p, "exit") /\ Exits(p, IF Now(p).var = "" THEN Now(p).code ELSE Val(p, Now(p).var))

\* A killed process dies on its way into or out of the kernel, or where it sleeps.
Die(p) == Live(p) /\ proc[p].killed /\ Exits(p, -1)

wait_(p) ==
  /\ Doing(p, "wait")
  /\ LET children == {q \in DOMAIN proc : proc[q].parent = p}
         s == Now(p).status
     IN \/ children = {} /\ ~Now(p).block /\ Fails(p)
        \/ \E q \in children :
             /\ proc[q].state = "zombie"
             /\ LET code == proc[q].status
                    me == Return(p, proc[q].pid)
                    now == [me EXCEPT !.var = (Now(p).v :> code) @@ ("r" :> proc[q].pid) @@ @,
                                      !.todo = IF Matches(code, s) \/ me.killed THEN @ ELSE <<failed>>]
                IN Commit([r \in DOMAIN proc \ {q} |-> IF r = p THEN now ELSE proc[r]], file, inode, pipe, shm)
             /\ UNCHANGED nextpid

kill_(p) ==
  /\ Doing(p, "kill")
  /\ LET victims == {q \in DOMAIN proc : proc[q].pid = Val(p, Now(p).pid)}
     IN IF victims = {} THEN Fails(p)
        ELSE /\ Commit([r \in DOMAIN proc |->
                          LET me == IF r = p THEN Return(p, 0) ELSE proc[r]
                          IN IF r \in victims THEN [me EXCEPT !.killed = TRUE] ELSE me], file, inode, pipe, shm)
             /\ UNCHANGED nextpid

\* pause, getpid and printing have no effect the scripts look at.
pause_(p) == Doing(p, "pause") /\ Returns(p, 0)
getpid_(p) == Doing(p, "getpid") /\ Returns(p, proc[p].pid)

\* A choice of the program's pseudo-random numbers.
Choose(p) ==
  /\ Doing(p, "oneof")
  /\ \E k \in DOMAIN Now(p).alts :
       Commit([proc EXCEPT ![p].todo = Now(p).alts[k] \o Tail(@)], file, inode, pipe, shm)
  /\ UNCHANGED nextpid

-----------------------------------------------------------------------------
(* Files and pipes                                                         *)

FileOf(p, fd) == IF Val(p, fd) \in DOMAIN proc[p].fds THEN proc[p].fds[Val(p, fd)] ELSE 0
Opened(p, f, rec) == (f :> rec) @@ file

close_(p) ==
  /\ Doing(p, "close")
  /\ LET fd == Val(p, Now(p).fd)
         me == Return(p, 0)
     IN IF fd \notin DOMAIN me.fds THEN Fails(p)
        ELSE /\ Commit([proc EXCEPT ![p] = [me EXCEPT !.fds = Restrict(@, DOMAIN @ \ {fd})]], file, inode, pipe, shm)
             /\ UNCHANGED nextpid

dup_(p) ==
  /\ Doing(p, "dup")
  /\ LET f == FileOf(p, Now(p).fd)
         fd == Min(FreeFd(p))
     IN IF f = 0 \/ FreeFd(p) = {} THEN Fails(p)
        ELSE /\ Commit([proc EXCEPT ![p] = [Return(p, fd) EXCEPT !.fds = (fd :> f) @@ @]], file, inode, pipe, shm)
             /\ UNCHANGED nextpid

pipe_(p) ==
  /\ Doing(p, "pipe")
  /\ LET i == Min(1 .. Cardinality(DOMAIN pipe) + 1 \ DOMAIN pipe)
         f1 == NewFile
         fl == (f1 :> [type |-> "pipe", id |-> i, off |-> 0, r |-> TRUE, w |-> FALSE]) @@ file
         f2 == Min(1 .. Cardinality(DOMAIN fl) + 1 \ DOMAIN fl)
         r == Min(FreeFd(p))
         w == Min(FreeFd(p) \ {r})
         me == [Return(p, 0) EXCEPT !.var = (Now(p).rd :> r) @@ (Now(p).wr :> w) @@ @,
                                    !.fds = (r :> f1) @@ (w :> f2) @@ @]
     IN IF Cardinality(FreeFd(p)) < 2 \/ ~BufOk(p) THEN Fails(p)
        ELSE /\ Commit([proc EXCEPT ![p] = me],
                       (f2 :> [type |-> "pipe", id |-> i, off |-> 0, r |-> FALSE, w |-> TRUE]) @@ fl,
                       inode, (i :> << >>) @@ pipe, shm)
             /\ UNCHANGED nextpid

End(i, side) == \E f \in DOMAIN file : file[f].type = "pipe" /\ file[f].id = i /\ file[f][side]

Got(p, data) ==
  [Return(p, Len(data)) EXCEPT !.buf = IF Now(p).more THEN @ \o data ELSE data]

\* A read of a pipe waits for data while somebody can still write.
read_(p) ==
  /\ Doing(p, "read")
  /\ LET f == FileOf(p, Now(p).fd)
         n == Now(p).n
         src == IF file[f].type = "pipe" THEN pipe[file[f].id]
                ELSE SubSeq(inode[file[f].id].data, file[f].off + 1, Len(inode[file[f].id].data))
         data == SubSeq(src, 1, Min({n, Len(src)}))
     IN IF f = 0 \/ ~BufOk(p) THEN Fails(p)
        ELSE IF ~file[f].r THEN Fails(p)
        ELSE CASE file[f].type = "console" -> Returns(p, 0)
               [] file[f].type = "pipe" ->
                    /\ src # << >> \/ ~End(file[f].id, "w")
                    /\ Commit([proc EXCEPT ![p] = Got(p, data)], file, inode,
                              [pipe EXCEPT ![file[f].id] = SubSeq(@, Len(data) + 1, Len(@))], shm)
                    /\ UNCHANGED nextpid
               [] file[f].type = "inode" ->
                    /\ Commit([proc EXCEPT ![p] = Got(p, data)], [file EXCEPT ![f].off = @ + Len(data)],
                              inode, pipe, shm)
                    /\ UNCHANGED nextpid

Blocks(ind) == MapThenSumSet(LAMBDA i : Len(ind[i].data), DOMAIN ind)

\* A write of a pipe puts in what fits and goes on when there is room; one of a
\* file fails beyond its end and when the disk is full.
write_(p) ==
  /\ Doing(p, "write") \/ Doing(p, "writebuf")
  /\ LET s == Now(p)
         f == FileOf(p, s.fd)
         data == IF s.op = "write" THEN s.data ELSE SubSeq(proc[p].buf, s.done + 1, Len(proc[p].buf))
         n == Len(data)
     IN IF f = 0 \/ ~PtrOk(p) THEN Fails(p)
        ELSE IF ~file[f].w THEN Fails(p)
        ELSE CASE file[f].type = "console" -> Returns(p, n + s.done)
               [] file[f].type = "pipe" ->
                    LET i == file[f].id
                        k == Min({n, PIPESIZE - Len(pipe[i])})
                        later == [proc[p] EXCEPT !.todo[1] =
                                    IF s.op = "write" THEN [s EXCEPT !.data = SubSeq(data, k + 1, n), !.done = @ + k]
                                    ELSE [s EXCEPT !.done = @ + k]]
                    IN IF ~End(i, "r") THEN Fails(p)
                       ELSE /\ k > 0 \/ n = 0
                            /\ Commit([proc EXCEPT ![p] = IF k = n THEN Return(p, n + s.done) ELSE later],
                                      file, inode, [pipe EXCEPT ![i] = @ \o SubSeq(data, 1, k)], shm)
                            /\ UNCHANGED nextpid
               [] file[f].type = "inode" ->
                    LET i == file[f].id
                        off == file[f].off
                        old == inode[i].data
                        new == SubSeq(old, 1, off) \o data \o SubSeq(old, off + n + 1, Len(old))
                    IN IF off > Len(old) \/ inode[i].type = "dir" \/ Blocks([inode EXCEPT ![i].data = new]) > FSSIZE
                       THEN Fails(p)
                       ELSE /\ Commit([proc EXCEPT ![p] = Return(p, n)], [file EXCEPT ![f].off = @ + n],
                                      [inode EXCEPT ![i].data = new], pipe, shm)
                            /\ UNCHANGED nextpid

fstat_(p) ==
  /\ Doing(p, "fstat")
  /\ LET f == FileOf(p, Now(p).fd)
     IN IF f = 0 THEN Fails(p) ELSE Returns(p, Len(inode[file[f].id].data))

entries_(p) ==
  /\ Doing(p, "entries")
  /\ LET f == FileOf(p, Now(p).fd)
     IN IF f = 0 THEN Fails(p)
        ELSE Returns(p, Cardinality(DOMAIN inode[file[f].id].entries \cap Now(p).names))

-----------------------------------------------------------------------------
(* Names                                                                   *)

\* DIRSIZ is 14: what a directory keeps of a name.
Stored(name) == IF name = "123456789012345" THEN "12345678901234" ELSE name

Entry(d, name) ==
  IF d # 0 /\ inode[d].type = "dir" /\ Stored(name) \in DOMAIN inode[d].entries
  THEN inode[d].entries[Stored(name)] ELSE 0

Absolute(path) == path # << >> /\ Head(path) = "/"
Names(path) == IF Absolute(path) THEN Tail(path) ELSE path
namei(p, path) == FoldLeft(Entry, IF Absolute(path) THEN Root ELSE proc[p].cwd, Names(path))
nameiparent(p, path) ==
  LET d == IF Names(path) = << >> THEN 0
           ELSE FoldLeft(Entry, IF Absolute(path) THEN Root ELSE proc[p].cwd, Front(Names(path)))
  IN IF d # 0 /\ inode[d].type = "dir" THEN d ELSE 0
Base(path) == Stored(Last(Names(path)))

NewIno == Least(1 .. NINODE \ DOMAIN inode)
WithEntry(ind, d, name, i) == [ind EXCEPT ![d].entries = (name :> i) @@ @]
NewFileNode == [type |-> "file", data |-> << >>, entries |-> [n \in {} |-> 0]]

\* open: O_CREATE takes a file that exists, a directory opens for reading only.
open_(p) ==
  /\ Doing(p, "open")
  /\ LET s == Now(p)
         d == nameiparent(p, s.path)
         found == IF s.mode.create /\ d # 0 THEN Entry(d, Base(s.path))
                  ELSE IF s.mode.create THEN 0 ELSE namei(p, s.path)
         made == s.mode.create /\ d # 0 /\ found = 0 /\ NewIno # 0
         i == IF made THEN NewIno ELSE found
         ind == IF made THEN WithEntry((i :> NewFileNode) @@ inode, d, Base(s.path), i) ELSE inode
         fd == Min(FreeFd(p))
         rec == [type |-> IF ind[i].type = "dev" THEN "console" ELSE "inode", id |-> i, off |-> 0, r |-> s.mode.r, w |-> s.mode.w]
     IN IF ~PtrOk(p) \/ i = 0 \/ FreeFd(p) = {} THEN Fails(p)
        ELSE IF ind[i].type = "dir" /\ (s.mode.w \/ s.mode.create) THEN Fails(p)
        ELSE /\ Commit([proc EXCEPT ![p] = [Return(p, fd) EXCEPT !.fds = (fd :> NewFile) @@ @]],
                       (NewFile :> rec) @@ file,
                       IF s.mode.trunc THEN [ind EXCEPT ![i].data = << >>] ELSE ind, pipe, shm)
             /\ UNCHANGED nextpid

Empty(i) == DOMAIN inode[i].entries \subseteq {".", ".."}

unlink_(p) ==
  /\ Doing(p, "unlink")
  /\ LET path == Now(p).path
         d == nameiparent(p, path)
         i == Entry(d, Base(path))
     IN IF ~PtrOk(p) \/ d = 0 THEN Fails(p)
        ELSE IF Base(path) \in {".", ".."} \/ i = 0 THEN Fails(p)
        ELSE IF inode[i].type = "dir" /\ ~Empty(i) THEN Fails(p)
        ELSE /\ Commit([proc EXCEPT ![p] = Return(p, 0)], file,
                       [inode EXCEPT ![d].entries = Restrict(@, DOMAIN @ \ {Base(path)})], pipe, shm)
             /\ UNCHANGED nextpid

link_(p) ==
  /\ Doing(p, "link")
  /\ LET s == Now(p)
         i == namei(p, s.old)
         d == nameiparent(p, s.path)
     IN IF ~PtrOk(p) \/ i = 0 \/ d = 0 THEN Fails(p)
        ELSE IF inode[i].type = "dir" \/ Entry(d, Base(s.path)) # 0 THEN Fails(p)
        ELSE /\ Commit([proc EXCEPT ![p] = Return(p, 0)], file, WithEntry(inode, d, Base(s.path), i), pipe, shm)
             /\ UNCHANGED nextpid

\* mkdir and mknod.
mknod_(p) ==
  /\ Doing(p, "mknod")
  /\ LET path == Now(p).path
         d == nameiparent(p, path)
         i == NewIno
         node == IF Now(p).dir THEN [NewFileNode EXCEPT !.type = "dir", !.entries = ("." :> i) @@ (".." :> d)]
                 ELSE [NewFileNode EXCEPT !.type = "dev"]
     IN IF ~PtrOk(p) \/ d = 0 \/ i = 0 THEN Fails(p)
        ELSE IF Entry(d, Base(path)) # 0 THEN Fails(p)
        ELSE /\ Commit([proc EXCEPT ![p] = Return(p, 0)], file,
                       WithEntry((i :> node) @@ inode, d, Base(path), i), pipe, shm)
             /\ UNCHANGED nextpid

chdir_(p) ==
  /\ Doing(p, "chdir")
  /\ LET i == namei(p, Now(p).path)
     IN IF i = 0 THEN Fails(p) ELSE IF inode[i].type # "dir" THEN Fails(p)
        ELSE /\ Commit([proc EXCEPT ![p] = [Return(p, 0) EXCEPT !.cwd = i]], file, inode, pipe, shm)
             /\ UNCHANGED nextpid

Vars0 == [v \in {"zero", "r", "0", "1", "2", "xstatus"} |->
            CASE v = "1" -> 1 [] v = "2" -> 2 [] OTHER -> 0]

\* exec: the new program keeps the descriptors and the directory.
exec_(p) ==
  /\ Doing(p, "exec")
  /\ IF ~PtrOk(p) \/ namei(p, Now(p).path) = 0 \/ Used + SZ > PHYS THEN Fails(p)
     ELSE /\ Commit([proc EXCEPT ![p].todo = Now(p).image, ![p].var = Vars0, ![p].buf = << >>, ![p].sz = SZ, ![p].own = SZ,
                                 ![p].mem = [a \in {} |-> ""], ![p].shm = {}], file, inode, pipe, shm)
          /\ UNCHANGED nextpid
-----------------------------------------------------------------------------
(* Memory                                                                  *)

\* Shrinking below zero leaves the size as it is; a lazy request is granted
\* and the pages are found when they are touched.
sbrk_(p) ==
  /\ Doing(p, "sbrk")
  /\ LET s == Now(p)
         old == proc[p].sz
         new == IF s.to = "" THEN old + s.n ELSE Val(p, s.to) + s.n
         sz == IF new < 0 THEN old ELSE new
         own == IF s.lazy THEN Min({proc[p].own, sz}) ELSE Max({0, proc[p].own + sz - old})
     IN IF ~s.lazy /\ Used - proc[p].own + own > PHYS THEN Fails(p)
        ELSE /\ Commit([proc EXCEPT ![p] = [Return(p, old) EXCEPT !.sz = sz, !.own = own,
                                           !.mem = Restrict(@, {a \in DOMAIN @ : a < sz})]],
                       file, inode, pipe, shm)
             /\ UNCHANGED nextpid

Address(p) == Val(p, Now(p).base) + Now(p).off

\* A bad access kills the process.
store_(p) ==
  /\ Doing(p, "store")
  /\ IF Address(p) < TEXT \/ ~Mapped(p, Address(p), 1) THEN Exits(p, -1)
     ELSE /\ Commit([proc EXCEPT ![p] = [Return(p, 0) EXCEPT !.mem = (Address(p) :> Now(p).val) @@ @]],
                    file, inode, pipe, shm)
          /\ UNCHANGED nextpid

load_(p) ==
  /\ Doing(p, "load")
  /\ IF ~Mapped(p, Address(p), 1) THEN Exits(p, -1)
     ELSE LET a == Address(p)
              val == IF a \in DOMAIN proc[p].mem THEN proc[p].mem[a] ELSE "0"
          IN Returns(p, IF val \in Now(p).vals THEN 1 ELSE 0)

-----------------------------------------------------------------------------
(* Shared memory segments: a persistent one outlives its users until it is  *)
(* marked for removal and the last of them detaches.                        *)

shmget_(p) ==
  /\ Doing(p, "shmget")
  /\ LET s == Now(p)
     IN IF s.name \in DOMAIN shm THEN Returns(p, 0)
        ELSE IF ~s.create THEN Fails(p)
        ELSE /\ Commit([proc EXCEPT ![p] = Return(p, 0)], file, inode, pipe,
                       (s.name :> [persist |-> s.persist, val |-> "0"]) @@ shm)
             /\ UNCHANGED nextpid

shmat_(p) ==
  /\ Doing(p, "shmat")
  /\ IF Now(p).name \notin DOMAIN shm THEN Fails(p)
     ELSE /\ Commit([proc EXCEPT ![p] = [Return(p, 0) EXCEPT !.shm = @ \cup {Now(p).name}]], file, inode, pipe, shm)
          /\ UNCHANGED nextpid

shmdt_(p) ==
  /\ Doing(p, "shmdt")
  /\ IF Now(p).name \notin proc[p].shm THEN Fails(p)
     ELSE /\ Commit([proc EXCEPT ![p] = [Return(p, 0) EXCEPT !.shm = @ \ {Now(p).name}]], file, inode, pipe, shm)
          /\ UNCHANGED nextpid

shmctl_(p) ==
  /\ Doing(p, "shmrm")
  /\ IF Now(p).name \notin DOMAIN shm THEN Fails(p)
     ELSE /\ Commit([proc EXCEPT ![p] = Return(p, 0)], file, inode, pipe, [shm EXCEPT ![Now(p).name].persist = FALSE])
          /\ UNCHANGED nextpid

shmaccess(p) ==
  /\ Doing(p, "shmstore") \/ Doing(p, "shmload")
  /\ LET s == Now(p)
     IN IF s.name \notin proc[p].shm THEN Exits(p, -1)
        ELSE IF s.op = "shmload" THEN Returns(p, IF shm[s.name].val = s.val THEN 1 ELSE 0)
        ELSE /\ Commit([proc EXCEPT ![p] = Return(p, 0)], file, inode, pipe, [shm EXCEPT ![s.name].val = s.val])
             /\ UNCHANGED nextpid

-----------------------------------------------------------------------------
Step(p) ==
  \/ fork_(p) \/ forkon_(p) \/ exit_(p) \/ wait_(p) \/ kill_(p) \/ pause_(p) \/ getpid_(p)
  \/ Choose(p)
  \/ open_(p) \/ close_(p) \/ dup_(p) \/ pipe_(p) \/ read_(p) \/ write_(p) \/ fstat_(p) \/ entries_(p)
  \/ unlink_(p) \/ link_(p) \/ mknod_(p) \/ chdir_(p) \/ exec_(p)
  \/ sbrk_(p) \/ store_(p) \/ load_(p)
  \/ shmget_(p) \/ shmat_(p) \/ shmdt_(p) \/ shmctl_(p) \/ shmaccess(p)

\* A process with the console on descriptors 0, 1 and 2.
Process(pid, parent, todo) ==
  [pid |-> pid, todo |-> todo, var |-> Vars0, buf |-> << >>, fds |-> [d \in 0 .. 2 |-> 1], cwd |-> Root, parent |-> parent,
   state |-> "run", status |-> 0, killed |-> FALSE, sz |-> SZ, own |-> SZ, mem |-> [a \in {} |-> ""], shm |-> {}]

\* The disk image: the programs and README in the root directory.
Disk(names) ==
  [i \in 1 .. Len(names) + 1 |->
    IF i = Root THEN [type |-> "dir", data |-> << >>,
                      entries |-> [n \in ToSet(names) \cup {".", ".."} |->
                                     IF n \in {".", ".."} THEN Root ELSE 1 + CHOOSE j \in DOMAIN names : names[j] = n]]
    ELSE [NewFileNode EXCEPT !.data = <<names[i - 1]>>, !.type = IF names[i - 1] = "console" THEN "dev" ELSE @]]

Boot(initial, names) ==
  /\ proc = [p \in DOMAIN initial |-> Settled(initial[p])]
  /\ file = (1 :> [type |-> "console", id |-> 0, off |-> 0, r |-> TRUE, w |-> TRUE])
  /\ inode = Disk(names)
  /\ pipe = [i \in {} |-> << >>]
  /\ shm = [s \in {} |-> 0]
  /\ nextpid = Max(DOMAIN initial) + 1
=============================================================================
