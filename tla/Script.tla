------------------------------- MODULE Script -------------------------------
(***************************************************************************)
(* The statements a modelled program is made of: the system calls of         *)
(* user/user.h and the tests and loops between them.                         *)
(*                                                                           *)
(* A descriptor or pid is given by the name of the variable that holds it.   *)
(* A path is the sequence of its components, "/" first when it is absolute;  *)
(* file data and strings are sequences of symbols.                           *)
(***************************************************************************)
EXTENDS Integers, SequencesExt, TLC

CONSTANTS
  Few,         \* repetitions of a loop whose count does not matter
  NPROC,       \* slots in the process table
  FSSIZE,      \* data blocks of the disk (a datum is a block)
  PGSIZE,      \* what memory is mapped in units of
  PHYS         \* the memory of the machine

\* What a result is compared with: from lo to hi, or outside when lo is the larger.
Within(lo, hi) == [lo |-> lo, hi |-> hi]
Matches(r, w) == IF w.lo <= w.hi THEN w.lo <= r /\ r <= w.hi ELSE r >= w.lo \/ r <= w.hi
Whatever == Within(0, -1)
Is(n) == Within(n, n)
Fail == Is(-1)
Zero == Is(0)
Ok == Within(0, 10000)
Some == Within(1, 10000)
NonZero == Within(1, -1)

NoPtr == [base |-> "zero", off |-> 0, len |-> 0]
Call(op) == [op |-> op, v |-> "r", must |-> Whatever, from |-> NoPtr]

Into(v, c) == [c EXCEPT !.v = v]
Must(c, S) == [c EXCEPT !.must = S]
\* The argument is read or written through a pointer to base+off, len long.
At(c, base, off, len) == [c EXCEPT !.from = [base |-> base, off |-> off, len |-> len]]

fork(v, child) == Into(v, Call("fork")) @@ [child |-> child]
\* The child runs the named test of Userland.
spawn(v, name) == Into(v, Call("spawn")) @@ [name |-> name]
\* The child goes on where the parent does.
forkon(v) == Into(v, Call("forkon"))
exit(code) == Call("exit") @@ [code |-> code, var |-> "", failed |-> FALSE]
exitv(var) == Call("exit") @@ [code |-> 0, var |-> var, failed |-> FALSE]
\* The exit after a message about what went wrong.
failed == Call("exit") @@ [code |-> 1, var |-> "", failed |-> TRUE]
wait(v, status) == Into(v, Call("wait")) @@ [status |-> status, block |-> FALSE]
\* A wait that sleeps on without a child.
reap == Call("wait") @@ [status |-> Whatever, block |-> TRUE]
wait0 == wait("xstatus", Whatever)
kill(pid) == Call("kill") @@ [pid |-> pid]
pause == Call("pause")
getpid(v) == Into(v, Call("getpid"))
exec(path, image) == Call("exec") @@ [path |-> path, image |-> image]

open(v, path, mode) == Into(v, Call("open")) @@ [path |-> path, mode |-> mode]
close(fd) == Call("close") @@ [fd |-> fd]
dup(v, fd) == Into(v, Call("dup")) @@ [fd |-> fd]
pipe2(r, w) == Call("pipe") @@ [rd |-> r, wr |-> w]
read(fd, n) == Call("read") @@ [fd |-> fd, n |-> n, more |-> FALSE]
readmore(fd, n) == Call("read") @@ [fd |-> fd, n |-> n, more |-> TRUE]
write(fd, data) == Call("write") @@ [fd |-> fd, data |-> data, done |-> 0]
writebuf(fd) == Call("writebuf") @@ [fd |-> fd, done |-> 0]
fstat(v, fd) == Into(v, Call("fstat")) @@ [fd |-> fd]
\* The entries of an open directory whose names are in the set.
entries(fd, names) == Call("entries") @@ [fd |-> fd, names |-> names]

unlink(path) == Call("unlink") @@ [path |-> path]
link(old, new) == Call("link") @@ [old |-> old, path |-> new]
mkdir(path) == Call("mknod") @@ [path |-> path, dir |-> TRUE]
mknod(path) == Call("mknod") @@ [path |-> path, dir |-> FALSE]
chdir(path) == Call("chdir") @@ [path |-> path]

\* sbrk(n); and sbrk of whatever puts the break at base+off.
sbrk(v, n) == Into(v, Call("sbrk")) @@ [to |-> "", n |-> n, lazy |-> FALSE]
sbrklazy(v, n) == Into(v, Call("sbrk")) @@ [to |-> "", n |-> n, lazy |-> TRUE]
brk(v, base, off) == Into(v, Call("sbrk")) @@ [to |-> base, n |-> off, lazy |-> FALSE]
store(base, off, val) == Call("store") @@ [base |-> base, off |-> off, val |-> val]
load(base, off, vals) == Must(Call("load"), Is(1)) @@ [base |-> base, off |-> off, vals |-> vals]

shmget(name, create, persist) == Call("shmget") @@ [name |-> name, create |-> create, persist |-> persist]
shmat(name) == Call("shmat") @@ [name |-> name]
shmdt(name) == Call("shmdt") @@ [name |-> name]
shmrm(name) == Call("shmrm") @@ [name |-> name]
shmstore(name, val) == Call("shmstore") @@ [name |-> name, val |-> val]
shmload(name, val) == Must(Call("shmload"), Is(1)) @@ [name |-> name, val |-> val]

\* Control between calls.
when(test, set, then, else) ==
  Call("when") @@ [test |-> test, set |-> set, then |-> then, else |-> else]
while(test, set, body) == Call("while") @@ [test |-> test, set |-> set, then |-> body]
forever(body) == while("zero", Zero, body)
if(test, set, then) == when(test, set, then, << >>)
\* One of the alternatives, as a pseudo-random number decides.
oneof(alts) == Call("oneof") @@ [alts |-> alts]
add(v, n) == Into(v, Call("add")) @@ [n |-> n]
spin == Call("spin")
equal(a, b) == Call("equal") @@ [a |-> a, b |-> b]
same(a, b) == Must(equal(a, b), Is(1))
less(a, b) == Call("less") @@ [a |-> a, b |-> b]
\* Variable a is b + n.
at(a, b, n) == Must(Call("at"), Is(1)) @@ [a |-> a, b |-> b, n |-> n]
\* What was read is a beginning of the data.
begins(data) == Call("begins") @@ [data |-> data]
holds(data) == Must(Call("holds"), Is(1)) @@ [data |-> {data}]
holdsOne(datas) == Must(Call("holds"), Is(1)) @@ [data |-> datas]

\* The modes of open: kernel/fcntl.h.
Mode(r, w, create, trunc) == [r |-> r, w |-> w, create |-> create, trunc |-> trunc]
O_RDONLY == Mode(TRUE, FALSE, FALSE, FALSE)
O_WRONLY == Mode(FALSE, TRUE, FALSE, FALSE)
O_RDWR == Mode(TRUE, TRUE, FALSE, FALSE)
O_CREATE(mode) == [mode EXCEPT !.create = TRUE]
O_TRUNC(mode) == [mode EXCEPT !.trunc = TRUE]

\* A loop whose body depends on the index.
For(n, Body(_)) == FlattenSeq([i \in 1 .. n |-> Body(i)])
\* A loop left early: Body(x, rest) says where the iterations after x go.
Unrolled(Body(_, _), xs, after) == FoldRight(Body, xs, after)
Repeat(n, body) == FlattenSeq([i \in 1 .. n |-> body])
=============================================================================
