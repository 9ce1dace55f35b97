------------------------------ MODULE Umalloc ------------------------------
(***************************************************************************)
(* malloc and free of user/umalloc.c: a circular list of free blocks in     *)
(* address order, walked one block a step.  Addresses and sizes count       *)
(* headers, so that a request is its nunits; address 0 is base, the heap    *)
(* begins at 1.  ptr is that of the headers on the list, size that of every *)
(* header.                                                                  *)
(***************************************************************************)
EXTENDS Integers

CONSTANTS MORE,       \* 4096 in morecore
          LIMIT,      \* the break sbrk cannot go past
          Requests    \* the nunits asked for

ASSUME HeapAssumption == MORE \in Nat \ {0} /\ LIMIT \in Nat /\ Requests \subseteq Nat \ {0}

VARIABLES
  ptr, size, freep,
  brk,             \* the end of the process
  held,            \* block handed out and not freed -> the units asked for
  got,             \* the units morecore obtained
  nunits,          \* what malloc is about, 0: malloc is not running
  p, prevp, bp,    \* the loops' variables
  doing            \* "idle", "search": malloc's loop, "insert": free's loop

heapVars == <<ptr, size, freep, brk, held, got, nunits, p, prevp, bp, doing>>

Base == 0
Most(a, b) == IF a < b THEN b ELSE a

\* base as malloc's first call leaves it.
HeapInit ==
  /\ ptr = [x \in {Base} |-> Base]
  /\ size = [x \in {Base} |-> 0]
  /\ freep = Base
  /\ brk = 1
  /\ held = [x \in {} |-> 0]
  /\ got = {}
  /\ nunits = 0 /\ p = Base /\ prevp = Base /\ bp = Base
  /\ doing = "idle"

Idle == doing' = "idle" /\ nunits' = 0 /\ p' = Base /\ prevp' = Base /\ bp' = Base

malloc(n) ==
  /\ doing = "idle"
  /\ nunits' = n
  /\ prevp' = freep
  /\ p' = ptr[freep]
  /\ doing' = "search"
  /\ UNCHANGED <<ptr, size, freep, brk, held, got, bp>>

\* A block of just the size leaves the list; of a larger one the tail is handed
\* out.
Take ==
  /\ doing = "search"
  /\ size[p] >= nunits
  /\ LET rest == size[p] - nunits
         block == p + rest
     IN /\ IF rest = 0
           THEN /\ ptr' = [x \in DOMAIN ptr \ {p} |-> IF x = prevp THEN ptr[p] ELSE ptr[x]]
                /\ UNCHANGED size
           ELSE /\ size' = [x \in DOMAIN size \cup {block} |->
                              IF x = p THEN rest ELSE IF x = block THEN nunits ELSE size[x]]
                /\ UNCHANGED ptr
        /\ held' = [x \in DOMAIN held \cup {block} |-> IF x = block THEN nunits ELSE held[x]]
  /\ freep' = prevp
  /\ Idle
  /\ UNCHANGED <<brk, got>>

Advance ==
  /\ doing = "search"
  /\ size[p] < nunits
  /\ p # freep
  /\ prevp' = p
  /\ p' = ptr[p]
  /\ UNCHANGED <<ptr, size, freep, brk, held, got, nunits, bp, doing>>

\* Once round the list: sbrk, and what it gives goes to free.  Units stand for
\* bytes: sbrk takes an int, and a request of 2^31 bytes or more, whose size
\* would change sign on the way, is not modelled.
morecore ==
  /\ doing = "search"
  /\ size[p] < nunits
  /\ p = freep
  /\ LET nu == Most(nunits, MORE)
     IN IF brk + nu > LIMIT THEN Idle /\ UNCHANGED <<size, brk, got>>
        ELSE /\ brk' = brk + nu
             /\ size' = [x \in DOMAIN size \cup {brk} |-> IF x = brk THEN nu ELSE size[x]]
             /\ got' = got \cup (brk .. brk + nu - 1)
             /\ bp' = brk
             /\ p' = freep
             /\ doing' = "insert"
             /\ UNCHANGED <<nunits, prevp>>
  /\ UNCHANGED <<ptr, freep, held>>

free(x) ==
  /\ doing = "idle"
  /\ held' = [y \in DOMAIN held \ {x} |-> held[y]]
  /\ bp' = x
  /\ p' = freep
  /\ doing' = "insert"
  /\ UNCHANGED <<ptr, size, freep, brk, got, nunits, prevp>>

\* bp belongs behind p: before the next block, or beyond either end of the list.
Found ==
  \/ bp > p /\ bp < ptr[p]
  \/ p >= ptr[p] /\ (bp > p \/ bp < ptr[p])

Walk ==
  /\ doing = "insert"
  /\ ~Found
  /\ p' = ptr[p]
  /\ UNCHANGED <<ptr, size, freep, brk, held, got, nunits, prevp, bp, doing>>

\* Mutant: a block is not joined to the free one below it.
InsertApart ==
  LET next == ptr[p]
      up == bp + size[bp] = next
      after == IF up THEN ptr[next] ELSE next
      gone == IF up THEN {next} ELSE {}
  IN /\ doing = "insert"
     /\ Found
     /\ ptr' = [x \in (DOMAIN ptr \cup {bp}) \ gone |-> IF x = p THEN bp ELSE IF x = bp THEN after ELSE ptr[x]]
     /\ size' = [x \in DOMAIN size \ gone |-> IF x = bp THEN size[bp] + (IF up THEN size[next] ELSE 0) ELSE size[x]]
     /\ freep' = p
     /\ IF nunits = 0 THEN Idle
        ELSE prevp' = p /\ p' = ptr'[p] /\ bp' = Base /\ doing' = "search" /\ UNCHANGED nunits
     /\ UNCHANGED <<brk, held, got>>

\* Joined to the block above and to the one below, where they touch; then back to
\* the caller of free or, in malloc, on with the loop from the new freep.
Insert ==
  LET next == ptr[p]
      up == bp + size[bp] = next
      down == p + size[p] = bp
      sum == size[bp] + IF up THEN size[next] ELSE 0
      after == IF up THEN ptr[next] ELSE next
      gone == (IF up THEN {next} ELSE {}) \cup (IF down THEN {bp} ELSE {})
  IN /\ doing = "insert"
     /\ Found
     /\ ptr' = [x \in (DOMAIN ptr \cup {bp}) \ gone |->
                  IF x = p THEN (IF down THEN after ELSE bp) ELSE IF x = bp THEN after ELSE ptr[x]]
     /\ size' = [x \in DOMAIN size \ gone |->
                   IF x = p /\ down THEN size[p] + sum ELSE IF x = bp THEN sum ELSE size[x]]
     /\ freep' = p
     /\ IF nunits = 0 THEN Idle
        ELSE prevp' = p /\ p' = ptr'[p] /\ bp' = Base /\ doing' = "search" /\ UNCHANGED nunits
     /\ UNCHANGED <<brk, held, got>>

\* The program calls sbrk itself, so that the heap has a hole.
Sbrk ==
  /\ doing = "idle"
  /\ brk < LIMIT
  /\ brk' = brk + 1
  /\ UNCHANGED <<ptr, size, freep, held, got, nunits, p, prevp, bp, doing>>

HeapNext ==
  \/ \E n \in Requests : malloc(n)
  \/ Take \/ Advance \/ morecore
  \/ \E x \in DOMAIN held : free(x)
  \/ Walk \/ Insert
  \/ Sbrk

HeapSpec == HeapInit /\ [][HeapNext]_heapVars
-----------------------------------------------------------------------------
\* The blocks handed out, on the list, and on the way back to it.
Blocks == DOMAIN held \cup DOMAIN ptr \cup (IF doing = "insert" THEN {bp} ELSE {})
Units(x) == x .. x + size[x] - 1

\* malloc and free: what sbrk gave is at every moment divided among the blocks
\* handed out and the free list, without overlap and without loss, and a block
\* handed out stays as large as was asked for.
HeapPartition ==
  /\ \A x, y \in Blocks : x # y => Units(x) \cap Units(y) = {}
  /\ DOMAIN held \cap DOMAIN ptr = {}
  /\ UNION {Units(x) : x \in Blocks} = got
  /\ \A x \in DOMAIN held : size[x] = held[x]

\* free: the list goes round once in address order, and no two of its blocks
\* touch, so that a block is as large as the frees so far allow.
FreeCoalesced ==
  /\ \A x \in DOMAIN ptr :
       /\ ptr[x] \in DOMAIN ptr
       /\ \A y \in DOMAIN ptr : IF x < ptr[x] THEN ~(x < y /\ y < ptr[x]) ELSE ptr[x] <= y /\ y <= x
  /\ \A x, y \in DOMAIN ptr : x # Base => x + size[x] # y

\* malloc and free keep the heap divided among the blocks without overlap or
\* loss, and adjacent free blocks are one.
HeapSound == HeapPartition /\ FreeCoalesced
=============================================================================
