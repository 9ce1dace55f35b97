---------------------------- MODULE LibraryProofs ----------------------------
(***************************************************************************)
(* The library under the programs: malloc and free keep every heap whole,  *)
(* xqsort sorts and xbsearch finds in every array.                         *)
(***************************************************************************)
EXTENDS XStdlib, Umalloc, FiniteSetTheorems, TLAPS

-----------------------------------------------------------------------------
(* malloc and free.                                                        *)

Free == DOMAIN ptr
All == DOMAIN size
End(x) == x + size[x]

HeapTypes ==
  /\ brk \in Nat \ {0} /\ nunits \in Nat
  /\ All \subseteq Nat /\ size \in [All -> Nat] /\ ptr \in [Free -> Free] /\ got \subseteq Int
  /\ doing \in {"idle", "search", "insert"}
  /\ Base \in Free /\ freep \in Free

\* Every header is free, handed out, or on its way to the list.
Headers ==
  /\ All = Free \cup DOMAIN held \cup (IF doing = "insert" THEN {bp} ELSE {})
  /\ Free \cap DOMAIN held = {}
  /\ doing = "insert" => bp \notin Free /\ bp \notin DOMAIN held
  /\ \A x \in DOMAIN held : size[x] = held[x]
  /\ size[Base] = 0 /\ \A x \in All : x # Base => size[x] > 0

\* The blocks lie in address order, end before the break, and are what sbrk gave.
Layout ==
  /\ \A x, y \in All : x < y => End(x) <= y
  /\ \A x \in All : x < brk /\ End(x) <= brk
  /\ \A u \in Int : u \in got <=> \E x \in All : x <= u /\ u < End(x)

\* The list goes round once in address order and its blocks do not touch.
Successor ==
  \A x, y \in Free : IF x < ptr[x] THEN y <= x \/ ptr[x] <= y ELSE ptr[x] <= y /\ y <= x
Touchless == \A x, y \in Free : x # Base => End(x) # y

\* Where the loops stand.
Loops ==
  /\ doing = "idle" => nunits = 0
  /\ doing = "search" => p \in Free /\ prevp \in Free /\ ptr[prevp] = p /\ nunits > 0
  /\ doing = "insert" => p \in Free

HeapInv == HeapTypes /\ Headers /\ Layout /\ Successor /\ Touchless /\ Loops

-----------------------------------------------------------------------------
LEMMA HeapInvInit == HeapInit => HeapInv
<1> SUFFICES ASSUME HeapInit PROVE HeapInv
  OBVIOUS
<1>1. /\ Free = {0} /\ All = {0} /\ ptr[0] = 0 /\ size[0] = 0 /\ DOMAIN held = {}
      /\ brk = 1 /\ got = {} /\ nunits = 0 /\ doing = "idle" /\ freep = 0
      /\ ptr \in [Free -> Free] /\ size \in [All -> Nat]
  BY DEF HeapInit, Free, All, Base
<1> QED BY <1>1 DEF HeapInv, HeapTypes, Headers, Layout, Successor, Touchless, Loops, End, Base

\* Steps that only move the loops' variables.
LEMMA HeapUnchanged ==
  ASSUME HeapInv, UNCHANGED <<ptr, size, freep, held, got>>
  PROVE  /\ Free' = Free /\ All' = All /\ size' = size /\ ptr' = ptr /\ held' = held /\ freep' = freep
         /\ Successor' /\ Touchless'
         /\ brk' = brk => Layout'
<1>1. Free' = Free /\ All' = All /\ \A x : End(x)' = x + size[x]
  BY DEF Free, All, End
<1> QED BY <1>1 DEF HeapInv, Layout, Successor, Touchless, End, Base

LEMMA MallocStep == ASSUME HeapInv, NEW n \in Requests, malloc(n) PROVE HeapInv'
<1>1. /\ UNCHANGED <<ptr, size, freep, held, got>> /\ brk' = brk
      /\ doing = "idle" /\ doing' = "search" /\ nunits' = n /\ prevp' = freep /\ p' = ptr[freep]
  BY DEF malloc
<1>2. /\ Free' = Free /\ All' = All /\ size' = size /\ ptr' = ptr /\ held' = held /\ freep' = freep
      /\ Successor' /\ Touchless' /\ Layout'
  BY <1>1, HeapUnchanged
<1>3. n \in Nat /\ n > 0
  BY HeapAssumption
<1>4. HeapTypes'
  BY <1>1, <1>2, <1>3 DEF HeapInv, HeapTypes, Base
<1>5. Headers'
  BY <1>1, <1>2 DEF HeapInv, Headers, Base
<1>6. Loops'
  BY <1>1, <1>2, <1>3 DEF HeapInv, HeapTypes, Loops
<1> QED BY <1>2, <1>4, <1>5, <1>6 DEF HeapInv

LEMMA AdvanceStep == ASSUME HeapInv, Advance PROVE HeapInv'
<1>1. /\ UNCHANGED <<ptr, size, freep, held, got>> /\ brk' = brk
      /\ doing = "search" /\ doing' = "search" /\ nunits' = nunits /\ prevp' = p /\ p' = ptr[p] /\ bp' = bp
  BY DEF Advance
<1>2. /\ Free' = Free /\ All' = All /\ size' = size /\ ptr' = ptr /\ held' = held /\ freep' = freep
      /\ Successor' /\ Touchless' /\ Layout'
  BY <1>1, HeapUnchanged
<1>4. HeapTypes'
  BY <1>1, <1>2 DEF HeapInv, HeapTypes, Base
<1>5. Headers'
  BY <1>1, <1>2 DEF HeapInv, Headers, Base
<1>6. Loops'
  BY <1>1, <1>2 DEF HeapInv, HeapTypes, Loops
<1> QED BY <1>2, <1>4, <1>5, <1>6 DEF HeapInv

LEMMA WalkStep == ASSUME HeapInv, Walk PROVE HeapInv'
<1>1. /\ UNCHANGED <<ptr, size, freep, held, got>> /\ brk' = brk
      /\ doing = "insert" /\ doing' = "insert" /\ nunits' = nunits /\ p' = ptr[p] /\ bp' = bp
  BY DEF Walk
<1>2. /\ Free' = Free /\ All' = All /\ size' = size /\ ptr' = ptr /\ held' = held /\ freep' = freep
      /\ Successor' /\ Touchless' /\ Layout'
  BY <1>1, HeapUnchanged
<1>4. HeapTypes'
  BY <1>1, <1>2 DEF HeapInv, HeapTypes, Base
<1>5. Headers'
  BY <1>1, <1>2 DEF HeapInv, Headers, Base
<1>6. Loops'
  BY <1>1, <1>2 DEF HeapInv, HeapTypes, Loops
<1> QED BY <1>2, <1>4, <1>5, <1>6 DEF HeapInv

LEMMA SbrkStep == ASSUME HeapInv, Sbrk PROVE HeapInv'
<1>1. /\ UNCHANGED <<ptr, size, freep, held, got>> /\ brk' = brk + 1
      /\ doing = "idle" /\ doing' = "idle" /\ nunits' = nunits /\ bp' = bp /\ p' = p /\ prevp' = prevp
  BY DEF Sbrk
<1>2. /\ Free' = Free /\ All' = All /\ size' = size /\ ptr' = ptr /\ held' = held /\ freep' = freep
      /\ Successor' /\ Touchless'
  BY <1>1, HeapUnchanged
<1>3. Layout'
  <2>1. brk \in Nat /\ \A x \in All : x \in Nat /\ size[x] \in Nat
    BY DEF HeapInv, HeapTypes
  <2>2. got' = got
    BY <1>1
  <2> QED BY <1>1, <1>2, <2>1, <2>2 DEF HeapInv, Layout, End
<1>4. HeapTypes'
  BY <1>1, <1>2 DEF HeapInv, HeapTypes, Base
<1>5. Headers'
  BY <1>1, <1>2 DEF HeapInv, Headers, Base
<1>6. Loops'
  BY <1>1, <1>2 DEF HeapInv, HeapTypes, Loops
<1> QED BY <1>2, <1>3, <1>4, <1>5, <1>6 DEF HeapInv

LEMMA FreeStep == ASSUME HeapInv, NEW b \in DOMAIN held, free(b) PROVE HeapInv'
<1>1. /\ UNCHANGED <<ptr, size, freep, got>> /\ brk' = brk /\ nunits' = nunits
      /\ doing = "idle" /\ doing' = "insert" /\ p' = freep /\ bp' = b
      /\ held' = [y \in DOMAIN held \ {b} |-> held[y]]
  BY DEF free
<1>2. /\ Free' = Free /\ All' = All /\ size' = size /\ ptr' = ptr /\ freep' = freep
      /\ Successor' /\ Touchless' /\ Layout'
  BY <1>1 DEF HeapInv, Layout, Successor, Touchless, End, Free, All, Base
<1>4. HeapTypes'
  BY <1>1, <1>2 DEF HeapInv, HeapTypes, Base
<1>5. Headers'
  <2>1. DOMAIN held' = DOMAIN held \ {b} /\ \A y \in DOMAIN held' : held'[y] = held[y]
    BY <1>1
  <2> QED BY <1>1, <1>2, <2>1 DEF HeapInv, Headers, Base
<1>6. Loops'
  BY <1>1, <1>2 DEF HeapInv, HeapTypes, Loops
<1> QED BY <1>2, <1>4, <1>5, <1>6 DEF HeapInv

LEMMA MorecoreStep == ASSUME HeapInv, morecore PROVE HeapInv'
<1> DEFINE nu == Most(nunits, MORE)
<1>1. CASE brk + nu > LIMIT
  <2>1. /\ UNCHANGED <<ptr, size, freep, held, got>> /\ brk' = brk
        /\ doing = "search" /\ doing' = "idle" /\ nunits' = 0
    BY <1>1 DEF morecore, Idle
  <2>2. /\ Free' = Free /\ All' = All /\ size' = size /\ ptr' = ptr /\ held' = held /\ freep' = freep
        /\ Successor' /\ Touchless' /\ Layout'
    BY <2>1, HeapUnchanged
  <2>4. HeapTypes'
    BY <2>1, <2>2 DEF HeapInv, HeapTypes, Base
  <2>5. Headers'
    BY <2>1, <2>2 DEF HeapInv, Headers, Base
  <2>6. Loops'
    BY <2>1 DEF Loops
  <2> QED BY <2>2, <2>4, <2>5, <2>6 DEF HeapInv
<1>2. CASE ~(brk + nu > LIMIT)
  <2>1. /\ UNCHANGED <<ptr, freep, held>> /\ brk' = brk + nu
        /\ size' = [x \in DOMAIN size \cup {brk} |-> IF x = brk THEN nu ELSE size[x]]
        /\ got' = got \cup (brk .. brk + nu - 1)
        /\ doing = "search" /\ doing' = "insert" /\ nunits' = nunits /\ bp' = brk /\ p' = freep
    BY <1>2 DEF morecore
  <2>2. /\ brk \in Nat \ {0} /\ nunits \in Nat /\ All \subseteq Nat /\ size \in [All -> Nat]
        /\ got \subseteq Int /\ Free \subseteq All
    BY DEF HeapInv, HeapTypes, Headers
  <2>3. nu \in Nat /\ nu > 0
    BY <2>2, HeapAssumption DEF Most
  <2>4. brk \notin All
    BY <2>2 DEF HeapInv, Layout
  <2> HIDE DEF nu
  <2>5. Free' = Free /\ All' = All \cup {brk} /\ held' = held /\ ptr' = ptr /\ freep' = freep
    BY <2>1 DEF Free, All
  <2>6. size'[brk] = nu /\ \A x \in All : size'[x] = size[x]
    BY <2>1, <2>4 DEF All
  <2>7. HeapTypes'
    BY <2>1, <2>2, <2>3, <2>5, <2>6 DEF HeapInv, HeapTypes, Base, All
  <2>8. Headers'
    <3>1. Headers /\ Base \in All /\ Base # brk
      BY <2>2, <2>4 DEF HeapInv, HeapTypes
    <3> QED BY <2>1, <2>2, <2>3, <2>4, <2>5, <2>6, <3>1 DEF Headers, Base
  <2>9. Layout'
    <3>0. /\ \A x, y \in All : x < y => x + size[x] <= y
          /\ \A x \in All : x < brk /\ x + size[x] <= brk /\ x \in Nat /\ size[x] \in Nat
          /\ \A u \in Int : u \in got <=> \E x \in All : x <= u /\ u < x + size[x]
      BY <2>2 DEF HeapInv, Layout, End
    <3>1. \A x, y \in All' : x < y => x + size'[x] <= y
      BY <2>2, <2>3, <2>5, <2>6, <3>0
    <3>2. \A x \in All' : x < brk' /\ x + size'[x] <= brk'
      BY <2>1, <2>2, <2>3, <2>5, <2>6, <3>0
    <3>3. \A u \in Int : u \in got' <=> \E x \in All' : x <= u /\ u < x + size'[x]
      <4> TAKE u \in Int
      <4>1. u \in got' <=> u \in got \/ (brk <= u /\ u < brk + nu)
        BY <2>1, <2>2, <2>3
      <4>2. (\E x \in All' : x <= u /\ u < x + size'[x]) <=>
              (\E x \in All : x <= u /\ u < x + size[x]) \/ (brk <= u /\ u < brk + nu)
        BY <2>5, <2>6
      <4> QED BY <3>0, <4>1, <4>2
    <3> QED BY <3>1, <3>2, <3>3 DEF Layout, End
  <2>10. Successor'
    BY <2>5 DEF HeapInv, Successor
  <2>11. Touchless'
    BY <2>2, <2>5, <2>6 DEF HeapInv, Touchless, End, Base
  <2>12. Loops'
    BY <2>1, <2>5 DEF HeapInv, HeapTypes, Loops
  <2> QED BY <2>7, <2>8, <2>9, <2>10, <2>11, <2>12 DEF HeapInv
<1> QED BY <1>1, <1>2

\* The invariant, header by header.
LEMMA HeapFacts ==
  ASSUME HeapInv
  PROVE  /\ brk \in Nat \ {0} /\ nunits \in Nat /\ got \subseteq Int /\ freep \in Free
         /\ 0 \in Free /\ size[0] = 0
         /\ \A x \in Free : x \in All /\ ptr[x] \in Free
         /\ \A x \in All : x \in Nat /\ size[x] \in Nat /\ x < brk /\ x + size[x] <= brk
         /\ \A x \in All : x # 0 => size[x] > 0
         /\ \A x, y \in All : x < y => x + size[x] <= y
         /\ \A u \in Int : u \in got <=> \E x \in All : x <= u /\ u < x + size[x]
         /\ \A x, y \in Free : IF x < ptr[x] THEN y <= x \/ ptr[x] <= y ELSE ptr[x] <= y /\ y <= x
         /\ \A x, y \in Free : x # 0 => x + size[x] # y
<1>1. \A x \in Free : x \in All
  BY DEF HeapInv, Headers
<1>2. \A x \in All : x \in Nat /\ size[x] \in Nat
  BY DEF HeapInv, HeapTypes
<1>3. /\ brk \in Nat \ {0} /\ nunits \in Nat /\ got \subseteq Int /\ freep \in Free
      /\ 0 \in Free /\ size[0] = 0 /\ \A x \in Free : ptr[x] \in Free
  BY DEF HeapInv, HeapTypes, Headers, Base
<1>4. \A x \in All : x < brk /\ x + size[x] <= brk
  BY DEF HeapInv, Layout, End
<1>5. \A x \in All : x # 0 => size[x] > 0
  BY DEF HeapInv, Headers, Base
<1>6. /\ \A x, y \in All : x < y => x + size[x] <= y
      /\ \A u \in Int : u \in got <=> \E x \in All : x <= u /\ u < x + size[x]
  BY DEF HeapInv, Layout, End
<1>7. /\ \A x, y \in Free : IF x < ptr[x] THEN y <= x \/ ptr[x] <= y ELSE ptr[x] <= y /\ y <= x
      /\ \A x, y \in Free : x # 0 => x + size[x] # y
  BY DEF HeapInv, Successor, Touchless, End, Base
<1> QED BY <1>1, <1>2, <1>3, <1>4, <1>5, <1>6, <1>7

LEMMA TakeStep == ASSUME HeapInv, Take PROVE HeapInv'
<1> DEFINE rest == size[p] - nunits
           block == p + rest
<1>1. /\ doing = "search" /\ size[p] >= nunits
      /\ IF rest = 0
         THEN /\ ptr' = [x \in DOMAIN ptr \ {p} |-> IF x = prevp THEN ptr[p] ELSE ptr[x]]
              /\ size' = size
         ELSE /\ size' = [x \in DOMAIN size \cup {block} |->
                            IF x = p THEN rest ELSE IF x = block THEN nunits ELSE size[x]]
              /\ ptr' = ptr
      /\ held' = [x \in DOMAIN held \cup {block} |-> IF x = block THEN nunits ELSE held[x]]
      /\ freep' = prevp /\ doing' = "idle" /\ nunits' = 0 /\ brk' = brk /\ got' = got
  BY DEF Take, Idle
<1>2. /\ brk \in Nat \ {0} /\ nunits \in Nat /\ got \subseteq Int /\ freep \in Free
      /\ 0 \in Free /\ size[0] = 0
      /\ \A x \in Free : x \in All /\ ptr[x] \in Free
      /\ \A x \in All : x \in Nat /\ size[x] \in Nat /\ x < brk /\ x + size[x] <= brk
      /\ \A x \in All : x # 0 => size[x] > 0
      /\ \A x, y \in All : x < y => x + size[x] <= y
      /\ \A u \in Int : u \in got <=> \E x \in All : x <= u /\ u < x + size[x]
      /\ \A x, y \in Free : IF x < ptr[x] THEN y <= x \/ ptr[x] <= y ELSE ptr[x] <= y /\ y <= x
      /\ \A x, y \in Free : x # 0 => x + size[x] # y
  BY HeapFacts
<1>3. p \in Free /\ prevp \in Free /\ ptr[prevp] = p /\ nunits > 0
  BY <1>1 DEF HeapInv, Loops
<1>4. /\ All = Free \cup DOMAIN held /\ Free \cap DOMAIN held = {}
      /\ \A x \in DOMAIN held : size[x] = held[x]
      /\ Free = DOMAIN ptr /\ All = DOMAIN size
  BY <1>1 DEF HeapInv, Headers, Free, All
<1>5. p \in All /\ p \in Nat /\ p # 0 /\ size[p] \in Nat /\ nunits \in Nat /\ rest \in Nat /\ prevp # p
  BY <1>1, <1>2, <1>3
<1>6. Loops'
  BY <1>1 DEF Loops
<1>7. CASE rest = 0
  <2>1. block = p /\ size[p] = nunits
    BY <1>5, <1>7
  <2> HIDE DEF rest, block
  <2>2. /\ Free' = Free \ {p} /\ size' = size /\ All' = All
        /\ \A x \in Free' : ptr'[x] = IF x = prevp THEN ptr[p] ELSE ptr[x]
    BY <1>1, <1>4, <1>7 DEF Free, All
  <2>3. DOMAIN held' = DOMAIN held \cup {p} /\ \A x \in DOMAIN held' : held'[x] = IF x = p THEN nunits ELSE held[x]
    BY <1>1, <2>1
  <2>4. \A x \in Free' : ptr'[x] \in Free'
    <3>1. ptr[p] # p
      BY <1>2, <1>3, <1>5
    <3>2. \A x \in Free : x # prevp => ptr[x] # p
      BY <1>2, <1>3, <1>5
    <3> QED BY <1>2, <1>3, <2>2, <3>1, <3>2
  <2>5. Successor'
    <3> SUFFICES ASSUME NEW x \in Free', NEW y \in Free'
                 PROVE  IF x < ptr'[x] THEN y <= x \/ ptr'[x] <= y ELSE ptr'[x] <= y /\ y <= x
      BY DEF Successor
    <3>1. CASE x # prevp
      BY <1>2, <2>2, <3>1
    <3>2. CASE x = prevp
      <4>1. ptr'[x] = ptr[p] /\ y \in Free /\ y # p /\ y \in Nat /\ prevp \in Nat /\ ptr[p] \in Nat
        BY <1>2, <1>3, <2>2, <3>2
      <4>2. /\ IF prevp < p THEN y <= prevp \/ p <= y ELSE p <= y /\ y <= prevp
            /\ IF p < ptr[p] THEN y <= p \/ ptr[p] <= y ELSE ptr[p] <= y /\ y <= p
            /\ IF p < ptr[p] THEN prevp <= p \/ ptr[p] <= prevp ELSE ptr[p] <= prevp /\ prevp <= p
            /\ IF prevp < p THEN ptr[p] <= prevp \/ p <= ptr[p] ELSE p <= ptr[p] /\ ptr[p] <= prevp
        BY <1>2, <1>3, <4>1
      <4> QED BY <1>5, <3>2, <4>1, <4>2
    <3> QED BY <3>1, <3>2
  <2>6. HeapTypes'
    <3>1. ptr' \in [Free' -> Free']
      BY <1>1, <1>4, <1>7, <2>2, <2>4
    <3> QED BY <1>1, <1>2, <1>3, <1>5, <2>2, <3>1 DEF HeapInv, HeapTypes, Base
  <2>7. Headers'
    <3>1. All' = Free' \cup DOMAIN held' /\ Free' \cap DOMAIN held' = {}
      BY <1>3, <1>4, <2>2, <2>3
    <3>2. \A x \in DOMAIN held' : size'[x] = held'[x]
      BY <1>4, <2>1, <2>2, <2>3
    <3>3. size'[0] = 0 /\ \A x \in All' : x # 0 => size'[x] > 0
      BY <1>2, <2>2
    <3> QED BY <1>1, <3>1, <3>2, <3>3 DEF Headers, Base
  <2>8. Layout'
    BY <1>1, <1>2, <2>2 DEF Layout, End
  <2>9. Touchless'
    BY <1>2, <2>2 DEF Touchless, End, Base
  <2> QED BY <1>6, <2>5, <2>6, <2>7, <2>8, <2>9 DEF HeapInv
<1>8. CASE rest # 0
  <2>1. block \in Nat /\ p < block /\ block < p + size[p] /\ block + nunits = p + size[p] /\ p + rest = block
        /\ rest \in Nat /\ rest > 0
    BY <1>2, <1>3, <1>5, <1>8
  <2>2. block \notin All
    BY <1>2, <1>5, <2>1
  <2> HIDE DEF rest, block
  <2>3. /\ Free' = Free /\ ptr' = ptr /\ All' = All \cup {block}
        /\ size'[p] = rest /\ size'[block] = nunits
        /\ \A x \in All : x # p => size'[x] = size[x]
        /\ size' \in [All' -> Nat]
    <3>1. /\ size' = [x \in All \cup {block} |-> IF x = p THEN rest ELSE IF x = block THEN nunits ELSE size[x]]
          /\ ptr' = ptr
      BY <1>1, <1>4, <1>8
    <3>2. Free' = Free /\ All' = All \cup {block}
      BY <3>1 DEF Free, All
    <3> QED BY <1>2, <1>5, <2>1, <2>2, <3>1, <3>2
  <2>4. DOMAIN held' = DOMAIN held \cup {block} /\ \A x \in DOMAIN held' : held'[x] = IF x = block THEN nunits ELSE held[x]
    BY <1>1
  <2>5. HeapTypes'
    BY <1>1, <1>2, <1>3, <2>1, <2>3 DEF HeapInv, HeapTypes, Base
  <2>6. Headers'
    <3>1. /\ All' = Free' \cup DOMAIN held' /\ Free' \cap DOMAIN held' = {}
      BY <1>2, <1>4, <2>2, <2>3, <2>4
    <3>2. \A x \in DOMAIN held' : size'[x] = held'[x]
      <4> TAKE x \in DOMAIN held'
      <4>1. CASE x = block
        BY <2>3, <2>4, <4>1
      <4>2. CASE x # block
        <5>1. x \in DOMAIN held /\ x \in All /\ x # p
          BY <1>3, <1>4, <2>4, <4>2
        <5> QED BY <1>4, <2>3, <2>4, <4>2, <5>1
      <4> QED BY <4>1, <4>2
    <3>3. size'[0] = 0 /\ \A x \in All' : x # 0 => size'[x] > 0
      BY <1>2, <1>3, <1>5, <2>1, <2>3
    <3> QED BY <1>1, <3>1, <3>2, <3>3 DEF Headers, Base
  <2>7. Layout'
    <3>1. \A x, y \in All' : x < y => x + size'[x] <= y
      <4> SUFFICES ASSUME NEW x \in All', NEW y \in All', x < y PROVE x + size'[x] <= y
        OBVIOUS
      <4>1. CASE x = p
        <5>1. y = block \/ (y \in All /\ p + size[p] <= y)
          BY <1>2, <1>5, <2>3, <4>1
        <5> QED BY <1>2, <1>5, <2>1, <2>3, <4>1, <5>1
      <4>2. CASE x = block
        <5>1. y \in All /\ p < y
          BY <1>2, <1>5, <2>1, <2>3, <4>2
        <5> QED BY <1>2, <1>5, <2>1, <2>3, <4>2, <5>1
      <4>3. CASE x # p /\ x # block
        <5>1. x \in All /\ size'[x] = size[x]
          BY <2>3, <4>3
        <5>2. CASE y = block
          <6>1. x < p
            BY <1>2, <1>5, <2>1, <4>3, <5>1, <5>2
          <6> QED BY <1>2, <1>5, <2>1, <5>1, <5>2, <6>1
        <5>3. CASE y # block
          BY <1>2, <2>3, <5>1, <5>3
        <5> QED BY <5>2, <5>3
      <4> QED BY <4>1, <4>2, <4>3
    <3>2. \A x \in All' : x < brk' /\ x + size'[x] <= brk'
      BY <1>1, <1>2, <1>5, <2>1, <2>3
    <3>3. \A u \in Int : u \in got' <=> \E x \in All' : x <= u /\ u < x + size'[x]
      <4> TAKE u \in Int
      <4>1. (\E x \in All' : x <= u /\ u < x + size'[x]) <=>
              \/ p <= u /\ u < block
              \/ block <= u /\ u < p + size[p]
              \/ \E x \in All : x # p /\ x <= u /\ u < x + size[x]
        <5>1. /\ (p <= u /\ u < p + size'[p]) <=> (p <= u /\ u < block)
              /\ (block <= u /\ u < block + size'[block]) <=> (block <= u /\ u < p + size[p])
          BY <2>1, <2>3
        <5>2. p \in All' /\ block \in All'
          BY <1>5, <2>3
        <5>3. \A x \in All : x # p => x \in All' /\ size'[x] = size[x]
          BY <2>3
        <5>4. \A x \in All' : x = p \/ x = block \/ (x \in All /\ x # p)
          BY <2>3
        <5> QED BY <5>1, <5>2, <5>3, <5>4, ZenonT(30)
      <4>2. (\E x \in All : x <= u /\ u < x + size[x]) <=>
              \/ p <= u /\ u < p + size[p]
              \/ \E x \in All : x # p /\ x <= u /\ u < x + size[x]
        BY <1>5, Zenon
      <4>3. (p <= u /\ u < p + size[p]) <=> ((p <= u /\ u < block) \/ (block <= u /\ u < p + size[p]))
        BY <1>5, <2>1
      <4> QED BY <1>1, <1>2, <4>1, <4>2, <4>3
    <3> QED BY <3>1, <3>2, <3>3 DEF Layout, End
  <2>8. Successor'
    BY <1>2, <2>3 DEF Successor
  <2>9. Touchless'
    <3> SUFFICES ASSUME NEW x \in Free, NEW y \in Free, x # 0 PROVE x + size'[x] # y
      BY <2>3 DEF Touchless, End, Base
    <3>1. CASE x = p
      BY <1>2, <2>1, <2>2, <2>3, <3>1
    <3>2. CASE x # p
      BY <1>2, <2>3, <3>2
    <3> QED BY <3>1, <3>2
  <2> QED BY <1>6, <2>5, <2>6, <2>7, <2>8, <2>9 DEF HeapInv
<1> QED BY <1>7, <1>8

\* Where free's loop stops: bp lies between p and the next block, or beyond the
\* last one.
LEMMA FoundFacts ==
  ASSUME HeapInv, doing = "insert", Found
  PROVE  /\ p \in Free /\ ptr[p] \in Free /\ bp \in All /\ bp \notin Free /\ bp \notin DOMAIN held /\ bp # 0
         /\ p \in Nat /\ bp \in Nat /\ ptr[p] \in Nat
         /\ p < bp
         /\ (bp < ptr[p] /\ \A y \in Free : y <= p \/ ptr[p] <= y) \/ (ptr[p] = 0 /\ \A y \in Free : y <= p)
<1>1. /\ 0 \in Free
      /\ \A x \in Free : x \in All /\ ptr[x] \in Free
      /\ \A x \in All : x \in Nat
      /\ \A x, y \in Free : IF x < ptr[x] THEN y <= x \/ ptr[x] <= y ELSE ptr[x] <= y /\ y <= x
  BY HeapFacts
<1>2. p \in Free /\ bp \in All /\ bp \notin Free /\ bp \notin DOMAIN held
  BY DEF HeapInv, Headers, Loops
<1>3. ptr[p] \in Free /\ p \in Nat /\ bp \in Nat /\ ptr[p] \in Nat /\ bp # 0
  BY <1>1, <1>2
<1>4. CASE bp > p /\ bp < ptr[p]
  BY <1>1, <1>2, <1>3, <1>4
<1>5. CASE p >= ptr[p] /\ (bp > p \/ bp < ptr[p])
  <2>1. ptr[p] <= 0 /\ \A y \in Free : y <= p
    BY <1>1, <1>2, <1>3, <1>5
  <2> QED BY <1>2, <1>3, <1>5, <2>1
<1> QED BY <1>4, <1>5 DEF Found

LEMMA InsertStep == ASSUME HeapInv, Insert PROVE HeapInv'
<1> DEFINE next == ptr[p]
           up == bp + size[bp] = next
           down == p + size[p] = bp
           sum == size[bp] + IF up THEN size[next] ELSE 0
           after == IF up THEN ptr[next] ELSE next
           gone == (IF up THEN {next} ELSE {}) \cup (IF down THEN {bp} ELSE {})
<1>1. /\ doing = "insert" /\ Found
      /\ ptr' = [x \in (DOMAIN ptr \cup {bp}) \ gone |->
                   IF x = p THEN (IF down THEN after ELSE bp) ELSE IF x = bp THEN after ELSE ptr[x]]
      /\ size' = [x \in DOMAIN size \ gone |->
                    IF x = p /\ down THEN size[p] + sum ELSE IF x = bp THEN sum ELSE size[x]]
      /\ freep' = p
      /\ brk' = brk /\ held' = held /\ got' = got
      /\ \/ nunits = 0 /\ doing' = "idle" /\ nunits' = 0
         \/ nunits # 0 /\ prevp' = p /\ p' = ptr'[p] /\ doing' = "search" /\ nunits' = nunits
  BY DEF Insert, Idle
<1>2. /\ brk \in Nat \ {0} /\ nunits \in Nat /\ got \subseteq Int /\ freep \in Free
      /\ 0 \in Free /\ size[0] = 0
      /\ \A x \in Free : x \in All /\ ptr[x] \in Free
      /\ \A x \in All : x \in Nat /\ size[x] \in Nat /\ x < brk /\ x + size[x] <= brk
      /\ \A x \in All : x # 0 => size[x] > 0
      /\ \A x, y \in All : x < y => x + size[x] <= y
      /\ \A u \in Int : u \in got <=> \E x \in All : x <= u /\ u < x + size[x]
      /\ \A x, y \in Free : IF x < ptr[x] THEN y <= x \/ ptr[x] <= y ELSE ptr[x] <= y /\ y <= x
      /\ \A x, y \in Free : x # 0 => x + size[x] # y
  BY HeapFacts
<1>3. /\ p \in Free /\ next \in Free /\ bp \in All /\ bp \notin Free /\ bp \notin DOMAIN held /\ bp # 0
      /\ p \in Nat /\ bp \in Nat /\ next \in Nat
      /\ p < bp
      /\ (bp < next /\ \A y \in Free : y <= p \/ next <= y) \/ (next = 0 /\ \A y \in Free : y <= p)
  BY <1>1, FoundFacts
<1>4. /\ All = Free \cup DOMAIN held \cup {bp} /\ Free \cap DOMAIN held = {}
      /\ \A x \in DOMAIN held : size[x] = held[x]
      /\ Free = DOMAIN ptr /\ All = DOMAIN size
  BY <1>1 DEF HeapInv, Headers, Free, All
<1>5. /\ size[p] \in Nat /\ size[bp] \in Nat /\ size[bp] > 0 /\ size[next] \in Nat
      /\ p \in All /\ next \in All
  BY <1>2, <1>3
<1>6. up => bp < next /\ next # 0 /\ p < next /\ size[next] > 0
  BY <1>2, <1>3, <1>5
<1>7. down => p # 0
  BY <1>2, <1>3, <1>5
<1>8. gone \subseteq {next, bp} /\ (next \in gone <=> up) /\ (bp \in gone <=> down)
  BY <1>3
<1>9. sum \in Nat /\ sum > 0 /\ bp + sum = IF up THEN next + size[next] ELSE bp + size[bp]
  BY <1>3, <1>5
<1>10. after \in Free /\ after = (IF up THEN ptr[next] ELSE next) /\ (up => after # next)
  BY <1>2, <1>3, <1>6
<1> HIDE DEF up, down, sum, after, gone, next
<1>11. /\ Free' = (Free \cup {bp}) \ gone /\ All' = All \ gone
       /\ ptr' = [x \in (Free \cup {bp}) \ gone |->
                    IF x = p THEN (IF down THEN after ELSE bp) ELSE IF x = bp THEN after ELSE ptr[x]]
       /\ size' = [x \in All \ gone |->
                     IF x = p /\ down THEN size[p] + sum ELSE IF x = bp THEN sum ELSE size[x]]
  BY <1>1, <1>4 DEF Free, All
<1>12. p \notin gone /\ 0 \notin gone /\ p # bp
  <2>1. up => p # next
    BY <1>3, <1>5, <1>6
  <2>2. gone \subseteq {next, bp} /\ (next \in gone => up)
    BY <1>8
  <2> QED BY <1>3, <1>6, <2>1, <2>2
<1>13. /\ \A x \in Free' : x \in All' /\ ((x \in Free /\ x # bp) \/ (x = bp /\ ~down)) /\ (up => x # next)
       /\ \A x \in All' : x \in All /\ (up => x # next) /\ (x = bp => ~down)
       /\ \A x \in All : x # bp /\ (up => x # next) => x \in All'
       /\ ~down => bp \in Free' /\ bp \in All'
       /\ p \in Free' /\ p \in All' /\ 0 \in Free'
       /\ \A x \in Free : (up => x # next) => x \in Free'
  BY <1>2, <1>3, <1>8, <1>11, <1>12
<1>14. /\ \A x \in Free' : x # p /\ x # bp => ptr'[x] = ptr[x]
       /\ ptr'[p] = IF down THEN after ELSE bp
       /\ ~down => ptr'[bp] = after
  BY <1>11, <1>12, <1>13
<1>15. /\ \A x \in All' : x # p /\ x # bp => size'[x] = size[x]
       /\ size'[p] = IF down THEN size[p] + sum ELSE size[p]
       /\ ~down => size'[bp] = sum
       /\ size' \in [All' -> Nat]
  <2>1. \A x \in All \ gone : (IF x = p /\ down THEN size[p] + sum ELSE IF x = bp THEN sum ELSE size[x]) \in Nat
    BY <1>2, <1>5, <1>9
  <2> QED BY <1>11, <1>12, <1>13, <2>1
<1>16. \A y \in Free : y \in Nat /\ (y < bp <=> y <= p)
  BY <1>2, <1>3
<1> DEFINE end == bp + sum
<1>17. /\ end \in Nat /\ bp < end /\ bp + size[bp] <= end /\ end <= brk
       /\ end = IF up THEN next + size[next] ELSE bp + size[bp]
  BY <1>2, <1>3, <1>5, <1>9
<1>18. \A y \in All : bp < y /\ (up => y # next) => end <= y
  <2> SUFFICES ASSUME NEW y \in All, bp < y, up => y # next PROVE end <= y
    OBVIOUS
  <2>1. bp + size[bp] <= y /\ y \in Nat
    BY <1>2, <1>3
  <2>2. CASE up
    <3>1. next < y
      BY <1>3, <2>1, <2>2 DEF up
    <3> QED BY <1>2, <1>5, <1>17, <2>2, <3>1
  <2>3. CASE ~up
    BY <1>17, <2>1, <2>3
  <2> QED BY <2>2, <2>3
<1>19. down => p + (size[p] + sum) = end
  BY <1>3, <1>5, <1>9 DEF down
<1> HIDE DEF end
<1>20. \A y \in Free : (up => y # next) => y # end
  <2> SUFFICES ASSUME NEW y \in Free, up => y # next, y = end PROVE FALSE
    OBVIOUS
  <2>1. CASE up
    BY <1>2, <1>3, <1>6, <1>17, <2>1
  <2>2. CASE ~up
    <3>1. bp < y /\ ~(y <= p)
      BY <1>3, <1>16, <1>17
    <3>2. bp < next /\ next <= y
      BY <1>3, <3>1
    <3>3. bp + size[bp] <= next /\ bp + size[bp] # next
      BY <1>2, <1>3, <1>5, <2>2, <3>2 DEF up
    <3> QED BY <1>3, <1>5, <1>17, <2>2, <3>2, <3>3
  <2> QED BY <2>1, <2>2
<1>21. \A y \in Free : (up => y # next) => IF bp < after THEN y <= p \/ after <= y ELSE after <= y /\ y <= p
  <2> SUFFICES ASSUME NEW y \in Free, up => y # next
               PROVE  IF bp < after THEN y <= p \/ after <= y ELSE after <= y /\ y <= p
    OBVIOUS
  <2>0. y \in Nat /\ after \in Nat
    BY <1>2, <1>10
  <2>1. CASE ~up
    <3>1. after = next
      BY <1>10, <2>1
    <3> QED BY <1>2, <1>3, <2>0, <3>1
  <2>2. CASE up
    <3>1. after = ptr[next] /\ bp < next /\ y # next /\ after # next
      BY <1>6, <1>10, <2>2
    <3>2. y <= p \/ next <= y
      BY <1>3, <3>1
    <3>3. IF next < after THEN y <= next \/ after <= y ELSE after <= y /\ y <= next
      BY <1>2, <1>3, <3>1
    <3>4. IF next < after THEN p <= next \/ after <= p ELSE after <= p /\ p <= next
      BY <1>2, <1>3, <3>1
    <3> QED BY <1>3, <2>0, <3>1, <3>2, <3>3, <3>4
  <2> QED BY <2>1, <2>2
<1>22. \A x \in Free : x # p => ptr[x] # next
  <2> SUFFICES ASSUME NEW x \in Free, x # p, ptr[x] = next PROVE FALSE
    OBVIOUS
  <2>1. x \in Nat
    BY <1>2
  <2>2. /\ IF x < next THEN p <= x \/ next <= p ELSE next <= p /\ p <= x
        /\ IF p < next THEN x <= p \/ next <= x ELSE next <= x /\ x <= p
    BY <1>2, <1>3 DEF next
  <2> QED BY <1>3, <2>1, <2>2
<1>23. HeapTypes'
  <2>1. \A x \in Free' : ptr'[x] \in Free'
    <3> TAKE x \in Free'
    <3>1. CASE x # p /\ x # bp
      <4>1. x \in Free /\ ptr'[x] = ptr[x] /\ ptr[x] \in Free /\ ptr[x] # next
        BY <1>2, <1>13, <1>14, <1>22, <3>1
      <4> QED BY <1>13, <4>1
    <3>2. CASE x = p \/ x = bp
      <4>1. after \in Free'
        BY <1>10, <1>13
      <4> QED BY <1>13, <1>14, <3>2, <4>1
    <3> QED BY <3>1, <3>2
  <2>2. ptr' \in [Free' -> Free']
    BY <1>11, <2>1, SMTT(30)
  <2>3. All' \subseteq Nat
    BY <1>2, <1>13
  <2>4. nunits' \in Nat /\ doing' \in {"idle", "search", "insert"}
    BY <1>1, <1>2
  <2>5. brk' \in Nat \ {0} /\ got' \subseteq Int /\ freep' \in Free'
    BY <1>1, <1>2, <1>13
  <2> QED BY <1>13, <1>15, <2>2, <2>3, <2>4, <2>5 DEF HeapTypes, Base
<1>24. Headers'
  <2>1. next \notin DOMAIN held /\ p \notin DOMAIN held
    BY <1>3, <1>4
  <2>2. All' = Free' \cup DOMAIN held'
    <3>1. held' = held /\ gone \subseteq {next, bp} /\ gone \cap DOMAIN held = {}
      BY <1>1, <1>3, <1>8, <2>1, Zenon
    <3> QED BY <1>4, <1>11, <3>1
  <2>3. Free' \cap DOMAIN held' = {}
    BY <1>1, <1>3, <1>4, <1>13, Zenon
  <2>4. \A x \in DOMAIN held' : size'[x] = held'[x]
    <3> TAKE x \in DOMAIN held'
    <3>1. x \in DOMAIN held /\ x # p /\ x # bp /\ x \in All' /\ held'[x] = held[x]
      BY <1>1, <1>3, <2>1, <2>2
    <3> QED BY <1>4, <1>15, <3>1
  <2>5. size'[0] = 0 /\ \A x \in All' : x # 0 => size'[x] > 0
    <3>1. \A x \in All' : x # p /\ x # bp => size'[x] = size[x] /\ x \in All
      BY <1>13, <1>15
    <3>2. size'[0] = 0
      BY <1>2, <1>3, <1>7, <1>13, <1>15, <3>1
    <3>3. p # 0 => size'[p] > 0
      BY <1>2, <1>5, <1>9, <1>15
    <3>4. bp \in All' => size'[bp] > 0
      BY <1>9, <1>13, <1>15
    <3> QED BY <1>2, <3>1, <3>2, <3>3, <3>4
  <2> QED BY <1>1, <2>2, <2>3, <2>4, <2>5 DEF Headers, Base
<1>25. Layout'
  <2>1. \A x, y \in All' : x < y => x + size'[x] <= y
    <3> SUFFICES ASSUME NEW x \in All', NEW y \in All', x < y PROVE x + size'[x] <= y
      OBVIOUS
    <3>0. x \in All /\ y \in All /\ (up => y # next) /\ x \in Nat /\ y \in Nat
      BY <1>2, <1>13
    <3>1. CASE (x # p /\ x # bp) \/ (x = p /\ ~down)
      BY <1>2, <1>15, <3>0, <3>1
    <3>2. CASE x = p /\ down
      <4>1. y # bp /\ bp <= y
        BY <1>2, <1>13, <3>0, <3>2 DEF down
      <4>2. bp < y
        BY <1>3, <3>0, <4>1
      <4> QED BY <1>15, <1>18, <1>19, <3>0, <3>2, <4>2
    <3>3. CASE x = bp
      <4>1. ~down
        BY <1>13, <3>3
      <4> QED BY <1>15, <1>18, <3>0, <3>3, <4>1 DEF end
    <3> QED BY <3>1, <3>2, <3>3
  <2>2. \A x \in All' : x < brk' /\ x + size'[x] <= brk'
    <3> TAKE x \in All'
    <3>0. x \in All /\ brk' = brk
      BY <1>1, <1>13
    <3>1. CASE (x # p /\ x # bp) \/ (x = p /\ ~down)
      BY <1>2, <1>15, <3>0, <3>1
    <3>2. CASE x = p /\ down
      BY <1>2, <1>15, <1>17, <1>19, <3>0, <3>2
    <3>3. CASE x = bp
      <4>1. ~down
        BY <1>13, <3>3
      <4> QED BY <1>2, <1>15, <1>17, <3>0, <3>3, <4>1 DEF end
    <3> QED BY <3>1, <3>2, <3>3
  <2>3. \A u \in Int : u \in got' <=> \E x \in All' : x <= u /\ u < x + size'[x]
    <3> TAKE u \in Int
    <3>1. ASSUME NEW x \in All, x <= u, u < x + size[x]
          PROVE  \E y \in All' : y <= u /\ u < y + size'[y]
      <4>0. x \in Nat /\ size[x] \in Nat
        BY <1>2
      <4>1. CASE x # p /\ x # bp /\ (up => x # next)
        BY <1>13, <1>15, <3>1, <4>1
      <4>2. CASE x = p
        <5>1. u < p + size'[p]
          BY <1>3, <1>5, <1>9, <1>15, <3>1, <4>2
        <5> QED BY <1>13, <3>1, <4>2, <5>1
      <4>3. CASE x = bp \/ (up /\ x = next)
        <5>1. bp <= u /\ u < end
          BY <1>3, <1>5, <1>6, <1>17, <3>1, <4>3
        <5>2. CASE down
          BY <1>3, <1>13, <1>15, <1>19, <5>1, <5>2
        <5>3. CASE ~down
          BY <1>13, <1>15, <5>1, <5>3 DEF end
        <5> QED BY <5>2, <5>3
      <4> QED BY <4>1, <4>2, <4>3
    <3>2. ASSUME NEW x \in All', x <= u, u < x + size'[x]
          PROVE  \E y \in All : y <= u /\ u < y + size[y]
      <4>0. x \in All
        BY <1>13
      <4>1. CASE (x # p /\ x # bp) \/ (x = p /\ ~down)
        BY <1>15, <3>2, <4>0, <4>1
      <4>2. ASSUME bp <= u, u < end PROVE \E y \in All : y <= u /\ u < y + size[y]
        <5>1. CASE u < bp + size[bp]
          BY <1>3, <4>2, <5>1
        <5>2. CASE ~(u < bp + size[bp])
          <6>1. up
            BY <1>17, <4>2, <5>2
          <6>2. next <= u /\ u < next + size[next]
            BY <1>3, <1>5, <1>17, <4>2, <5>2, <6>1 DEF up
          <6> QED BY <1>5, <6>2
        <5> QED BY <5>1, <5>2
      <4>3. CASE x = p /\ down
        <5>1. u < end
          BY <1>15, <1>19, <3>2, <4>3
        <5>2. CASE bp <= u
          BY <4>2, <5>1, <5>2
        <5>3. CASE ~(bp <= u)
          <6>1. p <= u /\ u < p + size[p]
            BY <1>3, <3>2, <4>3, <5>3 DEF down
          <6> QED BY <1>5, <6>1
        <5> QED BY <5>2, <5>3
      <4>4. CASE x = bp
        <5>1. ~down
          BY <1>13, <4>4
        <5>2. bp <= u /\ u < end
          BY <1>15, <3>2, <4>4, <5>1 DEF end
        <5> QED BY <4>2, <5>2
      <4> QED BY <4>1, <4>3, <4>4
    <3> QED BY <1>1, <1>2, <3>1, <3>2, Zenon
  <2> QED BY <2>1, <2>2, <2>3 DEF Layout, End
<1>26. Successor'
  <2> SUFFICES ASSUME NEW x \in Free', NEW y \in Free'
               PROVE  IF x < ptr'[x] THEN y <= x \/ ptr'[x] <= y ELSE ptr'[x] <= y /\ y <= x
    BY DEF Successor
  <2>0. /\ ((y \in Free /\ y # bp) \/ (y = bp /\ ~down)) /\ (up => y # next)
        /\ ((x \in Free /\ x # bp) \/ (x = bp /\ ~down)) /\ (up => x # next)
        /\ after \in Nat /\ x \in Nat /\ y \in Nat
    BY <1>2, <1>3, <1>10, <1>13
  <2>1. CASE x = p /\ down
    <3>1. ptr'[x] = after /\ y \in Free
      BY <1>14, <2>0, <2>1
    <3>2. IF bp < after THEN y <= p \/ after <= y ELSE after <= y /\ y <= p
      BY <1>21, <2>0, <3>1
    <3>3. p < after <=> bp < after
      BY <1>3, <1>10, <1>16, <2>0
    <3> QED BY <2>1, <3>1, <3>2, <3>3
  <2>2. CASE x = p /\ ~down
    <3>1. ptr'[x] = bp
      BY <1>14, <2>2
    <3> QED BY <1>3, <1>16, <2>0, <2>2, <3>1
  <2>3. CASE x = bp
    <3>1. ptr'[x] = after
      BY <1>14, <2>0, <2>3
    <3>2. y = bp \/ (y \in Free /\ IF bp < after THEN y <= p \/ after <= y ELSE after <= y /\ y <= p)
      BY <1>21, <2>0
    <3>3. ~(bp < after) => after <= bp
      BY <1>3, <2>0
    <3> QED BY <1>3, <2>0, <2>3, <3>1, <3>2, <3>3
  <2>4. CASE x # p /\ x # bp
    <3>1. ptr'[x] = ptr[x] /\ x \in Free /\ ptr[x] \in Free /\ ptr[x] \in Nat
      BY <1>2, <1>14, <2>0, <2>4
    <3>2. CASE y \in Free
      BY <1>2, <3>1, <3>2
    <3>3. CASE y = bp
      <4>1. /\ IF x < ptr[x] THEN p <= x \/ ptr[x] <= p ELSE ptr[x] <= p /\ p <= x
            /\ IF x < ptr[x] THEN next <= x \/ ptr[x] <= next ELSE ptr[x] <= next /\ next <= x
        BY <1>2, <1>3, <3>1
      <4>2. x < p \/ (bp < next /\ next <= x)
        BY <1>3, <2>0, <2>4, <3>1
      <4> QED BY <1>3, <2>0, <3>1, <3>3, <4>1, <4>2
    <3> QED BY <2>0, <3>2, <3>3
  <2> QED BY <2>1, <2>2, <2>3, <2>4
<1>27. Touchless'
  <2> SUFFICES ASSUME NEW x \in Free', NEW y \in Free', x # 0 PROVE x + size'[x] # y
    BY DEF Touchless, End, Base
  <2>0. /\ ((y \in Free /\ y # bp) \/ (y = bp /\ ~down)) /\ (up => y # next)
        /\ ((x \in Free /\ x # bp) \/ (x = bp /\ ~down)) /\ x \in All'
    BY <1>13
  <2>1. CASE (x = p /\ down) \/ x = bp
    <3>1. x + size'[x] = end
      BY <1>15, <1>19, <2>0, <2>1 DEF end
    <3>2. y # end
      BY <1>3, <1>17, <1>20, <2>0
    <3> QED BY <3>1, <3>2
  <2>2. CASE x = p /\ ~down
    <3>1. x + size'[x] = p + size[p]
      BY <1>15, <2>2
    <3>2. \A z \in Free : p + size[p] # z
      BY <1>2, <1>3, <2>2
    <3>3. p + size[p] # bp
      BY <2>2 DEF down
    <3> QED BY <2>0, <3>1, <3>2, <3>3
  <2>3. CASE x # p /\ x # bp
    <3>1. x \in Free /\ size'[x] = size[x] /\ x \in Nat /\ size[x] \in Nat /\ x \in All
      BY <1>2, <1>15, <2>0, <2>3
    <3>2. CASE y \in Free
      BY <1>2, <3>1, <3>2
    <3>3. CASE y = bp
      <4> SUFFICES ASSUME x + size[x] = bp PROVE FALSE
        BY <3>1, <3>3
      <4>1. size[x] > 0
        BY <1>2, <3>1
      <4>2. x <= p /\ x < p
        BY <1>3, <1>16, <2>3, <3>1, <4>1
      <4> QED BY <1>2, <1>3, <1>5, <3>1, <4>2
    <3> QED BY <2>0, <3>2, <3>3
  <2> QED BY <2>1, <2>2, <2>3
<1>28. Loops'
  <2>1. ptr'[p] \in Free'
    BY <1>13, <1>23 DEF HeapTypes
  <2> QED BY <1>1, <1>2, <1>13, <2>1 DEF Loops
<1> QED BY <1>23, <1>24, <1>25, <1>26, <1>27, <1>28 DEF HeapInv

LEMMA HeapStep == ASSUME HeapInv, [HeapNext]_heapVars PROVE HeapInv'
<1>1. CASE UNCHANGED heapVars
  <2>1. /\ UNCHANGED <<ptr, size, freep, held, got>> /\ brk' = brk /\ nunits' = nunits
        /\ p' = p /\ prevp' = prevp /\ bp' = bp /\ doing' = doing
    BY <1>1 DEF heapVars
  <2>2. /\ Free' = Free /\ All' = All /\ size' = size /\ ptr' = ptr /\ held' = held /\ freep' = freep
        /\ Successor' /\ Touchless' /\ Layout' /\ got' = got
    BY <2>1, HeapUnchanged
  <2>3. HeapTypes'
    BY <2>1, <2>2 DEF HeapInv, HeapTypes, Base
  <2>4. Headers'
    BY <2>1, <2>2 DEF HeapInv, Headers, Base
  <2>5. Loops'
    BY <2>1, <2>2 DEF HeapInv, Loops
  <2> QED BY <2>2, <2>3, <2>4, <2>5 DEF HeapInv
<1> QED
  BY <1>1, MallocStep, TakeStep, AdvanceStep, MorecoreStep, FreeStep, WalkStep, InsertStep, SbrkStep DEF HeapNext

LEMMA HeapInvImplies == HeapInv => HeapSound
<1> SUFFICES ASSUME HeapInv PROVE HeapSound
  OBVIOUS
<1>1. /\ got \subseteq Int
      /\ \A x \in Free : ptr[x] \in Free
      /\ \A x \in All : x \in Nat /\ size[x] \in Nat
      /\ \A x, y \in All : x < y => x + size[x] <= y
      /\ \A u \in Int : u \in got <=> \E x \in All : x <= u /\ u < x + size[x]
      /\ \A x, y \in Free : IF x < ptr[x] THEN y <= x \/ ptr[x] <= y ELSE ptr[x] <= y /\ y <= x
      /\ \A x, y \in Free : x # 0 => x + size[x] # y
      /\ \A x \in Free : x \in All
  BY HeapFacts
<1>2. Blocks = All
  BY DEF HeapInv, Headers, Blocks, Free
<1>3. \A x \in All : \A u : u \in Units(x) <=> u \in Int /\ x <= u /\ u < x + size[x]
  BY <1>1 DEF Units
<1>4. HeapPartition
  <2>1. \A x, y \in All : x # y => Units(x) \cap Units(y) = {}
    <3> SUFFICES ASSUME NEW x \in All, NEW y \in All, x # y, NEW u \in Units(x), u \in Units(y) PROVE FALSE
      OBVIOUS
    <3>1. u \in Int /\ x <= u /\ u < x + size[x] /\ y <= u /\ u < y + size[y]
      BY <1>3
    <3> QED BY <1>1, <3>1
  <2>2. UNION {Units(x) : x \in All} = got
    <3>1. \A u : u \in UNION {Units(x) : x \in All} <=> \E x \in All : u \in Units(x)
      OBVIOUS
    <3>2. \A u : u \in got <=> \E x \in All : u \in Units(x)
      BY <1>1, <1>3, Zenon
    <3> QED BY <3>1, <3>2, Zenon
  <2>3. DOMAIN held \cap DOMAIN ptr = {} /\ \A x \in DOMAIN held : size[x] = held[x]
    BY DEF HeapInv, Headers, Free
  <2> QED BY <1>2, <2>1, <2>2, <2>3 DEF HeapPartition
<1>5. FreeCoalesced
  <2>1. \A x, y \in Free : IF x < ptr[x] THEN ~(x < y /\ y < ptr[x]) ELSE ptr[x] <= y /\ y <= x
    BY <1>1
  <2> QED BY <1>1, <2>1 DEF FreeCoalesced, Free, Base
<1> QED BY <1>4, <1>5 DEF HeapSound

\* umalloc.c, for any amount of memory, any requests and any order of the calls:
\* what sbrk gave is divided among the blocks handed out and the free list without
\* overlap and without loss, a block is as large as was asked for, the list goes
\* round once in address order, and adjacent free blocks are one.
THEOREM HeapIsSound == HeapSpec => []HeapSound
<1>1. HeapInv /\ [HeapNext]_heapVars => HeapInv'
  BY HeapStep
<1> QED BY HeapInvInit, <1>1, HeapInvImplies, PTL DEF HeapSpec

-----------------------------------------------------------------------------
(* xqsort and xbsearch.                                                    *)

Index == 0 .. nmemb - 1
RangeOk(r) == r \in Int \X Int /\ 0 <= r[1] /\ r[1] < r[2] /\ r[2] < nmemb
Apart(r, q) == r[2] < q[1] \/ q[2] < r[1]
Within(r, x, y) == r[1] <= x /\ y <= r[2]

ArrayOk ==
  /\ nmemb \in Nat
  /\ arr \in [Index -> Int] /\ base \in [Index -> Int]
  /\ \A v \in Int : Occurrences(arr, v) = Occurrences(base, v)

StackOk ==
  /\ stack \in Seq(Int \X Int)
  /\ \A t \in 1 .. Len(stack) : RangeOk(stack[t])
  /\ \A t, u \in 1 .. Len(stack) : t < u => Apart(stack[t], stack[u])

\* The range being partitioned: below i what is not greater than the pivot, from
\* there to j what is.
SweepOk ==
  /\ RangeOk(<<low, high>>)
  /\ \A t \in 1 .. Len(stack) : Apart(stack[t], <<low, high>>)
  /\ i \in Int /\ j \in Int
  /\ low - 1 <= i /\ i < j /\ j <= high
  /\ pivot = arr[high]
  /\ \A x \in low .. i : arr[x] <= pivot
  /\ \A x \in i + 1 .. j - 1 : pivot < arr[x]

\* Two elements out of order are in one range still to sort.
Ordered ==
  \A x, y \in Index :
    x < y /\ arr[y] < arr[x] =>
      \/ \E t \in 1 .. Len(stack) : Within(stack[t], x, y)
      \/ at = "sweep" /\ Within(<<low, high>>, x, y)

\* The range t of the stack is at most as long as the array halved t - 1 times.
Shrinks(d) ==
  \E half \in [1 .. d -> 0 .. nmemb] :
    /\ \A t \in 1 .. d - 1 : 2 * half[t + 1] <= half[t]
    /\ \A t \in 1 .. Len(stack) : stack[t][2] - stack[t][1] < half[t]
    /\ at = "sweep" => high - low < half[d]

\* The bounds of the search; in a sorted array the key is between them.
SearchIn ==
  /\ low \in Int /\ high \in Int /\ key \in Int
  /\ 0 <= low /\ low <= nmemb /\ -1 <= high /\ high < nmemb
SearchOk ==
  /\ \A x \in Index : x < low => arr[x] < key
  /\ \A x \in Index : high < x => key < arr[x]

SortInv ==
  /\ ArrayOk
  /\ StackOk
  /\ at \in {"start", "sort", "sweep", "sorted", "unsorted", "search", "found", "missing"}
  /\ at \notin {"sort", "sweep"} => stack = << >>
  /\ complete \in BOOLEAN
  /\ at \in {"start", "sort", "sweep", "unsorted"} => complete = FALSE
  /\ at = "sweep" => SweepOk
  /\ at \in {"sort", "sweep"} \/ complete = TRUE => Ordered
  /\ Shrinks(Len(stack) + IF at = "sweep" THEN 1 ELSE 0)
  /\ at = "search" => SearchIn
  /\ at = "search" /\ complete = TRUE => SearchOk
  /\ at = "found" => low \in Index /\ arr[low] = key
  /\ at = "missing" /\ complete = TRUE => \A x \in Index : arr[x] # key

-----------------------------------------------------------------------------
LEMMA SwapFacts ==
  ASSUME NEW S, NEW a \in [S -> Int], NEW x \in S, NEW y \in S
  PROVE  /\ swap(a, x, y) \in [S -> Int]
         /\ swap(a, x, y)[x] = a[y] /\ swap(a, x, y)[y] = a[x]
         /\ \A z \in S \ {x, y} : swap(a, x, y)[z] = a[z]
  BY DEF swap

\* swap keeps the number of times a value occurs.
LEMMA SwapOccurrences ==
  ASSUME NEW S, IsFiniteSet(S), NEW a \in [S -> Int], NEW x \in S, NEW y \in S, NEW v
  PROVE  Occurrences(swap(a, x, y), v) = Occurrences(a, v)
  <1> DEFINE b == swap(a, x, y)
             A == {z \in S : a[z] = v}
             B == {z \in S : b[z] = v}
             f == [z \in A |-> IF z = x THEN y ELSE IF z = y THEN x ELSE z]
  <1>1. /\ b \in [S -> Int] /\ b[x] = a[y] /\ b[y] = a[x]
        /\ \A z \in S \ {x, y} : b[z] = a[z]
    BY SwapFacts
  <1> HIDE DEF b
  <1>2. f \in [A -> B]
    BY <1>1
  <1>3. \A z, w \in A : f[z] = f[w] => z = w
    OBVIOUS
  <1>4. \A z \in B : \E w \in A : f[w] = z
    <2> TAKE z \in B
    <2>1. CASE z = x
      <3>1. y \in A /\ f[y] = x
        BY <2>1, <1>1
      <3> QED BY <3>1, <2>1
    <2>2. CASE z = y
      <3>1. x \in A /\ f[x] = y
        BY <2>2, <1>1
      <3> QED BY <3>1, <2>2
    <2>3. CASE z \notin {x, y}
      <3>1. z \in A /\ f[z] = z
        BY <2>3, <1>1
      <3> QED BY <3>1
    <2> QED BY <2>1, <2>2, <2>3
  <1> HIDE DEF f
  <1>5. f \in Bijection(A, B)
    BY <1>2, <1>3, <1>4 DEF Bijection, Injection, Surjection, IsInjective
  <1>6. IsFiniteSet(A)
    <2>1. A \in SUBSET S
      OBVIOUS
    <2> HIDE DEF A
    <2> QED BY <2>1, FS_Subset
  <1>7. Cardinality(B) = Cardinality(A)
    <2>1. ExistsBijection(A, B)
      BY <1>5, Zenon DEF ExistsBijection
    <2> HIDE DEF A, B
    <2> QED BY <1>6, <2>1, FS_Bijection, Zenon
  <1>8. DOMAIN a = S /\ DOMAIN b = S
    BY <1>1
  <1> QED BY <1>7, <1>8, Zenon DEF Occurrences, b

LEMMA ArrayUnchanged ==
  ASSUME ArrayOk, UNCHANGED <<arr, base>>
  PROVE  ArrayOk' /\ nmemb' = nmemb
<1>1. nmemb' = nmemb
  BY DEF nmemb
<1> QED BY <1>1 DEF ArrayOk, Index

LEMMA ArraySwapped ==
  ASSUME ArrayOk, NEW x \in Index, NEW y \in Index, arr' = swap(arr, x, y), base' = base
  PROVE  ArrayOk' /\ nmemb' = nmemb
<1>1. nmemb \in Nat /\ arr \in [Index -> Int]
  BY DEF ArrayOk
<1>2. arr' \in [Index -> Int]
  BY <1>1, SwapFacts
<1>3. DOMAIN arr' = DOMAIN arr
  BY <1>1, <1>2
<1>4. nmemb' = nmemb
  BY <1>3 DEF nmemb
<1>5. IsFiniteSet(Index)
  BY <1>1, FS_Interval DEF Index
<1>6. \A v \in Int : Occurrences(arr', v) = Occurrences(arr, v)
  BY <1>1, <1>5, SwapOccurrences
<1> QED BY <1>1, <1>2, <1>4, <1>6 DEF ArrayOk, Index

LEMMA SortInvInit == SortInit => SortInv
<1> SUFFICES ASSUME SortInit PROVE SortInv
  OBVIOUS
<1>1. nmemb \in Nat /\ arr \in [0 .. nmemb - 1 -> Int] /\ base = arr
  BY ArraysAssumption DEF SortInit, nmemb
<1>2. ArrayOk
  BY <1>1 DEF ArrayOk, Index
<1>3. stack = << >> /\ at = "start" /\ complete = FALSE
  BY DEF SortInit
<1>4. StackOk
  BY <1>3 DEF StackOk
<1>5. Shrinks(Len(stack) + IF at = "sweep" THEN 1 ELSE 0)
  <2> DEFINE half == [t \in 1 .. 0 |-> 0]
  <2>1. half \in [1 .. 0 -> 0 .. nmemb]
    OBVIOUS
  <2>2. Len(stack) = 0
    BY <1>3
  <2>a. /\ \A t \in 1 .. 0 - 1 : 2 * half[t + 1] <= half[t]
        /\ \A t \in 1 .. Len(stack) : stack[t][2] - stack[t][1] < half[t]
        /\ at = "sweep" => high - low < half[0]
    BY <1>3, <2>2
  <2> HIDE DEF half
  <2>3. Shrinks(0)
    BY <2>1, <2>a, Zenon DEF Shrinks
  <2> QED BY <1>3, <2>2, <2>3
<1> QED BY <1>2, <1>3, <1>4, <1>5, ZenonT(30) DEF SortInv

LEMMA BeginStep == ASSUME SortInv, SortBegin PROVE SortInv'
<1>1. ArrayOk' /\ nmemb' = nmemb
  BY ArrayUnchanged DEF SortInv, SortBegin
<1>2. nmemb \in Nat /\ stack = << >> /\ at = "start" /\ Index = 0 .. nmemb - 1 /\ Index' = Index
  BY <1>1 DEF SortInv, SortBegin, ArrayOk, Index
<1>0. Shrinks(0)
  BY <1>2 DEF SortInv
<1>9. complete = FALSE
  BY <1>2 DEF SortInv
<1>3. CASE nmemb <= 1 /\ at' = "sorted" /\ complete' = TRUE /\ UNCHANGED stack
  <2>1. StackOk' /\ Ordered' /\ stack' = << >>
    BY <1>1, <1>2, <1>3 DEF StackOk, Ordered
  <2>2. Shrinks(0)'
    BY <1>0, <1>1, <1>2, <1>3, Zenon DEF Shrinks
  <2> QED BY <1>1, <1>3, <2>1, <2>2 DEF SortInv
<1>4. CASE nmemb > 1 /\ at' = "unsorted" /\ UNCHANGED <<stack, complete>>
  <2>1. StackOk' /\ stack' = << >>
    BY <1>1, <1>2, <1>4 DEF StackOk
  <2>2. Shrinks(0)'
    BY <1>0, <1>1, <1>2, <1>4, Zenon DEF Shrinks
  <2> QED BY <1>1, <1>4, <1>9, <2>1, <2>2 DEF SortInv
<1>5. CASE nmemb > 1 /\ at' = "sort" /\ stack' = <<<<0, nmemb - 1>>>> /\ UNCHANGED complete
  <2>1. /\ stack' \in Seq(Int \X Int) /\ Len(stack') = 1
        /\ stack'[1] = <<0, nmemb - 1>>
    BY <1>2, <1>5
  <2>2. StackOk'
    BY <1>1, <1>2, <1>5, <2>1 DEF StackOk, RangeOk
  <2>3. Ordered'
    BY <1>1, <1>2, <1>5, <2>1 DEF Ordered, Within
  <2>4. Shrinks(1)'
    <3> DEFINE half == [t \in 1 .. 1 |-> nmemb]
    <3>1. half \in [1 .. 1 -> 0 .. nmemb] /\ half[1] = nmemb
      BY <1>2
    <3>2. \A t \in 1 .. 1 - 1 : 2 * half[t + 1] <= half[t]
      OBVIOUS
    <3>3. \A t \in 1 .. Len(stack') : stack'[t][2] - stack'[t][1] < half[t]
      BY <1>2, <2>1, <3>1
    <3> HIDE DEF half
    <3> QED BY <1>1, <1>5, <3>1, <3>2, <3>3 DEF Shrinks
  <2> QED BY <1>1, <1>5, <1>9, <2>1, <2>2, <2>3, <2>4 DEF SortInv
<1> QED BY <1>3, <1>4, <1>5, ZenonT(30) DEF SortBegin

\* A sequence without its last element.
LEMMA AllButLast ==
  ASSUME NEW S, NEW s \in Seq(S), s # << >>
  PROVE  /\ Len(s) \in Nat \ {0}
         /\ SubSeq(s, 1, Len(s) - 1) \in Seq(S) /\ Len(SubSeq(s, 1, Len(s) - 1)) = Len(s) - 1
         /\ \A t \in 1 .. Len(s) - 1 : SubSeq(s, 1, Len(s) - 1)[t] = s[t]
  <1>1. Len(s) \in Nat \ {0}
    OBVIOUS
  <1>2. Len(s) - 1 \in Nat /\ Len(s) - 1 <= Len(s)
    BY <1>1
  <1>3. \A y \in Nat : y <= Len(s) =>
          /\ SubSeq(s, 1, y) \in Seq(S) /\ Len(SubSeq(s, 1, y)) = y
          /\ \A t \in 1 .. y : SubSeq(s, 1, y)[t] = s[t]
    OBVIOUS
  <1> QED BY <1>1, <1>2, <1>3, Zenon

\* The stack without its top.
LEMMA Popped ==
  ASSUME StackOk, stack # << >>, NEW rest, rest = SubSeq(stack, 1, Len(stack) - 1)
  PROVE  /\ rest \in Seq(Int \X Int) /\ Len(stack) \in Nat \ {0} /\ Len(rest) = Len(stack) - 1
         /\ \A t \in 1 .. Len(rest) : t \in 1 .. Len(stack) /\ t < Len(stack) /\ rest[t] = stack[t]
         /\ RangeOk(stack[Len(stack)])
         /\ \A t \in 1 .. Len(rest) : RangeOk(rest[t]) /\ Apart(rest[t], stack[Len(stack)])
         /\ \A t, u \in 1 .. Len(rest) : t < u => Apart(rest[t], rest[u])
<1>1. stack \in Seq(Int \X Int) /\ Len(stack) \in Nat \ {0}
  BY DEF StackOk
<1>2. rest \in Seq(Int \X Int) /\ Len(rest) = Len(stack) - 1
  BY <1>1, AllButLast, Zenon
<1>3. \A t \in 1 .. Len(rest) : t \in 1 .. Len(stack) /\ t < Len(stack) /\ rest[t] = stack[t]
  BY <1>1, <1>2, SMTT(30)
<1>4. Len(stack) \in 1 .. Len(stack)
  BY <1>1
<1>5. RangeOk(stack[Len(stack)])
  BY <1>4 DEF StackOk
<1>6. \A t \in 1 .. Len(rest) : RangeOk(rest[t]) /\ Apart(rest[t], stack[Len(stack)])
  <2> TAKE t \in 1 .. Len(rest)
  <2>1. t \in 1 .. Len(stack) /\ t < Len(stack) /\ rest[t] = stack[t]
    BY <1>3
  <2> QED BY <1>4, <2>1, SMTT(30) DEF StackOk
<1>7. \A t, u \in 1 .. Len(rest) : t < u => Apart(rest[t], rest[u])
  <2> TAKE t, u \in 1 .. Len(rest)
  <2>1. t \in 1 .. Len(stack) /\ rest[t] = stack[t] /\ u \in 1 .. Len(stack) /\ rest[u] = stack[u]
    BY <1>3
  <2> QED BY <2>1 DEF StackOk
<1> QED BY <1>1, <1>2, <1>3, <1>5, <1>6, <1>7, Zenon

LEMMA PopStep == ASSUME SortInv, Pop PROVE SortInv'
<1> DEFINE top == stack[Len(stack)]
           rest == SubSeq(stack, 1, Len(stack) - 1)
<1>1. ArrayOk' /\ nmemb' = nmemb
  BY ArrayUnchanged DEF SortInv, Pop
<1>2. /\ nmemb \in Nat /\ arr \in [Index -> Int] /\ Index = 0 .. nmemb - 1 /\ Index' = Index /\ arr' = arr
      /\ at = "sort" /\ stack # << >> /\ StackOk /\ Ordered /\ complete = FALSE /\ complete' = FALSE
  BY <1>1 DEF SortInv, Pop, ArrayOk, Index
<1>3. /\ rest \in Seq(Int \X Int) /\ Len(stack) \in Nat \ {0} /\ Len(rest) = Len(stack) - 1
      /\ \A t \in 1 .. Len(rest) : t \in 1 .. Len(stack) /\ t < Len(stack) /\ rest[t] = stack[t]
      /\ RangeOk(top)
      /\ \A t \in 1 .. Len(rest) : RangeOk(rest[t]) /\ Apart(rest[t], top)
      /\ \A t, u \in 1 .. Len(rest) : t < u => Apart(rest[t], rest[u])
  BY <1>2, Popped, Zenon
<1>5. Shrinks(Len(stack))
  BY <1>2, <1>3 DEF SortInv
<1>6. PICK half \in [1 .. Len(stack) -> 0 .. nmemb] :
        /\ \A t \in 1 .. Len(stack) - 1 : 2 * half[t + 1] <= half[t]
        /\ \A t \in 1 .. Len(stack) : stack[t][2] - stack[t][1] < half[t]
  BY <1>5 DEF Shrinks
<1>7. top[1] < top[2] /\ top \in Int \X Int /\ 0 <= top[1] /\ top[2] < nmemb
  BY <1>3 DEF RangeOk
<1>8. CASE at' = "unsorted" /\ stack' = << >>
  <2>1. StackOk' /\ Len(stack') = 0
    BY <1>8 DEF StackOk
  <2>2. Shrinks(0)'
    <3> DEFINE none == [t \in 1 .. 0 |-> 0]
    <3>1. /\ none \in [1 .. 0 -> 0 .. nmemb']
          /\ \A t \in 1 .. 0 - 1 : 2 * none[t + 1] <= none[t]
          /\ \A t \in 1 .. Len(stack') : stack'[t][2] - stack'[t][1] < none[t]
      BY <2>1
    <3> HIDE DEF none
    <3> QED BY <1>8, <3>1, Zenon DEF Shrinks
  <2>3. Len(stack') + (IF at' = "sweep" THEN 1 ELSE 0) = 0
    BY <1>8, <2>1
  <2>4. Shrinks(Len(stack) + IF at = "sweep" THEN 1 ELSE 0)'
    BY <2>2, <2>3, Zenon
  <2> HIDE DEF top, rest
  <2>5. /\ at' \notin {"sort", "sweep", "search", "found", "missing"} /\ complete' \in BOOLEAN /\ complete' # TRUE
        /\ at' \in {"start", "sort", "sweep", "sorted", "unsorted", "search", "found", "missing"}
    BY <1>2, <1>8, ZenonT(30)
  <2> QED BY <1>1, <1>2, <1>8, <2>1, <2>4, <2>5, Zenon DEF SortInv
<1>9. CASE /\ stack' = rest /\ low' = top[1] /\ high' = top[2] /\ pivot' = arr[top[2]]
           /\ i' = top[1] - 1 /\ j' = top[1] /\ at' = "sweep"
  <2>1. <<low', high'>> = top
    BY <1>7, <1>9
  <2>0. stack' = rest
    BY <1>9
  <2> HIDE DEF rest
  <2>a. StackOk'
    BY <1>1, <1>3, <2>0, Zenon DEF StackOk, RangeOk, Apart
  <2>2. SweepOk'
    <3>1. RangeOk(<<low, high>>)'
      BY <1>1, <1>7, <1>9 DEF RangeOk
    <3>2. \A t \in 1 .. Len(stack') : Apart(stack'[t], <<low', high'>>)
      BY <1>3, <2>0, <2>1, Zenon
    <3>3. /\ i' \in Int /\ j' \in Int /\ low' - 1 <= i' /\ i' < j' /\ j' <= high'
          /\ \A x \in low' .. i' : FALSE
          /\ \A x \in i' + 1 .. j' - 1 : FALSE
      BY <1>7, <1>9
    <3>4. pivot' = arr'[high']
      BY <1>2, <1>9
    <3> QED BY <3>1, <3>2, <3>3, <3>4, Zenon DEF SweepOk, Apart
  <2>3. Ordered'
    <3>0. Ordered' <=>
            \A x, y \in Index :
              x < y /\ arr[y] < arr[x] =>
                \/ \E t \in 1 .. Len(stack') : Within(stack'[t], x, y)
                \/ Within(<<low', high'>>, x, y)
      BY <1>2, <1>9 DEF Ordered, Within
    <3> SUFFICES ASSUME NEW x \in Index, NEW y \in Index, x < y, arr[y] < arr[x]
                 PROVE  \/ \E t \in 1 .. Len(stack') : Within(stack'[t], x, y)
                        \/ Within(top, x, y)
      BY <2>1, <3>0
    <3>1. PICK t \in 1 .. Len(stack) : Within(stack[t], x, y)
      BY <1>2 DEF Ordered
    <3>2. t = Len(stack) \/ t \in 1 .. Len(stack')
      BY <1>3, <2>0
    <3> QED BY <1>3, <2>0, <3>1, <3>2, ZenonT(30)
  <2>4. Shrinks(Len(stack) + 1)'
    <3>1. Len(stack') + 1 = Len(stack)
      BY <1>3, <2>0
    <3>2. /\ half \in [1 .. Len(stack') + 1 -> 0 .. nmemb]
          /\ \A t \in 1 .. (Len(stack') + 1) - 1 : 2 * half[t + 1] <= half[t]
      BY <1>6, <3>1
    <3>3. \A t \in 1 .. Len(stack') : stack'[t][2] - stack'[t][1] < half[t]
      BY <1>3, <1>6, <2>0, ZenonT(30)
    <3>4. high' - low' < half[Len(stack') + 1]
      <4>1. Len(stack) \in 1 .. Len(stack)
        BY <1>3
      <4> QED BY <1>6, <1>9, <3>1, <4>1
    <3> QED BY <1>1, <3>2, <3>3, <3>4 DEF Shrinks
  <2> QED BY <1>1, <1>2, <1>3, <1>9, <2>a, <2>2, <2>3, <2>4, ZenonT(30) DEF SortInv
<1> QED BY <1>7, <1>8, <1>9 DEF Pop

\* Exchanging two elements of the range being partitioned puts no other elements
\* out of order.
LEMMA OrderKept ==
  ASSUME SortInv, at = "sweep", NEW x \in low .. high, NEW y \in low .. high, arr' = swap(arr, x, y)
  PROVE  \A u, v \in Index :
           u < v /\ arr'[v] < arr'[u] =>
             (\E t \in 1 .. Len(stack) : Within(stack[t], u, v)) \/ Within(<<low, high>>, u, v)
<1>1. /\ nmemb \in Nat /\ arr \in [Index -> Int] /\ Index = 0 .. nmemb - 1
      /\ low \in Int /\ high \in Int /\ 0 <= low /\ low < high /\ high < nmemb
      /\ \A t \in 1 .. Len(stack) : Apart(stack[t], <<low, high>>)
      /\ \A t \in 1 .. Len(stack) : stack[t] \in Int \X Int
  BY Zenon DEF SortInv, ArrayOk, StackOk, SweepOk, RangeOk, Index
<1>2. \A u, v \in Index :
        u < v /\ arr[v] < arr[u] =>
          (\E t \in 1 .. Len(stack) : Within(stack[t], u, v)) \/ Within(<<low, high>>, u, v)
  BY DEF SortInv, Ordered
<1>3. x \in Index /\ y \in Index
  BY <1>1
<1>4. /\ arr' \in [Index -> Int] /\ arr'[x] = arr[y] /\ arr'[y] = arr[x]
      /\ \A z \in Index \ {x, y} : arr'[z] = arr[z]
  <2>1. arr \in [Index -> Int]
    BY <1>1
  <2>2. /\ swap(arr, x, y) \in [Index -> Int]
        /\ swap(arr, x, y)[x] = arr[y] /\ swap(arr, x, y)[y] = arr[x]
        /\ \A z \in Index \ {x, y} : swap(arr, x, y)[z] = arr[z]
    BY <1>3, <2>1 DEF swap
  <2> QED BY <2>2
<1>5. /\ \A z \in Index : z \notin low .. high => arr'[z] = arr[z]
      /\ \A z \in low .. high : \E w \in low .. high : arr'[z] = arr[w]
  <2>1. \A z \in low .. high : z \in Index
    BY <1>1
  <2> QED BY <1>4, <2>1, Zenon
<1> SUFFICES ASSUME NEW u \in Index, NEW v \in Index, u < v, arr'[v] < arr'[u],
                    ~Within(<<low, high>>, u, v)
             PROVE  \E t \in 1 .. Len(stack) : Within(stack[t], u, v)
  BY <1>1, Zenon
<1>6. CASE u \notin low .. high /\ v \notin low .. high
  BY <1>2, <1>5, <1>6, Zenon
<1>7. CASE u \in low .. high
  <2>1. PICK w \in low .. high : arr'[u] = arr[w]
    BY <1>5, <1>7
  <2>2. v > high /\ v \notin low .. high /\ w \in Index /\ w < v /\ ~Within(<<low, high>>, w, v)
    BY <1>1, <1>7, SMTT(30) DEF Within
  <2>3. arr[v] < arr[w]
    BY <1>5, <2>1, <2>2
  <2>4. PICK t \in 1 .. Len(stack) : Within(stack[t], w, v)
    BY <1>2, <2>2, <2>3
  <2>5. /\ stack[t][1] \in Int /\ stack[t][2] \in Int
        /\ stack[t][2] < low \/ high < stack[t][1]
    BY <1>1, SMTT(30) DEF Apart
  <2>6. stack[t][1] <= w /\ v <= stack[t][2]
    BY <2>4 DEF Within
  <2>7. low \in Int /\ high \in Int /\ w \in Int /\ v \in Int /\ low <= w /\ w <= high /\ high < v
    BY <1>1, <2>2
  <2> QED BY <2>5, <2>6, <2>7, SMTT(30)
<1>8. CASE v \in low .. high
  <2>1. PICK w \in low .. high : arr'[v] = arr[w]
    BY <1>5, <1>8, SMTT(30)
  <2>2. u < low /\ u \notin low .. high /\ w \in Index /\ u < w /\ ~Within(<<low, high>>, u, w)
    BY <1>1, <1>8, SMTT(30) DEF Within
  <2>3. arr[w] < arr[u]
    BY <1>5, <2>1, <2>2
  <2>4. PICK t \in 1 .. Len(stack) : Within(stack[t], u, w)
    BY <1>2, <2>2, <2>3
  <2>5. /\ stack[t][1] \in Int /\ stack[t][2] \in Int
        /\ stack[t][2] < low \/ high < stack[t][1]
    BY <1>1 DEF Apart
  <2>6. stack[t][1] <= u /\ w <= stack[t][2]
    BY <2>4 DEF Within
  <2>7. low \in Int /\ high \in Int /\ w \in Int /\ u \in Int /\ low <= w /\ w <= high /\ u < low
    BY <1>1, <2>2
  <2> QED BY <2>5, <2>6, <2>7
<1> QED BY <1>6, <1>7, <1>8

LEMMA SweepStep == ASSUME SortInv, Sweep PROVE SortInv'
<1>1. /\ nmemb \in Nat /\ arr \in [Index -> Int] /\ Index = 0 .. nmemb - 1 /\ ArrayOk
      /\ at = "sweep" /\ at' = "sweep" /\ j < high /\ j' = j + 1
      /\ UNCHANGED <<base, stack, low, high, pivot>> /\ complete' = FALSE
  BY DEF SortInv, Sweep, ArrayOk, Index
<1>2. /\ low \in Int /\ high \in Int /\ 0 <= low /\ low < high /\ high < nmemb
      /\ i \in Int /\ j \in Int /\ low - 1 <= i /\ i < j /\ j <= high
      /\ pivot = arr[high]
      /\ \A x \in low .. i : arr[x] <= pivot
      /\ \A x \in i + 1 .. j - 1 : pivot < arr[x]
  BY <1>1 DEF SortInv, SweepOk, RangeOk
<1>3. SUFFICES /\ ArrayOk' /\ nmemb' = nmemb
               /\ i' \in Int /\ low - 1 <= i' /\ i' < j'
               /\ pivot = arr'[high]
               /\ \A x \in low .. i' : arr'[x] <= pivot
               /\ \A x \in i' + 1 .. j' - 1 : pivot < arr'[x]
               /\ Ordered'
  <2> SUFFICES ASSUME /\ ArrayOk' /\ nmemb' = nmemb
                      /\ i' \in Int /\ low - 1 <= i' /\ i' < j'
                      /\ pivot = arr'[high]
                      /\ \A x \in low .. i' : arr'[x] <= pivot
                      /\ \A x \in i' + 1 .. j' - 1 : pivot < arr'[x]
                      /\ Ordered'
               PROVE  SortInv'
    BY Zenon
  <2>1. StackOk'
    BY <1>1 DEF SortInv, StackOk, RangeOk, Apart
  <2>2. SweepOk'
    <3>1. SweepOk
      BY <1>1 DEF SortInv
    <3>2. RangeOk(<<low, high>>)' /\ \A t \in 1 .. Len(stack') : Apart(stack[t], <<low, high>>)'
      BY <1>1, <3>1 DEF SweepOk, RangeOk, Apart
    <3>3. j' \in Int /\ j' <= high'
      BY <1>1, <1>2
    <3> QED BY <1>1, <3>2, <3>3, Zenon DEF SweepOk
  <2>3. Shrinks(Len(stack) + 1)'
    <3>1. Shrinks(Len(stack) + 1)
      BY <1>1 DEF SortInv
    <3> QED BY <1>1, <3>1, Zenon DEF Shrinks
  <2> QED BY <1>1, <2>1, <2>2, <2>3, ZenonT(30) DEF SortInv
<1>4. CASE ~(arr[j] <= pivot)
  <2>1. i' = i /\ arr' = arr
    BY <1>4 DEF Sweep
  <2>2. ArrayOk' /\ nmemb' = nmemb
    BY <1>1, <2>1, ArrayUnchanged
  <2>3. Ordered'
    BY <1>1, <2>1, <2>2 DEF SortInv, Ordered, Index, Within
  <2>4. j \in Index /\ pivot \in Int /\ arr[j] \in Int
    BY <1>1, <1>2
  <2>5. \A x \in i' + 1 .. j' - 1 : pivot < arr'[x]
    BY <1>1, <1>2, <1>4, <2>1, <2>4
  <2> QED BY <1>1, <1>2, <2>1, <2>2, <2>3, <2>5
<1>5. CASE arr[j] <= pivot
  <2>1. i' = i + 1 /\ arr' = swap(arr, i + 1, j)
    BY <1>5 DEF Sweep
  <2>2. i + 1 \in Index /\ j \in Index /\ i + 1 \in low .. high /\ j \in low .. high /\ high \in Index
    BY <1>1, <1>2
  <2>3. ArrayOk' /\ nmemb' = nmemb
    BY <1>1, <2>1, <2>2, ArraySwapped
  <2>4. /\ arr' \in [Index -> Int] /\ arr'[i + 1] = arr[j] /\ arr'[j] = arr[i + 1]
        /\ \A z \in Index \ {i + 1, j} : arr'[z] = arr[z]
    <3>1. arr \in [Index -> Int]
      BY <1>1
    <3>2. /\ swap(arr, i + 1, j) \in [Index -> Int]
          /\ swap(arr, i + 1, j)[i + 1] = arr[j] /\ swap(arr, i + 1, j)[j] = arr[i + 1]
          /\ \A z \in Index \ {i + 1, j} : swap(arr, i + 1, j)[z] = arr[z]
      BY <2>2, <3>1 DEF swap
    <3> QED BY <2>1, <3>2
  <2>5. Ordered'
    <3>1. \A u, v \in Index :
            u < v /\ arr'[v] < arr'[u] =>
              (\E t \in 1 .. Len(stack) : Within(stack[t], u, v)) \/ Within(<<low, high>>, u, v)
      BY <1>1, <2>1, <2>2, OrderKept, Zenon
    <3> QED BY <1>1, <2>3, <3>1 DEF Ordered, Index, Within
  <2>9. /\ Index \subseteq Int /\ low .. high \subseteq Index
        /\ low \in Int /\ high \in Int /\ i \in Int /\ j \in Int /\ pivot \in Int /\ j' = j + 1
        /\ low - 1 <= i /\ i < j /\ j < high
        /\ \A x \in low .. i : arr[x] <= pivot
        /\ \A x \in i + 1 .. j - 1 : pivot < arr[x]
        /\ \A x \in Index : arr[x] \in Int
    BY <1>1, <1>2 DEF Index
  <2>6. \A x \in low .. i' : arr'[x] <= pivot
    BY <1>5, <2>1, <2>2, <2>4, <2>9
  <2>7. \A x \in i' + 1 .. j' - 1 : pivot < arr'[x]
    BY <2>1, <2>2, <2>4, <2>9
  <2>8. pivot = arr'[high]
    BY <1>1, <1>2, <2>2, <2>4
  <2> QED BY <1>1, <1>2, <2>1, <2>3, <2>5, <2>6, <2>7, <2>8
<1> QED BY <1>4, <1>5

\* One or two elements behind a sequence.
PushFacts(S, s, a, b) ==
  /\ s \o << >> \o << >> = s
  /\ s \o <<a>> \o << >> = s \o <<a>>
  /\ s \o << >> \o <<a>> = s \o <<a>>
  /\ s \o <<a>> \in Seq(S) /\ Len(s \o <<a>>) = Len(s) + 1 /\ (s \o <<a>>)[Len(s) + 1] = a
  /\ \A t \in 1 .. Len(s) : (s \o <<a>>)[t] = s[t]
  /\ s \o <<a>> \o <<b>> \in Seq(S) /\ Len(s \o <<a>> \o <<b>>) = Len(s) + 2
  /\ (s \o <<a>> \o <<b>>)[Len(s) + 1] = a /\ (s \o <<a>> \o <<b>>)[Len(s) + 2] = b
  /\ \A t \in 1 .. Len(s) : (s \o <<a>> \o <<b>>)[t] = s[t]

LEMMA Push ==
  ASSUME NEW S, NEW s \in Seq(S), NEW a \in S, NEW b \in S
  PROVE  PushFacts(S, s, a, b)
<1>1. s \o << >> \o << >> = s
  OBVIOUS
<1>2. s \o <<a>> \o << >> = s \o <<a>>
  OBVIOUS
<1>3. s \o << >> \o <<a>> = s \o <<a>>
  OBVIOUS
<1>4. s \o <<a>> \in Seq(S) /\ Len(s \o <<a>>) = Len(s) + 1 /\ (s \o <<a>>)[Len(s) + 1] = a
  OBVIOUS
<1>5. \A t \in 1 .. Len(s) : (s \o <<a>>)[t] = s[t]
  OBVIOUS
<1> DEFINE q == s \o <<a>>
<1>6. q \in Seq(S) /\ Len(q) = Len(s) + 1 /\ q[Len(s) + 1] = a /\ \A t \in 1 .. Len(s) : q[t] = s[t]
  BY <1>4, <1>5
<1> HIDE DEF q
<1>7. q \o <<b>> \in Seq(S) /\ Len(q \o <<b>>) = Len(q) + 1 /\ (q \o <<b>>)[Len(q) + 1] = b
  BY <1>6
<1>8. \A t \in 1 .. Len(q) : (q \o <<b>>)[t] = q[t]
  BY <1>6, SMTT(30)
<1> QED BY <1>1, <1>2, <1>3, <1>4, <1>5, <1>6, <1>7, <1>8 DEF q, PushFacts

\* What Place leaves on the stack: the parts with more than one element, the
\* larger one below.
LEMMA PushedFacts ==
  ASSUME stack \in Seq(Int \X Int), low \in Int, high \in Int, NEW pos \in Int, NEW new, new = Pushed(stack, pos)
  PROVE  /\ new \in Seq(Int \X Int) /\ Len(stack) \in Nat
         /\ \A t \in 1 .. Len(stack) : new[t] = stack[t]
         /\ Len(new) \in {Len(stack), Len(stack) + 1, Len(stack) + 2}
         /\ \A t \in Len(stack) + 1 .. Len(new) :
              (low < pos - 1 /\ new[t] = <<low, pos - 1>>) \/ (pos + 1 < high /\ new[t] = <<pos + 1, high>>)
         /\ low < pos - 1 => \E t \in 1 .. Len(new) : new[t] = <<low, pos - 1>>
         /\ pos + 1 < high => \E t \in 1 .. Len(new) : new[t] = <<pos + 1, high>>
         /\ Len(new) = Len(stack) + 2 =>
              IF pos - low > high - pos
              THEN new[Len(stack) + 1] = <<low, pos - 1>> /\ new[Len(stack) + 2] = <<pos + 1, high>>
              ELSE new[Len(stack) + 1] = <<pos + 1, high>> /\ new[Len(stack) + 2] = <<low, pos - 1>>
<1> DEFINE a == <<low, pos - 1>>
           b == <<pos + 1, high>>
<1> DEFINE Goal ==
      /\ new \in Seq(Int \X Int) /\ Len(stack) \in Nat
      /\ \A t \in 1 .. Len(stack) : new[t] = stack[t]
      /\ Len(new) \in {Len(stack), Len(stack) + 1, Len(stack) + 2}
      /\ \A t \in Len(stack) + 1 .. Len(new) : (low < pos - 1 /\ new[t] = a) \/ (pos + 1 < high /\ new[t] = b)
      /\ low < pos - 1 => \E t \in 1 .. Len(new) : new[t] = a
      /\ pos + 1 < high => \E t \in 1 .. Len(new) : new[t] = b
      /\ Len(new) = Len(stack) + 2 =>
           IF pos - low > high - pos
           THEN new[Len(stack) + 1] = a /\ new[Len(stack) + 2] = b
           ELSE new[Len(stack) + 1] = b /\ new[Len(stack) + 2] = a
<1> SUFFICES Goal
  BY Zenon
<1>1. a \in Int \X Int /\ b \in Int \X Int /\ Len(stack) \in Nat
  OBVIOUS
<1>2. new = IF low < pos - 1
            THEN IF pos + 1 < high
                 THEN IF pos - low > high - pos THEN stack \o <<a>> \o <<b>> ELSE stack \o <<b>> \o <<a>>
                 ELSE IF pos - low > high - pos THEN stack \o <<a>> \o << >> ELSE stack \o << >> \o <<a>>
            ELSE IF pos + 1 < high
                 THEN IF pos - low > high - pos THEN stack \o << >> \o <<b>> ELSE stack \o <<b>> \o << >>
                 ELSE stack \o << >> \o << >>
  BY Zenon DEF Pushed
<1> HIDE DEF a, b
<1>3. PushFacts(Int \X Int, stack, a, b) /\ PushFacts(Int \X Int, stack, b, a)
  BY <1>1, Push, Zenon
<1>4. CASE ~(low < pos - 1) /\ ~(pos + 1 < high)
  <2>1. new = stack
    BY <1>2, <1>3, <1>4, Zenon DEF PushFacts
  <2>2. \A t \in Len(stack) + 1 .. Len(stack) : FALSE
    BY <1>1
  <2> QED BY <1>1, <1>4, <2>1, <2>2, SMTT(30)
<1>5. CASE low < pos - 1 /\ ~(pos + 1 < high)
  <2>1. new = stack \o <<a>>
    BY <1>2, <1>3, <1>5, Zenon DEF PushFacts
  <2>2. /\ new \in Seq(Int \X Int) /\ Len(new) = Len(stack) + 1 /\ new[Len(stack) + 1] = a
        /\ \A t \in 1 .. Len(stack) : new[t] = stack[t]
    BY <1>3, <2>1, Zenon DEF PushFacts
  <2>3. Len(stack) + 1 \in 1 .. Len(new) /\ \A t \in Len(stack) + 1 .. Len(new) : t = Len(stack) + 1
    BY <1>1, <2>2
  <2>4. Len(new) \in {Len(stack), Len(stack) + 1, Len(stack) + 2}
    BY <2>2, Zenon
  <2>5. \A t \in Len(stack) + 1 .. Len(new) : (low < pos - 1 /\ new[t] = a) \/ (pos + 1 < high /\ new[t] = b)
    BY <1>5, <2>2, <2>3
  <2>6. low < pos - 1 => \E t \in 1 .. Len(new) : new[t] = a
    BY <1>5, <2>2, <2>3, Zenon
  <2>7. pos + 1 < high => \E t \in 1 .. Len(new) : new[t] = b
    BY <1>5, <2>2, <2>3
  <2>8. Len(new) # Len(stack) + 2
    BY <1>1, <2>2
  <2> QED BY <1>1, <1>5, <2>2, <2>4, <2>5, <2>6, <2>7, <2>8, Zenon
<1>6. CASE ~(low < pos - 1) /\ pos + 1 < high
  <2>1. new = stack \o <<b>>
    BY <1>2, <1>3, <1>6, Zenon DEF PushFacts
  <2>2. /\ new \in Seq(Int \X Int) /\ Len(new) = Len(stack) + 1 /\ new[Len(stack) + 1] = b
        /\ \A t \in 1 .. Len(stack) : new[t] = stack[t]
    BY <1>3, <2>1, Zenon DEF PushFacts
  <2>3. Len(stack) + 1 \in 1 .. Len(new) /\ \A t \in Len(stack) + 1 .. Len(new) : t = Len(stack) + 1
    BY <1>1, <2>2
  <2>4. Len(new) \in {Len(stack), Len(stack) + 1, Len(stack) + 2}
    BY <2>2, Zenon
  <2>5. \A t \in Len(stack) + 1 .. Len(new) : (low < pos - 1 /\ new[t] = a) \/ (pos + 1 < high /\ new[t] = b)
    BY <1>6, <2>2, <2>3
  <2>6. low < pos - 1 => \E t \in 1 .. Len(new) : new[t] = a
    BY <1>6, <2>2, <2>3
  <2>7. pos + 1 < high => \E t \in 1 .. Len(new) : new[t] = b
    BY <1>6, <2>2, <2>3, Zenon
  <2>8. Len(new) # Len(stack) + 2
    BY <1>1, <2>2, SMTT(30)
  <2> QED BY <1>1, <1>6, <2>2, <2>4, <2>5, <2>6, <2>7, <2>8, Zenon
<1>7. CASE low < pos - 1 /\ pos + 1 < high /\ pos - low > high - pos
  <2>1. new = stack \o <<a>> \o <<b>>
    BY <1>2, <1>7, Zenon
  <2>2. /\ new \in Seq(Int \X Int) /\ Len(new) = Len(stack) + 2
        /\ new[Len(stack) + 1] = a /\ new[Len(stack) + 2] = b
        /\ \A t \in 1 .. Len(stack) : new[t] = stack[t]
    BY <1>3, <2>1, Zenon DEF PushFacts
  <2>3. /\ Len(stack) + 1 \in 1 .. Len(new) /\ Len(stack) + 2 \in 1 .. Len(new)
        /\ \A t \in Len(stack) + 1 .. Len(new) : t = Len(stack) + 1 \/ t = Len(stack) + 2
    BY <1>1, <2>2, SMTT(30)
  <2>4. Len(new) \in {Len(stack), Len(stack) + 1, Len(stack) + 2}
    BY <2>2, Zenon
  <2>5. \A t \in Len(stack) + 1 .. Len(new) : (low < pos - 1 /\ new[t] = a) \/ (pos + 1 < high /\ new[t] = b)
    BY <1>7, <2>2, <2>3, Zenon
  <2>6. low < pos - 1 => \E t \in 1 .. Len(new) : new[t] = a
    BY <1>7, <2>2, <2>3, Zenon
  <2>7. pos + 1 < high => \E t \in 1 .. Len(new) : new[t] = b
    BY <1>7, <2>2, <2>3, SMTT(30)
  <2> QED BY <1>1, <1>7, <2>2, <2>4, <2>5, <2>6, <2>7, Zenon
<1>8. CASE low < pos - 1 /\ pos + 1 < high /\ ~(pos - low > high - pos)
  <2>1. new = stack \o <<b>> \o <<a>>
    BY <1>2, <1>8, Zenon
  <2>2. /\ new \in Seq(Int \X Int) /\ Len(new) = Len(stack) + 2
        /\ new[Len(stack) + 1] = b /\ new[Len(stack) + 2] = a
        /\ \A t \in 1 .. Len(stack) : new[t] = stack[t]
    BY <1>3, <2>1, Zenon DEF PushFacts
  <2>3. /\ Len(stack) + 1 \in 1 .. Len(new) /\ Len(stack) + 2 \in 1 .. Len(new)
        /\ \A t \in Len(stack) + 1 .. Len(new) : t = Len(stack) + 1 \/ t = Len(stack) + 2
    <3>1. Len(new) = Len(stack) + 2
      BY <2>2
    <3> QED BY <1>1, <3>1
  <2>4. Len(new) \in {Len(stack), Len(stack) + 1, Len(stack) + 2}
    BY <2>2, Zenon
  <2>5. \A t \in Len(stack) + 1 .. Len(new) : (low < pos - 1 /\ new[t] = a) \/ (pos + 1 < high /\ new[t] = b)
    BY <1>8, <2>2, <2>3, Zenon
  <2>6. low < pos - 1 => \E t \in 1 .. Len(new) : new[t] = a
    BY <1>8, <2>2, <2>3, Zenon
  <2>7. pos + 1 < high => \E t \in 1 .. Len(new) : new[t] = b
    BY <1>8, <2>2, <2>3, Zenon
  <2> QED BY <1>1, <1>8, <2>2, <2>4, <2>5, <2>6, <2>7, Zenon
<1> QED BY <1>4, <1>5, <1>6, <1>7, <1>8, ZenonT(30)

LEMMA PlaceStep == ASSUME SortInv, Place PROVE SortInv'
<1> DEFINE pos == i + 1
           n == Len(stack)
<1>1. /\ nmemb \in Nat /\ arr \in [Index -> Int] /\ Index = 0 .. nmemb - 1 /\ ArrayOk
      /\ at = "sweep" /\ at' = "sort" /\ j = high
      /\ arr' = swap(arr, pos, high) /\ stack' = Pushed(stack, pos)
      /\ UNCHANGED <<base, low, high>> /\ complete' = FALSE
  BY DEF SortInv, Place, ArrayOk, Index
<1>2. /\ low \in Int /\ high \in Int /\ 0 <= low /\ low < high /\ high < nmemb
      /\ pos \in Int /\ low <= pos /\ pos <= high
      /\ pivot = arr[high]
      /\ \A x \in low .. pos - 1 : arr[x] <= pivot
      /\ \A x \in pos .. high - 1 : pivot < arr[x]
  <2>1. /\ low \in Int /\ high \in Int /\ 0 <= low /\ low < high /\ high < nmemb
        /\ i \in Int /\ low - 1 <= i /\ i < j
        /\ pivot = arr[high]
        /\ \A x \in low .. i : arr[x] <= pivot
        /\ \A x \in i + 1 .. j - 1 : pivot < arr[x]
    BY <1>1 DEF SortInv, SweepOk, RangeOk
  <2>2. pos - 1 = i
    BY <2>1
  <2> QED BY <1>1, <2>1, <2>2
<1>3. /\ stack \in Seq(Int \X Int)
      /\ \A t \in 1 .. n : RangeOk(stack[t])
      /\ \A t, u \in 1 .. n : t < u => Apart(stack[t], stack[u])
      /\ \A t \in 1 .. n : Apart(stack[t], <<low, high>>)
  BY <1>1, Zenon DEF SortInv, StackOk, SweepOk
<1>4. Shrinks(n + 1)
  BY <1>1 DEF SortInv
<1>5. pos \in Index /\ high \in Index /\ pos \in low .. high /\ high \in low .. high
  BY <1>1, <1>2
<1>6. ArrayOk' /\ nmemb' = nmemb /\ Index' = Index
  <2>1. ArrayOk' /\ nmemb' = nmemb
    BY <1>1, <1>5, ArraySwapped
  <2> QED BY <2>1 DEF Index
<1>7. /\ arr' \in [Index -> Int] /\ arr'[pos] = arr[high] /\ arr'[high] = arr[pos]
      /\ \A z \in Index \ {pos, high} : arr'[z] = arr[z]
  <2>1. /\ swap(arr, pos, high) \in [Index -> Int]
        /\ swap(arr, pos, high)[pos] = arr[high] /\ swap(arr, pos, high)[high] = arr[pos]
        /\ \A z \in Index \ {pos, high} : swap(arr, pos, high)[z] = arr[z]
    BY <1>1, <1>5 DEF swap
  <2> QED BY <1>1, <2>1
<1>8. \A u, v \in Index :
        u < v /\ arr'[v] < arr'[u] =>
          (\E t \in 1 .. n : Within(stack[t], u, v)) \/ Within(<<low, high>>, u, v)
  BY <1>1, <1>5, OrderKept, Zenon
<1>9. /\ stack' \in Seq(Int \X Int) /\ n \in Nat
      /\ \A t \in 1 .. n : stack'[t] = stack[t]
      /\ Len(stack') \in {n, n + 1, n + 2}
      /\ \A t \in n + 1 .. Len(stack') :
           (low < pos - 1 /\ stack'[t] = <<low, pos - 1>>) \/ (pos + 1 < high /\ stack'[t] = <<pos + 1, high>>)
      /\ low < pos - 1 => \E t \in 1 .. Len(stack') : stack'[t] = <<low, pos - 1>>
      /\ pos + 1 < high => \E t \in 1 .. Len(stack') : stack'[t] = <<pos + 1, high>>
      /\ Len(stack') = n + 2 =>
           IF pos - low > high - pos
           THEN stack'[n + 1] = <<low, pos - 1>> /\ stack'[n + 2] = <<pos + 1, high>>
           ELSE stack'[n + 1] = <<pos + 1, high>> /\ stack'[n + 2] = <<low, pos - 1>>
  <2> DEFINE new == stack'
  <2>1. new = Pushed(stack, pos) /\ pos \in Int /\ low \in Int /\ high \in Int /\ stack \in Seq(Int \X Int)
    BY <1>1, <1>2, <1>3
  <2> HIDE DEF new, pos
  <2> QED BY <2>1, PushedFacts, ZenonT(30) DEF new
<1> HIDE DEF pos, n
<1>10. n \in Nat /\ Len(stack') \in Nat /\ n <= Len(stack') /\ Len(stack') <= n + 2
  <2>1. n \in Nat /\ Len(stack') \in {n, n + 1, n + 2}
    BY <1>9, Zenon
  <2> QED BY <2>1
<1>11. \A t \in 1 .. Len(stack') :
         \/ t \in 1 .. n /\ stack'[t] = stack[t]
         \/ t > n /\ low < pos - 1 /\ stack'[t] = <<low, pos - 1>>
         \/ t > n /\ pos + 1 < high /\ stack'[t] = <<pos + 1, high>>
  <2> TAKE t \in 1 .. Len(stack')
  <2>1. t \in 1 .. n \/ (t \in n + 1 .. Len(stack') /\ t > n)
    BY <1>10
  <2> QED BY <1>9, <2>1, Zenon
<1>12. StackOk'
  <2>1. \A t \in 1 .. Len(stack') : RangeOk(stack'[t])
    <3> TAKE t \in 1 .. Len(stack')
    <3>1. CASE t \in 1 .. n /\ stack'[t] = stack[t]
      BY <1>3, <3>1
    <3>2. CASE low < pos - 1 /\ stack'[t] = <<low, pos - 1>>
      <4>1. <<low, pos - 1>> \in Int \X Int /\ 0 <= low /\ pos - 1 < nmemb
        BY <1>1, <1>2
      <4> QED BY <3>2, <4>1 DEF RangeOk
    <3>3. CASE pos + 1 < high /\ stack'[t] = <<pos + 1, high>>
      BY <1>2, <3>3 DEF RangeOk
    <3> QED BY <1>11, <3>1, <3>2, <3>3
  <2>2. \A t, u \in 1 .. Len(stack') : t < u => Apart(stack'[t], stack'[u])
    <3> SUFFICES ASSUME NEW t \in 1 .. Len(stack'), NEW u \in 1 .. Len(stack'), t < u
                 PROVE  Apart(stack'[t], stack'[u])
      OBVIOUS
    <3>1. CASE t \in 1 .. n /\ u \in 1 .. n
      BY <1>3, <1>9, <3>1, Zenon
    <3>2. CASE t \in 1 .. n /\ u \notin 1 .. n
      <4>1. Apart(stack[t], <<low, high>>) /\ stack'[t] = stack[t]
        BY <1>3, <1>9, <3>2, Zenon
      <4>2. stack'[u] = <<low, pos - 1>> \/ stack'[u] = <<pos + 1, high>>
        BY <1>11, <3>2, SMTT(30)
      <4>3. stack[t][1] \in Int /\ stack[t][2] \in Int
        BY <1>3, <3>2 DEF RangeOk
      <4> QED BY <1>2, <4>1, <4>2, <4>3 DEF Apart
    <3>3. CASE t \notin 1 .. n
      <4>1. t = n + 1 /\ u = n + 2 /\ Len(stack') = n + 2
        BY <1>9, <1>10, <3>3, SMTT(30)
      <4>2. \/ stack'[t] = <<low, pos - 1>> /\ stack'[u] = <<pos + 1, high>>
            \/ stack'[t] = <<pos + 1, high>> /\ stack'[u] = <<low, pos - 1>>
        BY <1>9, <4>1
      <4> QED BY <1>2, <4>2 DEF Apart
    <3>4. t \in 1 .. n \/ t \notin 1 .. n
      BY SMTT(30)
    <3> QED BY <3>1, <3>2, <3>3, <3>4
  <2> QED BY <1>6, <1>9, <2>1, <2>2 DEF StackOk, RangeOk, Apart
<1>13. Ordered'
  <2> SUFFICES ASSUME NEW u \in Index, NEW v \in Index, u < v, arr'[v] < arr'[u]
               PROVE  \E t \in 1 .. Len(stack') : Within(stack'[t], u, v)
    BY <1>6 DEF Ordered, Within
  <2>1. CASE \E t \in 1 .. n : Within(stack[t], u, v)
    BY <1>9, <1>10, <2>1
  <2>2. CASE Within(<<low, high>>, u, v)
    <3>1. low <= u /\ v <= high /\ u \in Int /\ v \in Int
      BY <1>1, <2>2 DEF Within
    <3>2. pivot \in Int /\ \A x \in low .. high : x \in Index /\ arr[x] \in Int /\ arr'[x] \in Int
      BY <1>1, <1>2, <1>7
    <3>3. arr'[pos] = pivot /\ \A x \in low .. pos - 1 : arr'[x] <= pivot
      <4> SUFFICES ASSUME NEW x \in low .. pos - 1 PROVE arr'[x] <= pivot
        BY <1>2, <1>7
      <4>1. x \in Index /\ x # pos /\ x # high
        BY <1>1, <1>2
      <4> QED BY <1>2, <1>7, <4>1
    <3>4. \A x \in pos + 1 .. high : pivot < arr'[x]
      <4> SUFFICES ASSUME NEW x \in pos + 1 .. high PROVE pivot < arr'[x]
        OBVIOUS
      <4>1. x \in Index /\ x # pos /\ pos < high /\ pos \in pos .. high - 1
        BY <1>1, <1>2
      <4>2. CASE x = high
        BY <1>2, <1>7, <4>1, <4>2
      <4>3. CASE x # high
        <5>1. x \in pos .. high - 1
          BY <1>2, <4>3
        <5> QED BY <1>2, <1>7, <4>1, <4>3, <5>1
      <4> QED BY <4>2, <4>3
    <3>5. v < pos \/ pos < u
      <4> SUFFICES ASSUME u <= pos, pos <= v PROVE FALSE
        BY <1>2, <3>1
      <4>0. arr'[u] \in Int /\ arr'[v] \in Int /\ pivot \in Int
        <5>1. u \in low .. high /\ v \in low .. high
          BY <1>2, <3>1
        <5> QED BY <3>2, <5>1
      <4>1. arr'[u] <= pivot
        <5>1. u = pos \/ u \in low .. pos - 1
          BY <1>2, <3>1
        <5> QED BY <3>2, <3>3, <5>1
      <4>2. pivot <= arr'[v]
        <5>1. v = pos \/ v \in pos + 1 .. high
          BY <1>2, <3>1
        <5>2. arr'[v] = pivot \/ pivot < arr'[v]
          BY <3>3, <3>4, <5>1, Zenon
        <5> QED BY <4>0, <5>2
      <4> QED BY <4>0, <4>1, <4>2
    <3>6. CASE v < pos
      <4>1. low < pos - 1 /\ low <= u /\ v <= pos - 1
        BY <1>2, <3>1, <3>6
      <4>2. PICK t \in 1 .. Len(stack') : stack'[t] = <<low, pos - 1>>
        BY <1>9, <4>1, Zenon
      <4>3. Within(stack'[t], u, v)
        BY <4>1, <4>2 DEF Within
      <4> QED BY <4>3
    <3>7. CASE pos < u
      <4>1. pos + 1 < high /\ pos + 1 <= u /\ v <= high
        BY <1>2, <3>1, <3>7
      <4>2. PICK t \in 1 .. Len(stack') : stack'[t] = <<pos + 1, high>>
        BY <1>9, <4>1, Zenon
      <4>3. Within(stack'[t], u, v)
        BY <4>1, <4>2 DEF Within
      <4> QED BY <4>3
    <3> QED BY <3>5, <3>6, <3>7
  <2> QED BY <1>8, <2>1, <2>2
<1>14. Shrinks(Len(stack))'
  <2>1. PICK half \in [1 .. n + 1 -> 0 .. nmemb] :
          /\ \A t \in 1 .. (n + 1) - 1 : 2 * half[t + 1] <= half[t]
          /\ \A t \in 1 .. n : stack[t][2] - stack[t][1] < half[t]
          /\ high - low < half[n + 1]
    BY <1>1, <1>4, Zenon DEF Shrinks, n
  <2> DEFINE small == IF pos - low > high - pos THEN high - pos ELSE pos - low
             less == [t \in 1 .. Len(stack') |-> IF t \in 1 .. n + 1 THEN half[t] ELSE small]
  <2>2. n + 1 \in 1 .. n + 1 /\ half[n + 1] \in 0 .. nmemb
    BY <1>9, <2>1
  <2>3. small \in Int /\ 0 <= small /\ 2 * small <= high - low /\ 2 * small <= half[n + 1] /\ small <= nmemb
    BY <1>1, <1>2, <2>1, <2>2, SMTT(30)
  <2>4. less \in [1 .. Len(stack') -> 0 .. nmemb]
    BY <1>1, <1>10, <2>1, <2>3
  <2>5. \A t \in 1 .. Len(stack') : less[t] = IF t \in 1 .. n + 1 THEN half[t] ELSE small
    OBVIOUS
  <2>6. small = IF pos - low > high - pos THEN high - pos ELSE pos - low
    OBVIOUS
  <2> HIDE DEF small, less
  <2>7. \A t \in 1 .. Len(stack') - 1 : 2 * less[t + 1] <= less[t]
    <3> TAKE t \in 1 .. Len(stack') - 1
    <3>1. t \in 1 .. Len(stack') /\ t + 1 \in 1 .. Len(stack') /\ t \in 1 .. n + 1
      BY <1>10
    <3>2. CASE t <= n
      <4>1. t \in 1 .. (n + 1) - 1 /\ t + 1 \in 1 .. n + 1
        BY <1>9, <3>1, <3>2
      <4> QED BY <2>1, <2>5, <3>1, <4>1
    <3>3. CASE t > n
      <4>1. t = n + 1 /\ t + 1 \notin 1 .. n + 1
        BY <1>9, <3>1, <3>3
      <4> QED BY <2>3, <2>5, <3>1, <4>1, SMTT(30)
    <3> QED BY <1>9, <3>1, <3>2, <3>3
  <2>8. \A t \in 1 .. Len(stack') : stack'[t][2] - stack'[t][1] < less[t]
    <3> TAKE t \in 1 .. Len(stack')
    <3>1. CASE t \in 1 .. n
      <4>1. t \in 1 .. n + 1 /\ stack'[t] = stack[t]
        BY <1>9, <3>1
      <4> QED BY <2>1, <2>5, <3>1, <4>1
    <3>2. CASE t = n + 1
      <4>1. less[t] = half[n + 1]
        BY <2>2, <2>5, <3>2
      <4>2. stack'[t] = <<low, pos - 1>> \/ stack'[t] = <<pos + 1, high>>
        <5>1. t \notin 1 .. n
          BY <1>9, <3>2
        <5> QED BY <1>11, <5>1, Zenon
      <4>3. stack'[t][2] - stack'[t][1] <= high - low
        BY <1>2, <4>2
      <4>4. stack'[t][2] - stack'[t][1] \in Int
        BY <1>2, <4>2
      <4> QED BY <1>2, <2>1, <2>2, <4>1, <4>3, <4>4
    <3>3. CASE t = n + 2
      <4>1. t \notin 1 .. n + 1 /\ Len(stack') = n + 2
        BY <1>9, <1>10, <3>3
      <4>2. less[t] = small
        BY <2>5, <4>1
      <4>3. IF pos - low > high - pos THEN stack'[t] = <<pos + 1, high>> ELSE stack'[t] = <<low, pos - 1>>
        BY <1>9, <3>3, <4>1
      <4> QED BY <1>2, <2>6, <4>2, <4>3
    <3> QED BY <1>9, <1>10, <3>1, <3>2, <3>3
  <2> QED BY <1>1, <1>6, <2>4, <2>7, <2>8, SMTT(30) DEF Shrinks
<1>15. Shrinks(Len(stack) + IF at = "sweep" THEN 1 ELSE 0)'
  <2>1. Len(stack') + (IF at' = "sweep" THEN 1 ELSE 0) = Len(stack')
    BY <1>1, <1>9
  <2> QED BY <1>14, <2>1, Zenon
<1>16. /\ at' \notin {"start", "sweep", "sorted", "unsorted", "search", "found", "missing"}
       /\ complete' \in BOOLEAN /\ complete' # TRUE /\ at' = "sort"
       /\ at' \in {"start", "sort", "sweep", "sorted", "unsorted", "search", "found", "missing"}
  BY <1>1, ZenonT(30)
<1> QED BY <1>1, <1>6, <1>12, <1>13, <1>15, <1>16, Zenon DEF SortInv

LEMMA SortDoneStep == ASSUME SortInv, SortDone PROVE SortInv'
<1>1. ArrayOk' /\ nmemb' = nmemb
  BY ArrayUnchanged DEF SortInv, SortDone
<1>2. at = "sort" /\ at' = "sorted" /\ stack' = stack /\ stack = << >> /\ UNCHANGED <<arr, low, high>>
      /\ complete' = TRUE
  BY DEF SortDone
<1>3. StackOk' /\ Ordered'
  BY <1>1, <1>2 DEF SortInv, StackOk, Ordered, Index, RangeOk, Apart, Within
<1>4. Shrinks(Len(stack))'
  <2>1. Shrinks(Len(stack) + 0)
    BY <1>2 DEF SortInv
  <2>2. Len(stack) + 0 = Len(stack)
    BY <1>2
  <2>3. Shrinks(Len(stack))
    BY <2>1, <2>2, Zenon
  <2> QED BY <1>1, <1>2, <2>3, Zenon DEF Shrinks
<1>5. Shrinks(Len(stack) + 0)'
  BY <1>2, <1>4
<1> QED BY <1>1, <1>2, <1>3, <1>5 DEF SortInv

\* Searching leaves the array alone.
LEMMA SearchKeeps ==
  ASSUME SortInv, at \in {"sorted", "unsorted", "search"}, at' \in {"search", "found", "missing"},
         UNCHANGED <<base, arr, stack, complete>>
  PROVE  /\ ArrayOk' /\ StackOk' /\ (complete' = TRUE => Ordered') /\ stack' = << >> /\ nmemb' = nmemb
         /\ complete' = complete /\ complete \in BOOLEAN
         /\ Shrinks(Len(stack) + IF at = "sweep" THEN 1 ELSE 0)'
<1>1. ArrayOk' /\ nmemb' = nmemb
  BY ArrayUnchanged DEF SortInv
<1>2. stack = << >> /\ stack' = stack /\ (complete = TRUE => Ordered) /\ arr' = arr /\ complete \in BOOLEAN
  BY DEF SortInv
<1>3. StackOk' /\ (complete' = TRUE => Ordered')
  BY <1>1, <1>2 DEF StackOk, Ordered, Index, RangeOk, Apart, Within
<1>4. Shrinks(0)'
  <2>1. Shrinks(0)
    BY <1>2 DEF SortInv
  <2>2. Len(stack) = 0 /\ Len(stack') = 0
    BY <1>2
  <2>3. at # "sweep" /\ at' # "sweep"
    OBVIOUS
  <2> QED BY <1>1, <1>2, <2>1, <2>3, Zenon DEF Shrinks
<1> QED BY <1>1, <1>2, <1>3, <1>4

LEMMA SearchStep == ASSUME SortInv, NEW x \in Keys, Search(x) PROVE SortInv'
<1>1. /\ at \in {"sorted", "unsorted"} /\ at' \in {"search", "missing"}
      /\ UNCHANGED <<base, arr, stack, complete>>
  BY DEF Search
<1>2. /\ ArrayOk' /\ StackOk' /\ (complete' = TRUE => Ordered') /\ stack' = << >> /\ nmemb' = nmemb
      /\ complete' = complete /\ complete \in BOOLEAN
      /\ Shrinks(Len(stack) + IF at = "sweep" THEN 1 ELSE 0)'
  BY <1>1, SearchKeeps, ZenonT(30)
<1>3. nmemb \in Nat /\ Index = 0 .. nmemb - 1 /\ Index' = Index /\ x \in Int
  BY <1>2, KeysAssumption DEF SortInv, ArrayOk, Index
<1>4. at' = "search" => SearchIn' /\ SearchOk'
  BY <1>2, <1>3 DEF Search, SearchIn, SearchOk
<1>5. at' = "missing" => \A y \in Index' : arr'[y] # key'
  BY <1>2, <1>3 DEF Search
<1> QED BY <1>1, <1>2, <1>4, <1>5 DEF SortInv

LEMMA ProbeStep == ASSUME SortInv, Probe PROVE SortInv'
<1> DEFINE mid == low + (high - low) \div 2
<1>1. at = "search" /\ at' \in {"search", "found", "missing"}
      /\ UNCHANGED <<base, arr, stack, key, complete>>
  BY DEF Probe
<1>2. /\ ArrayOk' /\ StackOk' /\ (complete' = TRUE => Ordered') /\ stack' = << >> /\ nmemb' = nmemb
      /\ complete' = complete /\ complete \in BOOLEAN
      /\ Shrinks(Len(stack) + IF at = "sweep" THEN 1 ELSE 0)'
  BY <1>1, SearchKeeps, ZenonT(30)
<1>3. /\ nmemb \in Nat /\ Index = 0 .. nmemb - 1 /\ Index' = Index /\ arr \in [Index -> Int]
      /\ low \in Int /\ high \in Int /\ key \in Int
      /\ 0 <= low /\ low <= nmemb /\ -1 <= high /\ high < nmemb
      /\ complete = TRUE => /\ \A x \in Index : x < low => arr[x] < key
                            /\ \A x \in Index : high < x => key < arr[x]
  BY <1>1, <1>2 DEF SortInv, ArrayOk, SearchIn, SearchOk, Index
<1>4. ASSUME complete = TRUE PROVE \A x, y \in Index : x < y => arr[x] <= arr[y]
  <2>1. Ordered /\ Len(stack) = 0
    BY <1>1, <1>4 DEF SortInv
  <2>2. \A x, y \in Index : x < y => ~(arr[y] < arr[x])
    BY <1>1, <2>1 DEF Ordered
  <2> QED BY <1>3, <2>2
<1>5. low <= high => mid \in Index /\ low <= mid /\ mid <= high
  <2> SUFFICES ASSUME low <= high PROVE mid \in Index /\ low <= mid /\ mid <= high
    OBVIOUS
  <2>1. high - low \in Nat
    BY <1>3
  <2>2. \A d \in Nat : d \div 2 \in Nat /\ d \div 2 <= d
    OBVIOUS
  <2>3. (high - low) \div 2 \in Nat /\ (high - low) \div 2 <= high - low
    BY <2>1, <2>2
  <2> DEFINE half == (high - low) \div 2
  <2> HIDE DEF half
  <2>4. half \in Nat /\ half <= high - low /\ mid = low + half
    BY <2>3 DEF half
  <2> HIDE DEF mid
  <2> QED BY <1>3, <2>4
<1>6. \/ low > high /\ at' = "missing"
      \/ low <= high /\ key = arr[mid] /\ at' = "found" /\ low' = mid
      \/ low <= high /\ key < arr[mid] /\ high' = mid - 1 /\ low' = low /\ at' = "search"
      \/ low <= high /\ key > arr[mid] /\ low' = mid + 1 /\ high' = high /\ at' = "search"
  BY <1>1 DEF Probe
<1> HIDE DEF mid
<1>7. CASE low > high /\ at' = "missing"
  <2>1. complete' = TRUE => \A x \in Index' : arr'[x] # key'
    BY <1>1, <1>3, <1>7
  <2> QED BY <1>1, <1>2, <1>7, <2>1 DEF SortInv
<1>8. CASE low <= high /\ key = arr[mid] /\ at' = "found" /\ low' = mid
  <2>1. low' \in Index' /\ arr'[low'] = key'
    BY <1>1, <1>3, <1>5, <1>8, SMTT(30)
  <2> QED BY <1>1, <1>2, <1>8, <2>1 DEF SortInv
<1>9. CASE low <= high /\ key < arr[mid] /\ high' = mid - 1 /\ low' = low /\ at' = "search"
  <2>1. mid \in Index /\ mid \in Int /\ low <= mid /\ mid <= high
    BY <1>3, <1>5, <1>9
  <2>2. ASSUME complete = TRUE, NEW x \in Index, mid - 1 < x PROVE key < arr[x]
    <3>1. CASE x = mid
      BY <1>9, <3>1
    <3>2. CASE mid < x
      BY <1>3, <1>4, <1>9, <2>1, <2>2, <3>2, SMTT(30)
    <3> QED BY <1>3, <2>1, <2>2, <3>1, <3>2
  <2>3. SearchIn' /\ (complete' = TRUE => SearchOk')
    <3>1. SearchIn'
      BY <1>1, <1>2, <1>3, <1>9, <2>1 DEF SearchIn
    <3> QED BY <1>1, <1>2, <1>3, <1>9, <2>2, <3>1, ZenonT(30) DEF SearchOk
  <2> QED BY <1>1, <1>2, <1>9, <2>3 DEF SortInv
<1>10. CASE low <= high /\ key > arr[mid] /\ low' = mid + 1 /\ high' = high /\ at' = "search"
  <2>1. mid \in Index /\ mid \in Int /\ low <= mid /\ mid <= high
    BY <1>3, <1>5, <1>10
  <2>2. ASSUME complete = TRUE, NEW x \in Index, x < mid + 1 PROVE arr[x] < key
    <3>1. CASE x = mid
      BY <1>3, <1>10, <2>1, <3>1
    <3>2. CASE x < mid
      BY <1>3, <1>4, <1>10, <2>1, <2>2, <3>2, SMTT(30)
    <3> QED BY <1>3, <2>1, <2>2, <3>1, <3>2
  <2>3. SearchIn' /\ (complete' = TRUE => SearchOk')
    <3>1. SearchIn'
      BY <1>1, <1>2, <1>3, <1>10, <2>1 DEF SearchIn
    <3> QED BY <1>1, <1>2, <1>3, <1>10, <2>2, <3>1, ZenonT(30) DEF SearchOk
  <2> QED BY <1>1, <1>2, <1>10, <2>3 DEF SortInv
<1> QED BY <1>6, <1>7, <1>8, <1>9, <1>10

LEMMA SortStep == ASSUME SortInv, [SortNext]_sortVars PROVE SortInv'
<1>1. CASE UNCHANGED sortVars
  <2>1. /\ base' = base /\ arr' = arr /\ stack' = stack /\ low' = low /\ high' = high
        /\ pivot' = pivot /\ i' = i /\ j' = j /\ key' = key /\ at' = at /\ complete' = complete
    BY <1>1 DEF sortVars
  <2>2. nmemb' = nmemb /\ Index' = Index
    BY <2>1 DEF nmemb, Index
  <2> QED BY <2>1, <2>2, ZenonT(30) DEF SortInv, ArrayOk, StackOk, SweepOk, Ordered, Shrinks, SearchIn, SearchOk, RangeOk, Apart, Within
<1> QED BY <1>1, BeginStep, PopStep, SweepStep, PlaceStep, SortDoneStep, SearchStep, ProbeStep DEF SortNext

LEMMA SortInvImplies == SortInv => SortThenSearch
<1> SUFFICES ASSUME SortInv PROVE SortThenSearch
  OBVIOUS
<1>1. nmemb \in Nat /\ DOMAIN arr = Index /\ DOMAIN base = Index /\ arr \in [Index -> Int] /\ base \in [Index -> Int]
  BY DEF SortInv, ArrayOk
<1>2. \A v \in Range(base) \cup Range(arr) : Occurrences(arr, v) = Occurrences(base, v)
  <2>1. \A v \in Range(base) \cup Range(arr) : v \in Int
    BY <1>1 DEF Range
  <2> QED BY <2>1 DEF SortInv, ArrayOk
<1>3. complete => \A x, y \in DOMAIN arr : x < y => arr[x] <= arr[y]
  <2> SUFFICES ASSUME complete = TRUE
               PROVE  \A x, y \in DOMAIN arr : x < y => arr[x] <= arr[y]
    BY DEF SortInv
  <2>1. Ordered /\ Len(stack) = 0 /\ at # "sweep"
    BY SMTT(30) DEF SortInv
  <2>2. \A x, y \in Index : x < y => ~(arr[y] < arr[x])
    BY <2>1 DEF Ordered
  <2> QED BY <1>1, <2>2
<1>4. StackLogarithmic
  <2> DEFINE n == Len(stack)
             d == n + IF at = "sweep" THEN 1 ELSE 0
  <2>1. n \in Nat /\ d \in Nat /\ n <= d /\ \A t \in 1 .. n : RangeOk(stack[t])
    BY DEF SortInv, StackOk
  <2>2. PICK half \in [1 .. d -> 0 .. nmemb] :
          /\ \A t \in 1 .. d - 1 : 2 * half[t + 1] <= half[t]
          /\ \A t \in 1 .. n : stack[t][2] - stack[t][1] < half[t]
    <3>1. Shrinks(d)
      BY DEF SortInv
    <3> HIDE DEF d
    <3> QED BY <3>1, Zenon DEF Shrinks
  <2> DEFINE less == [t \in 1 .. n |-> half[t]]
  <2> HIDE DEF n, d
  <2>3. \A t \in 1 .. n : t \in 1 .. d /\ half[t] \in 2 .. nmemb
    <3> TAKE t \in 1 .. n
    <3>1. t \in 1 .. d
      BY <2>1
    <3>2. half[t] \in 0 .. nmemb
      BY <2>2, <3>1
    <3>3. stack[t][1] \in Int /\ stack[t][2] \in Int /\ stack[t][1] < stack[t][2]
      BY <2>1 DEF RangeOk
    <3> QED BY <1>1, <2>2, <3>1, <3>2, <3>3
  <2>4. less \in [1 .. n -> 2 .. nmemb]
    BY <2>3
  <2>5. \A t \in 1 .. n - 1 : 2 * less[t + 1] <= less[t]
    <3> TAKE t \in 1 .. n - 1
    <3>1. t \in 1 .. d - 1 /\ t \in 1 .. n /\ t + 1 \in 1 .. n
      BY <2>1
    <3> QED BY <2>2, <3>1
  <2> HIDE DEF less
  <2> QED BY <2>4, <2>5 DEF StackLogarithmic, n
<1>5. SearchDecides
  <2>1. at = "search" => 0 <= low /\ high < nmemb
    BY DEF SortInv, SearchIn
  <2>2. at = "found" => low \in DOMAIN arr /\ arr[low] = key
    BY <1>1 DEF SortInv
  <2>3. at = "missing" /\ complete => \A x \in DOMAIN arr : arr[x] # key
    BY <1>1 DEF SortInv
  <2> QED BY <2>1, <2>2, <2>3, Zenon DEF SearchDecides
<1> QED BY <1>1, <1>2, <1>3, <1>4, <1>5 DEF SortThenSearch, SortPermutes

\* The sort and the search the tokenizer rests on, for arrays of any length and
\* any keys.  Whatever malloc answers the array keeps its elements, the stack
\* holds at most log2(nmemb) ranges, xbsearch stays inside the array and what it
\* finds is the key.  Where no malloc fails the array ends up sorted, and
\* xbsearch finds the key whenever it is there (xstdlib.c:26-118).
THEOREM SortAndSearch == SortSpec => []SortThenSearch
<1>1. SortInv /\ [SortNext]_sortVars => SortInv'
  BY SortStep
<1> QED BY SortInvInit, <1>1, SortInvImplies, PTL DEF SortSpec
=============================================================================
