------------------------------ MODULE XStdlib ------------------------------
(***************************************************************************)
(* xqsort and xbsearch of user/xstdlib.c, as the tokenizer uses them: an   *)
(* array is sorted once and then searched.  An element is an integer, its  *)
(* comparison the difference; every malloc may fail.  xqsort returns       *)
(* nothing, so a caller searches also what it has given up to sort.        *)
(***************************************************************************)
EXTENDS Integers, Sequences, FiniteSets, Functions

CONSTANTS Arrays,  \* the arrays considered, functions from 0 .. n - 1 to integers
          Keys     \* what is searched for

ASSUME ArraysAssumption ==
  \A a \in Arrays : LET n == Cardinality(DOMAIN a) IN n \in Nat /\ a \in [0 .. n - 1 -> Int]
ASSUME KeysAssumption == Keys \subseteq Int

VARIABLES
  base,           \* the array as it was handed over
  arr,            \* the array, indices from 0
  stack,          \* the ranges still to sort, <<low, high>>, the top last
  low, high,      \* the range being partitioned, or searched
  pivot, i, j,    \* the pivot's copy and the loop that partitions
  key,            \* what xbsearch looks for
  at,             \* "start", "sort", "sweep", "sorted", "unsorted", "search", "found", "missing"
  complete        \* history: xqsort has come to its end

sortVars == <<base, arr, stack, low, high, pivot, i, j, key, at, complete>>

nmemb == Cardinality(DOMAIN arr)

SortInit ==
  /\ base \in Arrays
  /\ arr = base
  /\ stack = << >>
  /\ low = 0 /\ high = 0 /\ pivot = 0 /\ i = 0 /\ j = 0 /\ key = 0
  /\ at = "start" /\ complete = FALSE

\* No element or one: nothing to do; otherwise the stack is allocated.
SortBegin ==
  /\ at = "start"
  /\ \/ nmemb <= 1 /\ at' = "sorted" /\ complete' = TRUE /\ UNCHANGED stack
     \/ nmemb > 1 /\ at' = "sort" /\ stack' = <<<<0, nmemb - 1>>>> /\ UNCHANGED complete
     \/ nmemb > 1 /\ at' = "unsorted" /\ UNCHANGED <<stack, complete>>   \* malloc fails
  /\ UNCHANGED <<base, arr, low, high, pivot, i, j, key>>

\* The top range is popped; one of a single element is skipped.  Without memory
\* for the pivot's copy the array stays half sorted.
Pop ==
  /\ at = "sort"
  /\ stack # << >>
  /\ LET range == stack[Len(stack)]
         rest == SubSeq(stack, 1, Len(stack) - 1)
     IN \/ range[1] >= range[2] /\ stack' = rest /\ UNCHANGED <<low, high, pivot, i, j, at>>
        \/ /\ range[1] < range[2]
           /\ stack' = rest
           /\ low' = range[1] /\ high' = range[2]
           /\ pivot' = arr[range[2]]
           /\ i' = range[1] - 1 /\ j' = range[1]
           /\ at' = "sweep"
        \/ range[1] < range[2] /\ at' = "unsorted" /\ stack' = << >> /\ UNCHANGED <<low, high, pivot, i, j>>
  /\ UNCHANGED <<base, arr, key, complete>>

swap(a, x, y) == [a EXCEPT ![x] = a[y], ![y] = a[x]]

\* One turn of the loop over j: what is not greater than the pivot goes below i.
Sweep ==
  /\ at = "sweep"
  /\ j < high
  /\ IF arr[j] <= pivot THEN i' = i + 1 /\ arr' = swap(arr, i + 1, j) ELSE UNCHANGED <<i, arr>>
  /\ j' = j + 1
  /\ UNCHANGED <<base, stack, low, high, pivot, key, at, complete>>

\* The larger part first, so that the smaller is on top; a part of one element
\* is not pushed.
Pushed(rest, p) ==
  LET left == IF low < p - 1 THEN <<<<low, p - 1>>>> ELSE << >>
      right == IF p + 1 < high THEN <<<<p + 1, high>>>> ELSE << >>
  IN IF p - low > high - p THEN rest \o left \o right ELSE rest \o right \o left

\* Mutant: the pivot stays at the end of the range.
PlaceUnmoved ==
  /\ at = "sweep"
  /\ j = high
  /\ stack' = Pushed(stack, i + 1)
  /\ at' = "sort"
  /\ UNCHANGED <<base, arr, low, high, pivot, i, j, key, complete>>

\* The pivot comes to its place, and the two parts on the stack.
Place ==
  /\ at = "sweep"
  /\ j = high
  /\ arr' = swap(arr, i + 1, high)
  /\ stack' = Pushed(stack, i + 1)
  /\ at' = "sort"
  /\ UNCHANGED <<base, low, high, pivot, i, j, key, complete>>

SortDone ==
  /\ at = "sort"
  /\ stack = << >>
  /\ at' = "sorted"
  /\ complete' = TRUE
  /\ UNCHANGED <<base, arr, stack, low, high, pivot, i, j, key>>

\* encode searches whatever xqsort has left.
Search(x) ==
  /\ at \in {"sorted", "unsorted"}
  /\ key' = x
  /\ low' = 0
  /\ high' = nmemb - 1
  /\ at' = IF nmemb = 0 THEN "missing" ELSE "search"
  /\ UNCHANGED <<base, arr, stack, pivot, i, j, complete>>

Probe ==
  /\ at = "search"
  /\ LET mid == low + (high - low) \div 2
     IN \/ low > high /\ at' = "missing" /\ UNCHANGED <<low, high>>
        \/ low <= high /\ key = arr[mid] /\ at' = "found" /\ low' = mid /\ UNCHANGED high
        \/ low <= high /\ key < arr[mid] /\ high' = mid - 1 /\ UNCHANGED <<low, at>>
        \/ low <= high /\ key > arr[mid] /\ low' = mid + 1 /\ UNCHANGED <<high, at>>
  /\ UNCHANGED <<base, arr, stack, pivot, i, j, key, complete>>

SortNext == SortBegin \/ Pop \/ Sweep \/ Place \/ SortDone \/ (\E x \in Keys : Search(x)) \/ Probe

SortSpec == SortInit /\ [][SortNext]_sortVars

-----------------------------------------------------------------------------
Occurrences(a, v) == Cardinality({x \in DOMAIN a : a[x] = v})

\* xqsort keeps every element, also when it gives up half way for want of
\* memory, and puts them in order when it does not.
SortPermutes ==
  /\ DOMAIN arr = DOMAIN base
  /\ \A v \in Range(base) \cup Range(arr) : Occurrences(arr, v) = Occurrences(base, v)
  /\ complete => \A x, y \in DOMAIN arr : x < y => arr[x] <= arr[y]

\* xstdlib.c:50 "log2(vocab_size) * 2 should be enough": the array can be halved
\* once for every range on the stack, whatever the pivots, so that there are at
\* most log2(nmemb) of them, of two integers each.
StackLogarithmic ==
  \E half \in [1 .. Len(stack) -> 2 .. nmemb] : \A t \in 1 .. Len(stack) - 1 : 2 * half[t + 1] <= half[t]

\* In any array xbsearch stays inside and what it finds is the key; in a sorted
\* one it does not miss the key.
SearchDecides ==
  /\ at = "search" => 0 <= low /\ high < nmemb
  /\ at = "found" => low \in DOMAIN arr /\ arr[low] = key
  /\ at = "missing" /\ complete => \A x \in DOMAIN arr : arr[x] # key

\* xstdlib.c:26-118: xqsort and xbsearch as encode calls them.  Whatever
\* malloc does the array keeps its elements, the stack is as deep as a logarithm,
\* the search stays in the array and what it finds is there.  When malloc gave
\* xqsort what it asked for, the array is sorted and the search misses nothing.
SortThenSearch == SortPermutes /\ StackLogarithmic /\ SearchDecides

\* llama_core.c:899: str_lookup finds "the perfect match for str in vocab", "or -1
\* if not found", also when xqsort gave up.
MissingIsAbsent == at = "missing" => \A x \in DOMAIN arr : arr[x] # key
=============================================================================
