------------------------------ MODULE Quicksort ------------------------------
(***************************************************************************)
(* The in-place sort of demo_quicksort.  Calls that are still to be made   *)
(* are on `stack', the next one first; one step is a call, a round of      *)
(* partition's loop, or its end with the two recursive calls.              *)
(***************************************************************************)
EXTENDS Integers, Sequences

CONSTANTS
    N,      \* NELEMENTS
    Values  \* what elements can be

ASSUME NAssumption == N \in Nat
ASSUME ValuesAssumption == Values \subseteq Int

VARIABLES
    arr,          \* the array in the region
    stack,        \* arguments <<lo, hi>> of the calls to come
    partitioning, \* partition is running
    lo, hi, k, i, \* its variables
    pivot,
    input,        \* ghost: the array at first
    origin        \* ghost: where in the input each element was

locals == <<lo, hi, k, i, pivot>>
vars == <<arr, stack, partitioning, locals, input, origin>>

Index == 0..(N - 1)

Init ==
    /\ arr \in [Index -> Values] /\ input = arr
    /\ origin = [j \in Index |-> j]
    /\ stack = <<<<0, N - 1>>>> /\ partitioning = FALSE
    /\ lo = 0 /\ hi = 0 /\ k = 0 /\ i = 0 /\ pivot = 0

\* The early return of quicksort.
NothingToSort_Off(l, h) == l + 1 >= h \/ l < 0
NothingToSort(l, h) == l >= h \/ l < 0

Return ==
    /\ ~partitioning /\ stack # << >>
    /\ NothingToSort(Head(stack)[1], Head(stack)[2])
    /\ stack' = Tail(stack)
    /\ UNCHANGED <<arr, partitioning, locals, input, origin>>

Call ==
    /\ ~partitioning /\ stack # << >>
    /\ ~NothingToSort(Head(stack)[1], Head(stack)[2])
    /\ stack' = Tail(stack) /\ partitioning' = TRUE
    /\ lo' = Head(stack)[1] /\ hi' = Head(stack)[2]
    /\ k' = lo' /\ i' = lo' /\ pivot' = arr[hi']
    /\ UNCHANGED <<arr, input, origin>>

Swapped_Copied(f, a, b) == [f EXCEPT ![a] = f[b]]
Swapped(f, a, b) == [f EXCEPT ![a] = f[b], ![b] = f[a]]
Swap(a, b) == arr' = Swapped(arr, a, b) /\ origin' = Swapped(origin, a, b)

Round_OnlyIfSwapped ==
    /\ partitioning /\ i < hi
    /\ i' = IF arr[i] <= pivot THEN i + 1 ELSE i
    /\ IF arr[i] <= pivot THEN Swap(i, k) /\ k' = k + 1
                          ELSE UNCHANGED <<arr, origin, k>>
    /\ UNCHANGED <<stack, partitioning, lo, hi, pivot, input>>
Round ==
    /\ partitioning /\ i < hi
    /\ i' = i + 1
    /\ IF arr[i] <= pivot THEN Swap(i, k) /\ k' = k + 1
                          ELSE UNCHANGED <<arr, origin, k>>
    /\ UNCHANGED <<stack, partitioning, lo, hi, pivot, input>>

Calls(l, h, m) == <<<<l, m - 1>>, <<m + 1, h>>>>

EndPartition ==
    /\ partitioning /\ i >= hi
    /\ Swap(k, hi)
    /\ stack' = Calls(lo, hi, k) \o stack
    /\ partitioning' = FALSE
    /\ UNCHANGED <<locals, input>>

Next == Return \/ Call \/ Round \/ EndPartition

Spec == Init /\ [][Next]_vars

\* The sorting process runs.
FairSpec == Spec /\ WF_vars(Next)

(***************************************************************************)
(* Properties.                                                             *)
(***************************************************************************)

\* Type invariant.
TypeOK ==
    /\ arr \in [Index -> Values] /\ input \in [Index -> Values]
    /\ origin \in [Index -> Index]
    /\ stack \in Seq(Int \X Int) /\ partitioning \in BOOLEAN
    /\ lo \in Int /\ hi \in Int /\ k \in Int /\ i \in Int /\ pivot \in Int
    /\ partitioning => lo \in Index /\ hi \in Index /\ k \in lo..hi /\ i \in lo..hi

Done == ~partitioning /\ stack = << >>

\* quicksort returns with the array in order.
Sorted == Done => \A x, y \in Index : x <= y => arr[x] <= arr[y]

\* Swaps only move elements: at any time the array is a permutation of the input.
OnlyPermuted ==
    /\ \A x \in Index : arr[x] = input[origin[x]]
    /\ \A x, y \in Index : origin[x] = origin[y] => x = y

\* No element in l..h is out of order with one outside of it.
Separated(f, l, h) ==
    \A x, y \in Index : x < y /\ ~(x \in l..h <=> y \in l..h) => f[x] <= f[y]

RangesInOrder ==
    /\ \A m \in 1..Len(stack) : 0 <= stack[m][1] /\ stack[m][2] < N
    /\ \A m, n \in 1..Len(stack) : m < n => stack[m][2] < stack[n][1]
    /\ partitioning => \A m \in 1..Len(stack) : hi < stack[m][1]

\* The ranges of the calls to come do not meet, are in order, and nothing has to
\* move from one to another: what partition has to leave behind for the recursive
\* calls to be enough.
CallsAreIndependent ==
    /\ RangesInOrder
    /\ \A m \in 1..Len(stack) : Separated(arr, stack[m][1], stack[m][2])

\* The sort ends.
SortEnds == <>Done
=============================================================================
