-------------------------- MODULE Quicksort_proofs --------------------------
(***************************************************************************)
(* Theorems about Quicksort for arrays of any length and any integers.     *)
(***************************************************************************)
EXTENDS Quicksort, SequenceTheorems, TLAPS

\* The elements that partition has looked at are on their side of k.
Partitioned ==
    partitioning =>
        /\ pivot = arr[hi] /\ k <= i
        /\ \A x \in Index : lo <= x /\ x < k => arr[x] <= pivot
        /\ \A x \in Index : k <= x /\ x < i => pivot < arr[x]
        /\ Separated(arr, lo, hi)

\* x and y are in one range that is still to be sorted.
Pending(x, y) ==
    \/ \E m \in 1..Len(stack) : x \in stack[m][1]..stack[m][2] /\ y \in stack[m][1]..stack[m][2]
    \/ partitioning /\ x \in lo..hi /\ y \in lo..hi

DisorderIsPending ==
    \A x, y \in Index : x < y => arr[x] <= arr[y] \/ Pending(x, y)

SortInv ==
    TypeOK /\ OnlyPermuted /\ CallsAreIndependent /\ Partitioned /\ DisorderIsPending

(***************************************************************************)
(* A swap within l..h.                                                     *)
(***************************************************************************)
Shuffled(f, g, l, h) ==
    \A x \in Index : IF x \in l..h THEN \E y \in l..h : g[x] = f[y] ELSE g[x] = f[x]

\* Moving elements within l..h keeps l..h, and every range to its right, separated
\* from the rest.
LEMMA ShuffleSeparated ==
    ASSUME NEW f \in [Index -> Int], NEW g \in [Index -> Int],
           NEW l \in Index, NEW h \in Index, Shuffled(f, g, l, h),
           NEW c \in Int, NEW d \in Int, h < c \/ (c = l /\ d = h),
           Separated(f, c, d)
    PROVE  Separated(g, c, d)
<1> SUFFICES ASSUME NEW x \in Index, NEW y \in Index, x < y,
                    ~(x \in c..d <=> y \in c..d)
             PROVE  g[x] <= g[y]
  BY DEF Separated
<1>0. l..h \subseteq Index
  BY NAssumption DEF Index
<1>a. ASSUME NEW z \in Index
      PROVE  \E w \in Index : g[z] = f[w] /\ (z \in l..h => w \in l..h) /\ (z \notin l..h => w = z)
  <2>1. CASE z \in l..h
    <3>1. PICK w \in l..h : g[z] = f[w]
      BY <2>1 DEF Shuffled
    <3> QED
      BY <3>1, <2>1, <1>0
  <2>2. CASE z \notin l..h
    <3>1. g[z] = f[z]
      BY <2>2 DEF Shuffled
    <3> QED
      BY <3>1, <2>2
  <2> QED
    BY <2>1, <2>2
<1>1. PICK u \in Index : g[x] = f[u] /\ (x \in l..h => u \in l..h) /\ (x \notin l..h => u = x)
  BY <1>a
<1>2. PICK v \in Index : g[y] = f[v] /\ (y \in l..h => v \in l..h) /\ (y \notin l..h => v = y)
  BY <1>a
<1>i. x \in Int /\ y \in Int /\ u \in Int /\ v \in Int /\ l \in Int /\ h \in Int
  BY NAssumption DEF Index
<1>3. u < v /\ ~(u \in c..d <=> v \in c..d)
  <2>1. CASE h < c
    <3>1. y \notin l..h
      BY <2>1, <1>i
    <3> QED
      BY <3>1, <2>1, <1>1, <1>2, <1>i
  <2>2. CASE c = l /\ d = h
    BY <2>2, <1>1, <1>2, <1>i
  <2> QED
    BY <2>1, <2>2
<1> QED
  BY <1>1, <1>2, <1>3 DEF Separated

(***************************************************************************)
(* The stack of calls.                                                     *)
(***************************************************************************)

\* What is left after a call was taken from the stack.
LEMMA Popped ==
    ASSUME NEW s \in Seq(Int \X Int), s # << >>
    PROVE  /\ Tail(s) \in Seq(Int \X Int) /\ Len(Tail(s)) = Len(s) - 1
           /\ Head(s) = s[1] /\ Head(s) \in Int \X Int /\ 1 \in 1..Len(s)
           /\ \A m \in 1..Len(Tail(s)) : m + 1 \in 1..Len(s) /\ Tail(s)[m] = s[m + 1]
  OBVIOUS

\* What partition's end leaves, with two calls put before the others.
LEMMA Pushed ==
    ASSUME NEW s \in Seq(Int \X Int), NEW c \in Seq(Int \X Int), Len(c) = 2
    PROVE  /\ c \o s \in Seq(Int \X Int) /\ Len(c \o s) = Len(s) + 2
           /\ (c \o s)[1] = c[1] /\ (c \o s)[2] = c[2]
           /\ \A n \in 1..Len(s) : (c \o s)[n + 2] = s[n]
<1>1. /\ c \o s \in Seq(Int \X Int) /\ Len(c \o s) = Len(c) + Len(s)
      /\ \A n \in 1..(Len(c) + Len(s)) :
             (c \o s)[n] = IF n <= Len(c) THEN c[n] ELSE s[n - Len(c)]
  BY ConcatProperties, Zenon
<1>2. \A n \in 1..(2 + Len(s)) : (c \o s)[n] = IF n <= 2 THEN c[n] ELSE s[n - 2]
  BY <1>1, Zenon
<1>3. Len(s) \in Nat
  OBVIOUS
<1>4. \A n \in 1..Len(s) : n + 2 \in 1..(2 + Len(s)) /\ ~(n + 2 <= 2) /\ (n + 2) - 2 = n
  BY <1>3
<1>5. \A n \in 1..Len(s) : (c \o s)[n + 2] = s[n]
  BY <1>2, <1>4, Zenon
<1>6. 1 \in 1..(2 + Len(s)) /\ 2 \in 1..(2 + Len(s)) /\ 1 <= 2 /\ 2 <= 2
  BY <1>3
<1>7. (c \o s)[1] = c[1] /\ (c \o s)[2] = c[2]
  BY <1>2, <1>6, Zenon
<1>8. Len(c \o s) = Len(s) + 2
  <2>1. Len(c \o s) = 2 + Len(s)
    BY <1>1, Zenon
  <2> QED
    BY <2>1, <1>3
<1> QED
  BY <1>1, <1>5, <1>7, <1>8, Zenon

\* Between calls and rounds every index and every element is an integer.
LEMMA Integral ==
    ASSUME TypeOK
    PROVE  /\ arr \in [Index -> Int]
           /\ \A x \in Index : x \in Int /\ arr[x] \in Int
           /\ \A m \in 1..Len(stack) : stack[m] \in Int \X Int
                                       /\ stack[m][1] \in Int /\ stack[m][2] \in Int
<1>1. arr \in [Index -> Int]
  BY ValuesAssumption, Zenon DEF TypeOK
<1>2. \A x \in Index : x \in Int /\ arr[x] \in Int
  BY <1>1, NAssumption DEF Index
<1>3. \A m \in 1..Len(stack) : stack[m] \in Int \X Int
  BY DEF TypeOK
<1> QED
  BY <1>1, <1>2, <1>3

(***************************************************************************)
(* SortInv holds at first and is kept by every action.                     *)
(***************************************************************************)
\* The call quicksort(arr, 0, N - 1) has the whole array before it.
LEMMA InitSortInv == Init => SortInv
<1> SUFFICES ASSUME Init PROVE SortInv
  OBVIOUS
<1>1. TypeOK
  <2>1. <<0, N - 1>> \in Int \X Int
    BY NAssumption
  <2>2. stack \in Seq(Int \X Int)
    BY <2>1 DEF Init
  <2>3. origin \in [Index -> Index] /\ arr \in [Index -> Values] /\ input \in [Index -> Values]
    BY DEF Init
  <2>4. lo \in Int /\ hi \in Int /\ k \in Int /\ i \in Int /\ pivot \in Int
    BY DEF Init
  <2>5. partitioning \in BOOLEAN /\ ~partitioning
    BY Zenon DEF Init
  <2> QED
    BY <2>2, <2>3, <2>4, <2>5, Zenon DEF TypeOK
<1>2. OnlyPermuted
  BY DEF Init, OnlyPermuted, Index
<1>3. Len(stack) = 1 /\ stack[1] = <<0, N - 1>> /\ ~partitioning
  BY DEF Init
<1>4. CallsAreIndependent
  BY <1>3, NAssumption DEF CallsAreIndependent, RangesInOrder, Separated, Index
<1>5. Partitioned /\ DisorderIsPending
  BY <1>3, NAssumption DEF Partitioned, DisorderIsPending, Pending, Index
<1> QED
  BY <1>1, <1>2, <1>4, <1>5 DEF SortInv

\* A call that returns early had at most one element to sort.
LEMMA ReturnKeepsSortInv == SortInv /\ Return => SortInv'
<1> SUFFICES ASSUME SortInv, Return PROVE SortInv'
  OBVIOUS
<1> USE DEF SortInv
<1>0. /\ ~partitioning /\ stack # << >> /\ stack' = Tail(stack)
      /\ arr' = arr /\ partitioning' = partitioning /\ UNCHANGED <<lo, hi, k, i, pivot, input, origin>>
      /\ NothingToSort(Head(stack)[1], Head(stack)[2]) /\ stack \in Seq(Int \X Int)
  BY DEF Return, locals, TypeOK
<1>1. TypeOK'
  BY <1>0, Popped, SMTT(30) DEF TypeOK
<1>2. OnlyPermuted'
  BY <1>0 DEF OnlyPermuted
<1>3. CallsAreIndependent'
  <2>1. RangesInOrder'
    BY <1>0, Popped, Integral, SMTT(30) DEF CallsAreIndependent, RangesInOrder
  <2>2. \A m \in 1..Len(stack') : Separated(arr', stack'[m][1], stack'[m][2])
    BY <1>0, Popped DEF CallsAreIndependent
  <2> QED
    BY <2>1, <2>2 DEF CallsAreIndependent
<1>4. Partitioned'
  BY <1>0 DEF Partitioned
<1>5. DisorderIsPending'
  <2> SUFFICES ASSUME NEW x \in Index, NEW y \in Index, x < y, ~(arr[x] <= arr[y])
               PROVE  Pending(x, y)'
    BY <1>0 DEF DisorderIsPending
  <2>1. PICK m \in 1..Len(stack) : x \in stack[m][1]..stack[m][2] /\ y \in stack[m][1]..stack[m][2]
    BY <1>0 DEF DisorderIsPending, Pending
  <2>2. m # 1
    BY <2>1, <1>0, Popped, Integral, SMTT(30) DEF NothingToSort, CallsAreIndependent, RangesInOrder
  <2>3. m - 1 \in 1..Len(stack') /\ stack'[m - 1] = stack[m]
    BY <2>2, <1>0, Popped
  <2> QED
    BY <2>1, <2>3, SMTT(30) DEF Pending
<1> QED
  BY <1>1, <1>2, <1>3, <1>4, <1>5

\* A call starts partition on its range with nothing looked at.
LEMMA CallKeepsSortInv == SortInv /\ Call => SortInv'
<1> SUFFICES ASSUME SortInv, Call PROVE SortInv'
  OBVIOUS
<1> USE DEF SortInv
<1>0. /\ ~partitioning /\ partitioning' /\ stack # << >> /\ stack' = Tail(stack)
      /\ arr' = arr /\ origin' = origin /\ input' = input
      /\ lo' = stack[1][1] /\ hi' = stack[1][2] /\ k' = lo' /\ i' = lo' /\ pivot' = arr[hi']
      /\ ~NothingToSort(stack[1][1], stack[1][2]) /\ stack \in Seq(Int \X Int)
  BY Popped, SMTT(30) DEF Call, TypeOK
<1>a. partitioning' \in BOOLEAN
  BY Zenon DEF Call
<1>1. /\ 1 \in 1..Len(stack) /\ stack' \in Seq(Int \X Int) /\ Len(stack') = Len(stack) - 1
      /\ \A m \in 1..Len(stack') : m + 1 \in 1..Len(stack) /\ stack'[m] = stack[m + 1]
  BY <1>0, Popped
<1>2. lo' \in Index /\ hi' \in Index /\ lo' < hi' /\ lo' \in Int /\ hi' \in Int
  <2>1. 0 <= stack[1][1] /\ stack[1][2] < N /\ stack[1][1] \in Int /\ stack[1][2] \in Int
    BY <1>1, Integral DEF CallsAreIndependent, RangesInOrder
  <2> QED
    BY <2>1, <1>0, NAssumption, SMTT(30) DEF NothingToSort, Index
<1>3. TypeOK'
  <2>1. k' \in lo'..hi' /\ i' \in lo'..hi' /\ k' \in Int /\ i' \in Int
    BY <1>0, <1>2, SMTT(30)
  <2>2. pivot' \in Int
    BY <1>0, <1>2, Integral, SMTT(30)
  <2>3. /\ arr' \in [Index -> Values] /\ input' \in [Index -> Values] /\ origin' \in [Index -> Index]
    BY <1>0 DEF TypeOK
  <2> QED
    BY <2>1, <2>2, <2>3, <1>1, <1>2, <1>a, Zenon DEF TypeOK
<1>4. OnlyPermuted'
  BY <1>0 DEF OnlyPermuted
<1>5. CallsAreIndependent'
  <2>1. RangesInOrder'
    BY <1>0, <1>1, Integral, SMTT(30) DEF CallsAreIndependent, RangesInOrder
  <2>2. \A m \in 1..Len(stack') : Separated(arr', stack'[m][1], stack'[m][2])
    BY <1>0, <1>1 DEF CallsAreIndependent
  <2> QED
    BY <2>1, <2>2 DEF CallsAreIndependent
<1>6. Partitioned'
  <2>1. Separated(arr', lo', hi')
    BY <1>0, <1>1 DEF CallsAreIndependent
  <2>2. pivot' = arr'[hi'] /\ k' <= i'
    BY <1>0, <1>2, SMTT(30)
  <2>3. \A x \in Index : ~(lo' <= x /\ x < k') /\ ~(k' <= x /\ x < i')
    BY <1>0, <1>2, Integral, SMTT(30)
  <2> QED
    BY <2>1, <2>2, <2>3 DEF Partitioned
<1>7. DisorderIsPending'
  <2> SUFFICES ASSUME NEW x \in Index, NEW y \in Index, x < y, ~(arr[x] <= arr[y])
               PROVE  Pending(x, y)'
    BY <1>0 DEF DisorderIsPending
  <2>1. PICK m \in 1..Len(stack) : x \in stack[m][1]..stack[m][2] /\ y \in stack[m][1]..stack[m][2]
    BY <1>0, Zenon DEF DisorderIsPending, Pending
  <2>2. CASE m = 1
    BY <2>1, <2>2, <1>0 DEF Pending
  <2>3. CASE m # 1
    <3>1. m - 1 \in 1..Len(stack') /\ stack'[m - 1] = stack[m]
      BY <2>3, <1>0, <1>1
    <3> QED
      BY <2>1, <3>1, SMTT(30) DEF Pending
  <2> QED
    BY <2>2, <2>3
<1> QED
  BY <1>3, <1>4, <1>5, <1>6, <1>7

\* What a swap inside the range being partitioned keeps.
LEMMA SwapKeeps ==
    ASSUME SortInv, partitioning, NEW a \in lo..hi, NEW b \in lo..hi, Swap(a, b), input' = input
    PROVE  /\ arr' \in [Index -> Values] /\ origin' \in [Index -> Index]
           /\ OnlyPermuted'
           /\ arr'[a] = arr[b] /\ arr'[b] = arr[a]
           /\ \A x \in Index \ {a, b} : arr'[x] = arr[x]
           /\ Separated(arr', lo, hi)
           /\ \A m \in 1..Len(stack) : Separated(arr', stack[m][1], stack[m][2])
           /\ \A x, y \in Index : x < y => arr'[x] <= arr'[y] \/ Pending(x, y)
<1> USE DEF SortInv
<1>0. /\ lo \in Index /\ hi \in Index /\ lo..hi \subseteq Index
      /\ arr' = Swapped(arr, a, b) /\ origin' = Swapped(origin, a, b)
  BY NAssumption DEF TypeOK, Swap, Index
<1>1. /\ arr \in [Index -> Values] /\ arr \in [Index -> Int] /\ origin \in [Index -> Index]
  BY Integral DEF TypeOK
<1>2. /\ arr' \in [Index -> Values] /\ arr' \in [Index -> Int] /\ Shuffled(arr, arr', lo, hi)
      /\ arr'[a] = arr[b] /\ arr'[b] = arr[a] /\ \A x \in Index \ {a, b} : arr'[x] = arr[x]
  <2>1. Swapped(arr, a, b) \in [Index -> Values] /\ Swapped(arr, a, b) \in [Index -> Int]
    BY <1>0, <1>1 DEF Swapped
  <2>2. /\ Swapped(arr, a, b)[a] = arr[b] /\ Swapped(arr, a, b)[b] = arr[a]
        /\ \A x \in Index \ {a, b} : Swapped(arr, a, b)[x] = arr[x]
    BY <1>0, <1>1 DEF Swapped
  <2>3. Shuffled(arr, Swapped(arr, a, b), lo, hi)
    BY <1>0, <2>2 DEF Shuffled
  <2> QED
    BY <2>1, <2>2, <2>3, <1>0, Zenon
<1>3. /\ origin' \in [Index -> Index] /\ origin'[a] = origin[b] /\ origin'[b] = origin[a]
      /\ \A x \in Index \ {a, b} : origin'[x] = origin[x]
  <2>1. /\ Swapped(origin, a, b) \in [Index -> Index]
        /\ Swapped(origin, a, b)[a] = origin[b] /\ Swapped(origin, a, b)[b] = origin[a]
        /\ \A x \in Index \ {a, b} : Swapped(origin, a, b)[x] = origin[x]
    BY <1>0, <1>1 DEF Swapped
  <2> QED
    BY <2>1, <1>0, Zenon
<1>4. OnlyPermuted'
  BY <1>0, <1>1, <1>2, <1>3 DEF OnlyPermuted
<1>5. Separated(arr', lo, hi)
  <2>1. Separated(arr, lo, hi) /\ lo \in Int /\ hi \in Int
    BY DEF Partitioned, TypeOK
  <2> QED
    BY <2>1, <1>0, <1>1, <1>2, ShuffleSeparated
<1>6. ASSUME NEW m \in 1..Len(stack) PROVE Separated(arr', stack[m][1], stack[m][2])
  <2>1. /\ stack[m][1] \in Int /\ stack[m][2] \in Int /\ hi < stack[m][1]
        /\ Separated(arr, stack[m][1], stack[m][2])
    BY Integral DEF CallsAreIndependent, RangesInOrder
  <2> QED
    BY <2>1, <1>0, <1>1, <1>2, ShuffleSeparated, Zenon
<1>7. ASSUME NEW x \in Index, NEW y \in Index, x < y, ~Pending(x, y)
      PROVE  arr'[x] <= arr'[y]
  <2>1. CASE x \in lo..hi <=> y \in lo..hi
    <3>1. x \notin lo..hi /\ y \notin lo..hi
      BY <2>1, <1>7 DEF Pending
    <3>2. arr'[x] = arr[x] /\ arr'[y] = arr[y]
      BY <3>1, <1>2
    <3> QED
      BY <3>2, <1>7 DEF DisorderIsPending
  <2>2. CASE ~(x \in lo..hi <=> y \in lo..hi)
    BY <2>2, <1>5, <1>7 DEF Separated
  <2> QED
    BY <2>1, <2>2
<1> QED
  BY <1>2, <1>3, <1>4, <1>5, <1>6, <1>7

\* A round of partition's loop puts one more element on its side of k.
LEMMA RoundKeepsSortInv == SortInv /\ Round => SortInv'
<1> SUFFICES ASSUME SortInv, Round PROVE SortInv'
  OBVIOUS
<1> USE DEF SortInv
<1>0. /\ partitioning /\ i < hi /\ i' = i + 1 /\ stack' = stack /\ partitioning' = partitioning
      /\ lo' = lo /\ hi' = hi /\ pivot' = pivot /\ input' = input
  BY DEF Round
<1>1. /\ lo \in Int /\ hi \in Int /\ k \in Int /\ i \in Int /\ k \in lo..hi /\ i \in lo..hi
      /\ lo \in Index /\ hi \in Index /\ lo..hi \subseteq Index /\ k <= i /\ pivot = arr[hi]
  BY <1>0, NAssumption DEF TypeOK, Partitioned, Index
<1>2. CASE arr[i] <= pivot
  <2>0. Swap(i, k) /\ k' = k + 1
    BY <1>2 DEF Round
  <2>1. /\ arr' \in [Index -> Values] /\ origin' \in [Index -> Index] /\ OnlyPermuted'
        /\ arr'[i] = arr[k] /\ arr'[k] = arr[i] /\ \A x \in Index \ {i, k} : arr'[x] = arr[x]
        /\ Separated(arr', lo, hi)
        /\ \A m \in 1..Len(stack) : Separated(arr', stack[m][1], stack[m][2])
        /\ \A x, y \in Index : x < y => arr'[x] <= arr'[y] \/ Pending(x, y)
    BY <1>0, <1>1, <2>0, SwapKeeps
  <2>2. TypeOK'
    <3>1. k' \in Int /\ i' \in Int /\ k' \in lo..hi /\ i' \in lo..hi
      BY <1>0, <1>1, <2>0
    <3> QED
      BY <3>1, <2>1, <1>0, <1>1, Zenon DEF TypeOK
  <2>3. CallsAreIndependent'
    BY <2>1, <1>0 DEF CallsAreIndependent, RangesInOrder
  <2>4. Partitioned'
    <3>1. pivot' = arr'[hi']
      BY <1>0, <1>1, <2>1
    <3>2. ASSUME NEW x \in Index, lo <= x, x < k' PROVE arr'[x] <= pivot
      <4>1. CASE x = k
        BY <4>1, <1>2, <2>1
      <4>2. CASE x # k
        <5>1. x < k /\ x \notin {i, k}
          <6>1. x \in Int
            BY Integral
          <6> QED
            BY <6>1, <4>2, <3>2, <2>0, <1>1
        <5> QED
          BY <5>1, <3>2, <2>1, <1>0 DEF Partitioned
      <4> QED
        BY <4>1, <4>2
    <3>3. ASSUME NEW x \in Index, k' <= x, x < i' PROVE pivot < arr'[x]
      BY <3>3, <1>1, <1>2, <2>0, <2>1, <1>0, Integral, SMTT(30) DEF Partitioned
    <3> QED
      BY <3>1, <3>2, <3>3, <2>0, <2>1, <1>0, <1>1 DEF Partitioned
  <2>5. DisorderIsPending'
    BY <2>1, <1>0 DEF DisorderIsPending, Pending
  <2> QED
    BY <2>1, <2>2, <2>3, <2>4, <2>5
<1>3. CASE ~(arr[i] <= pivot)
  <2>0. arr' = arr /\ origin' = origin /\ k' = k
    BY <1>3 DEF Round
  <2>1. TypeOK'
    <3>1. i' \in Int /\ i' \in lo..hi
      BY <1>0, <1>1
    <3> QED
      BY <3>1, <2>0, <1>0, <1>1, Zenon DEF TypeOK
  <2>2. OnlyPermuted' /\ CallsAreIndependent' /\ DisorderIsPending'
    BY <2>0, <1>0, SMTT(30) DEF OnlyPermuted, CallsAreIndependent, RangesInOrder, DisorderIsPending, Pending, Separated
  <2>3. Partitioned'
    <3>1. ASSUME NEW x \in Index, k <= x, x < i + 1 PROVE pivot < arr[x]
      BY <3>1, <1>0, <1>1, <1>3, Integral, SMTT(30) DEF Partitioned, TypeOK
    <3> QED
      BY <3>1, <2>0, <1>0, <1>1 DEF Partitioned, Separated
  <2> QED
    BY <2>1, <2>2, <2>3
<1> QED
  BY <1>2, <1>3

\* The last swap of partition puts the pivot between the ranges of the two recursive calls.
LEMMA EndPartitionKeepsSortInv == SortInv /\ EndPartition => SortInv'
<1> SUFFICES ASSUME SortInv, EndPartition PROVE SortInv'
  OBVIOUS
<1> USE DEF SortInv
<1>0. /\ partitioning /\ i >= hi /\ Swap(k, hi) /\ stack' = Calls(lo, hi, k) \o stack
      /\ lo' = lo /\ hi' = hi /\ k' = k /\ i' = i /\ pivot' = pivot /\ input' = input
  BY DEF EndPartition, locals
<1>a. partitioning' \in BOOLEAN /\ ~partitioning'
  BY Zenon DEF EndPartition
<1>1. /\ lo \in Int /\ hi \in Int /\ k \in Int /\ i = hi /\ lo <= k /\ k <= hi
      /\ k \in lo..hi /\ hi \in lo..hi /\ lo \in Index /\ hi \in Index /\ k \in Index /\ pivot = arr[hi]
  <2>1. /\ lo \in Int /\ hi \in Int /\ k \in Int /\ i \in Int /\ k \in lo..hi /\ i \in lo..hi
        /\ lo \in Index /\ hi \in Index /\ pivot = arr[hi]
    BY <1>0 DEF TypeOK, Partitioned
  <2>2. i = hi /\ lo <= k /\ k <= hi /\ hi \in lo..hi
    BY <2>1, <1>0
  <2>3. k \in Index
    BY <2>1, NAssumption DEF Index
  <2> QED
    BY <2>1, <2>2, <2>3
<1>2. /\ arr' \in [Index -> Values] /\ origin' \in [Index -> Index] /\ OnlyPermuted'
      /\ arr'[k] = arr[hi] /\ arr'[hi] = arr[k] /\ \A x \in Index \ {k, hi} : arr'[x] = arr[x]
      /\ Separated(arr', lo, hi)
      /\ \A m \in 1..Len(stack) : Separated(arr', stack[m][1], stack[m][2])
      /\ \A x, y \in Index : x < y => arr'[x] <= arr'[y] \/ Pending(x, y)
  BY <1>0, <1>1, SwapKeeps
<1>3. /\ stack' \in Seq(Int \X Int) /\ Len(stack') = Len(stack) + 2
      /\ stack'[1] = <<lo, k - 1>> /\ stack'[2] = <<k + 1, hi>>
      /\ \A n \in 1..Len(stack) : stack'[n + 2] = stack[n]
  <2>1. stack \in Seq(Int \X Int)
    BY DEF TypeOK
  <2>2. lo \in Int /\ hi \in Int /\ k \in Int /\ stack' = Calls(lo, hi, k) \o stack
    BY <1>0, <1>1
  <2>3. /\ Calls(lo, hi, k) \in Seq(Int \X Int) /\ Len(Calls(lo, hi, k)) = 2
        /\ Calls(lo, hi, k)[1] = <<lo, k - 1>> /\ Calls(lo, hi, k)[2] = <<k + 1, hi>>
    BY <2>2 DEF Calls
  <2>4. /\ stack' \in Seq(Int \X Int) /\ Len(stack') = Len(stack) + 2
        /\ stack'[1] = Calls(lo, hi, k)[1] /\ stack'[2] = Calls(lo, hi, k)[2]
        /\ \A n \in 1..Len(stack) : stack'[n + 2] = stack[n]
    BY <2>1, <2>2, <2>3, Pushed, Zenon
  <2> QED
    BY <2>3, <2>4, Zenon
<1>4. /\ \A m \in 1..Len(stack') : m = 1 \/ m = 2 \/ (m - 2 \in 1..Len(stack) /\ stack'[m] = stack[m - 2])
      /\ 1 \in 1..Len(stack') /\ 2 \in 1..Len(stack') /\ Len(stack) \in Nat
      /\ \A n \in 1..Len(stack) : n + 2 \in 1..Len(stack')
  <2>1. Len(stack) \in Nat
    BY DEF TypeOK
  <2>2. ASSUME NEW l \in Nat
        PROVE  /\ \A m \in 1..(l + 2) : m = 1 \/ m = 2 \/ (m - 2 \in 1..l /\ (m - 2) + 2 = m)
               /\ 1 \in 1..(l + 2) /\ 2 \in 1..(l + 2) /\ \A n \in 1..l : n + 2 \in 1..(l + 2)
    OBVIOUS
  <2>3. \A m \in 1..Len(stack') : m = 1 \/ m = 2 \/ (m - 2 \in 1..Len(stack) /\ (m - 2) + 2 = m)
    BY <2>1, <2>2, <1>3, Zenon
  <2>4. 1 \in 1..Len(stack') /\ 2 \in 1..Len(stack') /\ \A n \in 1..Len(stack) : n + 2 \in 1..Len(stack')
    BY <2>1, <2>2, <1>3, Zenon
  <2>5. ASSUME NEW m \in 1..Len(stack'), m # 1, m # 2 PROVE stack'[m] = stack[m - 2]
    BY <2>3, <2>5, <1>3, Zenon
  <2> QED
    BY <2>1, <2>3, <2>4, <2>5, Zenon
<1>i. /\ \A x \in Index : x \in Int /\ arr[x] \in Int /\ arr'[x] \in Int
      /\ \A m \in 1..Len(stack) : stack[m][1] \in Int /\ stack[m][2] \in Int
  BY Integral, <1>2, ValuesAssumption, Zenon
<1>5. \A x \in Index : lo <= x /\ x <= k => arr'[x] <= pivot
  <2> SUFFICES ASSUME NEW x \in Index, lo <= x, x <= k PROVE arr'[x] <= pivot
    OBVIOUS
  <2>1. CASE x = k
    BY <2>1, <1>1, <1>2, <1>i
  <2>2. CASE x # k
    <3>1. x < k /\ x \notin {k, hi}
      <4>1. x \in Int
        BY <1>i
      <4> QED
        BY <4>1, <2>2, <1>1
    <3> QED
      BY <3>1, <1>0, <1>2 DEF Partitioned
  <2> QED
    BY <2>1, <2>2
<1>6. \A x \in Index : k <= x /\ x <= hi => pivot <= arr'[x]
  <2> SUFFICES ASSUME NEW x \in Index, k <= x, x <= hi PROVE pivot <= arr'[x]
    OBVIOUS
  <2>1. CASE x = k
    BY <2>1, <1>1, <1>2, <1>i
  <2>2. CASE x # k /\ x = hi
    <3>1. pivot < arr[k]
      BY <2>2, <1>0, <1>1 DEF Partitioned
    <3> QED
      BY <3>1, <2>2, <1>1, <1>2, <1>i
  <2>3. CASE x # k /\ x # hi
    <3>1. pivot < arr[x] /\ arr'[x] = arr[x]
      BY <2>3, <1>0, <1>1, <1>2, <1>i DEF Partitioned
    <3> QED
      BY <3>1, <1>1, <1>i
  <2> QED
    BY <2>1, <2>2, <2>3
<1>7. TypeOK'
  BY <1>0, <1>a, <1>2, <1>3, Zenon DEF TypeOK
<1>8. RangesInOrder'
  <2>1. \A n \in 1..Len(stack) : 0 <= stack[n][1] /\ stack[n][2] < N /\ hi < stack[n][1]
    BY <1>0 DEF CallsAreIndependent, RangesInOrder
  <2>2. ASSUME NEW m \in 1..Len(stack') PROVE 0 <= stack'[m][1] /\ stack'[m][2] < N
    <3>1. 0 <= lo /\ k - 1 < N /\ 0 <= k + 1 /\ hi < N
      BY <1>1, NAssumption DEF Index
    <3>2. CASE m = 1 \/ m = 2
      BY <3>1, <3>2, <1>3, SMTT(30)
    <3>3. CASE m # 1 /\ m # 2
      BY <3>3, <2>1, <1>4, Zenon
    <3> QED
      BY <3>2, <3>3
  <2>3. ASSUME NEW m \in 1..Len(stack'), NEW n \in 1..Len(stack'), m < n
        PROVE  stack'[m][2] < stack'[n][1]
    <3>1. CASE m = 1 /\ n = 2
      BY <3>1, <1>1, <1>3
    <3>2. CASE m \in {1, 2} /\ n # 1 /\ n # 2
      <4>1. n - 2 \in 1..Len(stack) /\ stack'[n] = stack[n - 2]
        BY <3>2, <1>4, Zenon
      <4>2. hi < stack'[n][1] /\ stack'[n][1] \in Int
        BY <4>1, <2>1, <1>i, Zenon
      <4>3. stack'[m][2] = k - 1 \/ stack'[m][2] = hi
        BY <3>2, <1>3, SMTT(30)
      <4> QED
        BY <4>2, <4>3, <1>1, SMTT(30)
    <3>3. CASE m # 1 /\ m # 2 /\ n # 1 /\ n # 2
      <4>1. m - 2 < n - 2
        BY <2>3
      <4>2. /\ m - 2 \in 1..Len(stack) /\ stack'[m] = stack[m - 2]
            /\ n - 2 \in 1..Len(stack) /\ stack'[n] = stack[n - 2]
        BY <3>3, <1>4, Zenon
      <4>3. stack[m - 2][2] < stack[n - 2][1]
        BY <4>1, <4>2, SMTT(30) DEF CallsAreIndependent, RangesInOrder
      <4> QED
        BY <4>2, <4>3, Zenon
    <3> QED
      BY <3>1, <3>2, <3>3, <2>3
  <2> QED
    BY <2>2, <2>3, <1>a DEF RangesInOrder
<1>9. CallsAreIndependent'
  <2>1. Separated(arr', lo, k - 1)
    <3> SUFFICES ASSUME NEW x \in Index, NEW y \in Index, x < y,
                        ~(x \in lo..(k - 1) <=> y \in lo..(k - 1))
                 PROVE  arr'[x] <= arr'[y]
      BY DEF Separated
    <3>1. CASE x \in lo..hi /\ y \in lo..hi
      BY <3>1, <1>1, <1>5, <1>6, <1>i
    <3>2. CASE ~(x \in lo..hi /\ y \in lo..hi)
      <4>1. ~(x \in lo..hi <=> y \in lo..hi)
        BY <3>2, <1>1, <1>i
      <4> QED
        BY <4>1, <1>2 DEF Separated
    <3> QED
      BY <3>1, <3>2
  <2>2. Separated(arr', k + 1, hi)
    <3> SUFFICES ASSUME NEW x \in Index, NEW y \in Index, x < y,
                        ~(x \in (k + 1)..hi <=> y \in (k + 1)..hi)
                 PROVE  arr'[x] <= arr'[y]
      BY DEF Separated
    <3>1. CASE x \in lo..hi /\ y \in lo..hi
      BY <3>1, <1>1, <1>5, <1>6, <1>i
    <3>2. CASE ~(x \in lo..hi /\ y \in lo..hi)
      <4>1. ~(x \in lo..hi <=> y \in lo..hi)
        BY <3>2, <1>1, <1>i
      <4> QED
        BY <4>1, <1>2 DEF Separated
    <3> QED
      BY <3>1, <3>2
  <2>3. ASSUME NEW m \in 1..Len(stack') PROVE Separated(arr', stack'[m][1], stack'[m][2])
    <3>1. CASE m = 1
      BY <3>1, <2>1, <1>3
    <3>2. CASE m = 2
      BY <3>2, <2>2, <1>3
    <3>3. CASE m # 1 /\ m # 2
      BY <3>3, <1>2, <1>4, Zenon
    <3> QED
      BY <3>1, <3>2, <3>3
  <2> QED
    BY <2>3, <1>8 DEF CallsAreIndependent
<1>10. Partitioned'
  BY <1>a DEF Partitioned
<1>11. DisorderIsPending'
  <2> SUFFICES ASSUME NEW x \in Index, NEW y \in Index, x < y
               PROVE  arr'[x] <= arr'[y] \/ Pending(x, y)'
    BY DEF DisorderIsPending
  <2>1. CASE \E m \in 1..Len(stack) : x \in stack[m][1]..stack[m][2] /\ y \in stack[m][1]..stack[m][2]
    <3>1. PICK m \in 1..Len(stack) : x \in stack[m][1]..stack[m][2] /\ y \in stack[m][1]..stack[m][2]
      BY <2>1
    <3>2. m + 2 \in 1..Len(stack') /\ stack'[m + 2] = stack[m]
      BY <1>3, <1>4, Zenon
    <3> QED
      BY <3>1, <3>2, SMTT(30) DEF Pending
  <2>2. CASE x \in lo..hi /\ y \in lo..hi
    <3>1. CASE y < k
      <4>1. x \in stack'[1][1]..stack'[1][2] /\ y \in stack'[1][1]..stack'[1][2]
        BY <3>1, <2>2, <1>1, <1>3, <1>i
      <4> QED
        BY <4>1, <1>4 DEF Pending
    <3>2. CASE k < x
      <4>1. x \in stack'[2][1]..stack'[2][2] /\ y \in stack'[2][1]..stack'[2][2]
        BY <3>2, <2>2, <1>1, <1>3, <1>i
      <4> QED
        BY <4>1, <1>4 DEF Pending
    <3>3. CASE x <= k /\ k <= y
      BY <3>3, <2>2, <1>1, <1>5, <1>6, <1>i
    <3> QED
      BY <3>1, <3>2, <3>3, <1>1, <1>i
  <2> QED
    BY <2>1, <2>2, <1>2 DEF Pending
<1> QED
  BY <1>2, <1>7, <1>9, <1>10, <1>11

(***************************************************************************)
(* Theorems.                                                               *)
(***************************************************************************)

\* The invariant of the sort: types, a permutation of the input, independent calls,
\* partition's loop invariant, and no disorder outside the ranges still to be sorted.
THEOREM SortInvariant == Spec => []SortInv
<1>1. SortInv /\ [Next]_vars => SortInv'
  <2> SUFFICES ASSUME SortInv, [Next]_vars PROVE SortInv'
    OBVIOUS
  <2>1. CASE UNCHANGED vars
    BY <2>1, SMTT(30) DEF vars, locals, SortInv, TypeOK, OnlyPermuted, CallsAreIndependent, RangesInOrder,
                Partitioned, DisorderIsPending, Pending, Separated
  <2> QED
    BY <2>1, ReturnKeepsSortInv, CallKeepsSortInv, RoundKeepsSortInv, EndPartitionKeepsSortInv DEF Next
<1> QED
  BY <1>1, InitSortInv, PTL DEF Spec

\* Whenever quicksort has returned, the array is in order.
THEOREM QuicksortSorts == Spec => []Sorted
<1>1. SortInv => Sorted
  <2> SUFFICES ASSUME SortInv, Done, NEW x \in Index, NEW y \in Index, x <= y PROVE arr[x] <= arr[y]
    BY DEF Sorted
  <2>1. Len(stack) = 0 /\ ~partitioning
    BY DEF Done
  <2>2. ~Pending(x, y)
    BY <2>1 DEF Pending
  <2> QED
    BY <2>2, Integral DEF SortInv, DisorderIsPending
<1> QED
  BY <1>1, SortInvariant, PTL

\* At any time the array is a permutation of what it was at first.
THEOREM QuicksortPermutes == Spec => []OnlyPermuted
<1>1. SortInv => OnlyPermuted
  BY DEF SortInv
<1> QED
  BY <1>1, SortInvariant, PTL

\* At any time the calls to come work on ranges that need nothing from each other.
THEOREM CallsStayIndependent == Spec => []CallsAreIndependent
<1>1. SortInv => CallsAreIndependent
  BY DEF SortInv
<1> QED
  BY <1>1, SortInvariant, PTL
=============================================================================
