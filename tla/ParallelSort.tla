---------------------------- MODULE ParallelSort ----------------------------
(***************************************************************************)
(* parallel_sort of lld/include/lld/Core/Parallel.h: a quicksort whose     *)
(* recursive calls on the left part are closures of a TaskGroup.           *)
(*                                                                         *)
(* A call works on a range [start, end) of the array; the calls that are   *)
(* still to be made or in progress, Main's own included, are the           *)
(* outstanding ones, in no particular order.  One call up to its recursive *)
(* calls is a step: RangesDisjoint shows that no other call touches its    *)
(* range meanwhile.  That the group runs every closure and waits for it is *)
(* what ThreadPool shows.                                                  *)
(***************************************************************************)
EXTENDS Integers, FiniteSets

CONSTANTS N,                  \* the length of the array, indexed 0 .. N-1
          Values,             \* the values of its elements, integers
          minParallelSize,    \* 1024 in the code
          initialDepth        \* Log2_64(N) + 1 in the code

ASSUME ParallelSortAssumption ==
    /\ N \in Nat
    /\ Values \subseteq Int
    /\ minParallelSize \in Nat \ {0}
    /\ initialDepth \in Nat

VARIABLES array,        \* the elements being sorted
          calls,        \* the outstanding calls of parallel_quick_sort
          input         \* history: the array at the start

sortVars == <<array, calls, input>>

Index == 0 .. N - 1
Call  == [start : 0 .. N, end : 0 .. N, depth : Nat]

\* The indices a call works on.
RangeOf(c) == c.start .. c.end - 1

\* comp is std::less.
comp(a, b) == a < b

-----------------------------------------------------------------------------
\* The index of the median of the first, the middle and the last element.
medianOf3(a, start, end) ==
    LET mid  == start + (end - start) \div 2
        last == end - 1
    IN  IF comp(a[start], a[last])
        THEN IF comp(a[mid], a[last])
             THEN IF comp(a[start], a[mid]) THEN mid ELSE start
             ELSE last
        ELSE IF comp(a[mid], a[start])
             THEN IF comp(a[last], a[mid]) THEN mid ELSE last
             ELSE start

Permutation(R) == {f \in [R -> R] : \A i, j \in R : f[i] = f[j] => i = j}

\* The arrays that arise from a by rearranging the elements at R.
Rearrangements(a, R) ==
    {[i \in Index |-> IF i \in R THEN a[f[i]] ELSE a[i]] : f \in Permutation(R)}

Swap(a, i, j) == [a EXCEPT ![i] = a[j], ![j] = a[i]]

\* std::sort of the range R: any rearrangement that is in order.
Sorted(a, R) ==
    {b \in Rearrangements(a, R) : \A i, j \in R : i < j => ~comp(b[j], b[i])}

\* std::partition of [start, end - 1) by "less than the element at end - 1":
\* pivot is the start of the second group of the rearranged array b.
Partitioned(b, start, end, pivot) ==
    \A i \in start .. end - 2 : comp(b[i], b[end - 1]) <=> i < pivot

-----------------------------------------------------------------------------
SortInit ==
    /\ array \in [Index -> Values]
    /\ calls = {[start |-> 0, end |-> N, depth |-> initialDepth]}
    /\ input = array

IsSmall(c) == c.end - c.start < minParallelSize \/ c.depth = 0

\* A small range, or one that is too deep, is sorted sequentially.
SortSequentially(c) ==
    /\ IsSmall(c)
    /\ array' \in Sorted(array, RangeOf(c))
    /\ calls' = calls \ {c}
    /\ UNCHANGED input

\* Plausible slip: the left call keeps the end of the range.
LeftCall_WholeRange(c, pivot) ==
    [start |-> c.start, end |-> c.end, depth |-> c.depth - 1]

\* The recursive calls: the left one is spawned, the right one is made.
LeftCall(c, pivot) ==
    [start |-> c.start, end |-> pivot, depth |-> c.depth - 1]
RightCall(c, pivot) ==
    [start |-> pivot + 1, end |-> c.end, depth |-> c.depth - 1]

\* Plausible slip: the pivot stays at the end.
PivotToMiddle_Missing(a, pivot, last) == a

\* The second swap: the pivot goes between the two groups.
PivotToMiddle(a, pivot, last) == Swap(a, pivot, last)

\* Otherwise it is partitioned, with the median moved to its end, and the two
\* parts become calls of their own.
Partition(c) ==
    /\ ~IsSmall(c)
    /\ LET last == c.end - 1
           a    == Swap(array, last, medianOf3(array, c.start, c.end))
       IN  \E pivot \in c.start .. last :
             \E b \in Rearrangements(a, c.start .. last - 1) :
                /\ Partitioned(b, c.start, c.end, pivot)
                /\ array' = PivotToMiddle(b, pivot, last)
                /\ calls' = (calls \ {c}) \cup {LeftCall(c, pivot), RightCall(c, pivot)}
    /\ UNCHANGED input

SortNext == \E c \in calls : SortSequentially(c) \/ Partition(c)

SortSpec == SortInit /\ [][SortNext]_sortVars

-----------------------------------------------------------------------------
(* Properties                                                              *)

SortTypeOK ==
    /\ array \in [Index -> Values]
    /\ input \in [Index -> Values]
    /\ calls \subseteq Call

\* Two calls that may run at the same time share no element of the array, so
\* the threads of the pool do not race on it.
RangesDisjoint ==
    \A c, d \in calls : c # d => RangeOf(c) \cap RangeOf(d) = {}

InOrder(a) == \A i, j \in Index : i < j => ~comp(a[j], a[i])

SameElements ==
    \E f \in Permutation(Index) : \A i \in Index : array[i] = input[f[i]]

\* When no call is outstanding, which is when ~TaskGroup lets parallel_sort
\* return, the array holds its elements in order.
ResultIsSorted == calls = {} => InOrder(array) /\ SameElements

\* Elements that no outstanding call will compare are in order already.
OrderedAcross ==
    \A i, j \in Index :
        i < j /\ (\A c \in calls : ~(i \in RangeOf(c) /\ j \in RangeOf(c)))
            => ~comp(array[j], array[i])

SortInv == SortTypeOK /\ RangesDisjoint /\ OrderedAcross /\ SameElements
=============================================================================
