--------------------------- MODULE ParallelProofs ---------------------------
(***************************************************************************)
(* The parallel algorithms of lld/include/lld/Core/Parallel.h.             *)
(*                                                                         *)
(* parallel_sort sorts: for every array length, threshold, recursion depth *)
(* and order of the recursive calls.  parallel_for_each, nested in itself  *)
(* as the ELF writer nests it, handles every element once and hangs only   *)
(* through nesting: for every number of workers, sections and atoms and    *)
(* every task size.                                                        *)
(***************************************************************************)
EXTENDS ParallelSort, ParallelForEach, FiniteSetTheorems, SequenceTheorems, TLAPS

-----------------------------------------------------------------------------
(* Rearranging the elements at R and no others.                            *)

Shuffle(a, b, R) ==
    /\ b \in [Index -> Values]
    /\ \E f \in Permutation(Index) :
          /\ \A i \in Index : b[i] = a[f[i]]
          /\ \A i \in Index \ R : f[i] = i
          /\ \A i \in R : f[i] \in R

\* What a rearrangement, made by std::sort or std::partition, may change.
LEMMA RearrangementShuffles ==
    ASSUME NEW a \in [Index -> Values], NEW R \in SUBSET Index,
           NEW S \in SUBSET R, NEW b \in Rearrangements(a, S)
    PROVE  Shuffle(a, b, R)
<1>1. PICK f \in Permutation(S) :
        b = [i \in Index |-> IF i \in S THEN a[f[i]] ELSE a[i]]
  BY DEF Rearrangements
<1> DEFINE g == [i \in Index |-> IF i \in S THEN f[i] ELSE i]
<1>2. f \in [S -> S] /\ \A i, j \in S : f[i] = f[j] => i = j
  BY DEF Permutation
<1>3. g \in [Index -> Index]
  BY <1>2
<1>4. \A i, j \in Index : g[i] = g[j] => i = j
  BY <1>2
<1>5. g \in Permutation(Index)
  BY <1>3, <1>4 DEF Permutation
<1>6. \A i \in Index : b[i] = a[g[i]]
  BY <1>1
<1>7. \A i \in R : g[i] \in R
  BY <1>2
<1>8. b \in [Index -> Values]
  BY <1>1, <1>2
<1>9. \A i \in Index \ R : g[i] = i
  OBVIOUS
<1> HIDE DEF g
<1> QED BY <1>5, <1>6, <1>7, <1>8, <1>9 DEF Shuffle

\* std::swap of two elements.
LEMMA SwapShuffles ==
    ASSUME NEW a \in [Index -> Values], NEW R \in SUBSET Index,
           NEW x \in R, NEW y \in R
    PROVE  Shuffle(a, Swap(a, x, y), R)
<1> DEFINE g == [i \in Index |-> IF i = x THEN y ELSE IF i = y THEN x ELSE i]
<1>1. g \in Permutation(Index)
  BY DEF Permutation
<1>2. \A i \in Index : Swap(a, x, y)[i] = a[g[i]]
  BY DEF Swap
<1>3. Swap(a, x, y) \in [Index -> Values]
  BY DEF Swap
<1>4. (\A i \in R : g[i] \in R) /\ (\A i \in Index \ R : g[i] = i)
  OBVIOUS
<1> HIDE DEF g
<1> QED BY <1>1, <1>2, <1>3, <1>4 DEF Shuffle

\* One rearrangement after another.
LEMMA ShuffleTransitive ==
    ASSUME NEW a \in [Index -> Values], NEW b \in [Index -> Values], NEW c,
           NEW R \in SUBSET Index, Shuffle(a, b, R), Shuffle(b, c, R)
    PROVE  Shuffle(a, c, R)
<1>1. PICK f \in Permutation(Index) :
          /\ \A i \in Index : b[i] = a[f[i]]
          /\ \A i \in Index \ R : f[i] = i
          /\ \A i \in R : f[i] \in R
  BY DEF Shuffle
<1>2. PICK g \in Permutation(Index) :
          /\ \A i \in Index : c[i] = b[g[i]]
          /\ \A i \in Index \ R : g[i] = i
          /\ \A i \in R : g[i] \in R
  BY DEF Shuffle
<1> DEFINE h == [i \in Index |-> f[g[i]]]
<1>3. /\ f \in [Index -> Index] /\ (\A i, j \in Index : f[i] = f[j] => i = j)
      /\ g \in [Index -> Index] /\ (\A i, j \in Index : g[i] = g[j] => i = j)
  BY DEF Permutation
<1>4. h \in Permutation(Index)
  BY <1>3 DEF Permutation
<1>5. \A i \in Index : c[i] = a[h[i]]
  BY <1>1, <1>2, <1>3
<1>6. (\A i \in R : h[i] \in R) /\ (\A i \in Index \ R : h[i] = i)
  BY <1>1, <1>2, <1>3
<1>7. c \in [Index -> Values]
  BY DEF Shuffle
<1> HIDE DEF h
<1> QED BY <1>4, <1>5, <1>6, <1>7 DEF Shuffle

\* What a call needs to know of a rearrangement of its range.
LEMMA ShuffleFacts ==
    ASSUME NEW a, NEW b, NEW R \in SUBSET Index, Shuffle(a, b, R)
    PROVE  /\ b \in [Index -> Values]
           /\ \A i \in Index \ R : b[i] = a[i]
           /\ \A i \in R : \E k \in R : b[i] = a[k]
  BY DEF Shuffle

-----------------------------------------------------------------------------
\* The median is an element of the range.
LEMMA MedianInRange ==
    ASSUME NEW a, NEW start \in Int, NEW end \in Int, start < end
    PROVE  medianOf3(a, start, end) \in start .. end - 1
<1> DEFINE mid == start + (end - start) \div 2
<1>1. mid \in start .. end - 1
  OBVIOUS
<1> QED BY <1>1 DEF medianOf3

\* After the second swap the pivot separates the two parts.
LEMMA PivotSeparates ==
    ASSUME NEW b \in [Index -> Values], NEW start \in Index, NEW last \in Index,
           NEW pivot \in start .. last, Partitioned(b, start, last + 1, pivot)
    PROVE  LET a == PivotToMiddle(b, pivot, last)
           IN  /\ \A i \in start .. pivot - 1 : a[i] <= a[pivot]
               /\ \A j \in pivot + 1 .. last : a[pivot] <= a[j]
<1> DEFINE a == PivotToMiddle(b, pivot, last)
<1>1. Index \subseteq Int /\ start .. last \subseteq Index /\ pivot \in Index
  BY ParallelSortAssumption DEF Index
<1>2. \A i \in Index : b[i] \in Int
  BY ParallelSortAssumption
<1>3. \A i \in start .. last - 1 : b[i] < b[last] <=> i < pivot
  BY <1>1 DEF Partitioned, comp
<1>4. /\ a[pivot] = b[last] /\ a[last] = b[pivot]
      /\ \A i \in start .. last : i # pivot /\ i # last => a[i] = b[i]
  BY <1>1 DEF PivotToMiddle, Swap
<1> HIDE DEF a
<1>5. \A i \in start .. pivot - 1 : a[i] <= a[pivot]
  BY <1>1, <1>2, <1>3, <1>4
<1>6. \A j \in pivot + 1 .. last : a[pivot] <= a[j]
  <2> SUFFICES ASSUME NEW j \in pivot + 1 .. last PROVE a[pivot] <= a[j]
    OBVIOUS
  <2>1. CASE j = last
    <3>1. pivot \in start .. last - 1 /\ ~(pivot < pivot)
      BY <1>1, <2>1
    <3> QED BY <1>1, <1>2, <1>3, <1>4, <2>1, <3>1
  <2>2. CASE j # last
    <3>1. j \in start .. last - 1 /\ ~(j < pivot) /\ j # pivot
      BY <1>1, <2>2
    <3> QED BY <1>1, <1>2, <1>3, <1>4, <2>2, <3>1
  <2> QED BY <2>1, <2>2
<1> QED BY <1>5, <1>6 DEF a

-----------------------------------------------------------------------------
\* A call's range is an interval of the array.
LEMMA RangeIsInterval ==
    ASSUME NEW c \in Call
    PROVE  /\ c.start \in Int /\ c.end \in Int
           /\ RangeOf(c) \subseteq Index /\ Index \subseteq Int
           /\ \A i, j \in RangeOf(c), k \in Index : i <= k /\ k <= j => k \in RangeOf(c)
  BY ParallelSortAssumption DEF Call, RangeOf, Index

\* Order between elements of which at least one is outside the range of the
\* call c survives any rearrangement of that range.
LEMMA OrderOutside ==
    ASSUME SortInv, NEW c \in calls, NEW b, Shuffle(array, b, RangeOf(c)),
           NEW i \in Index, NEW j \in Index, i < j,
           ~(i \in RangeOf(c) /\ j \in RangeOf(c)),
           \A d \in calls \ {c} : ~(i \in RangeOf(d) /\ j \in RangeOf(d))
    PROVE  b[i] <= b[j]
<1> DEFINE R == RangeOf(c)
<1>1. c \in Call
  BY DEF SortInv, SortTypeOK
<1>2. R \in SUBSET Index /\ Index \subseteq Int
      /\ \A x, y \in R, k \in Index : x <= k /\ k <= y => k \in R
  BY <1>1, RangeIsInterval
<1>3. /\ b \in [Index -> Values]
      /\ \A x \in Index \ R : b[x] = array[x]
      /\ \A x \in R : \E k \in R : b[x] = array[k]
  <2>1. R \in SUBSET Index /\ Shuffle(array, b, R)
    BY <1>2
  <2> HIDE DEF R
  <2> QED BY <2>1, ShuffleFacts
<1>4. \A x \in Index : array[x] \in Int
  BY ParallelSortAssumption DEF SortInv, SortTypeOK
<1>5. \A x, y \in Index :
         x < y /\ (\A d \in calls : ~(x \in RangeOf(d) /\ y \in RangeOf(d)))
            => array[x] <= array[y]
  BY <1>4 DEF SortInv, OrderedAcross, comp
<1>6. \A d \in calls \ {c} : R \cap RangeOf(d) = {}
  BY DEF SortInv, RangesDisjoint
<1> HIDE DEF R
<1>7. CASE i \in R
  <2>1. j \notin R
    BY <1>7 DEF R
  <2>2. PICK k \in R : b[i] = array[k]
    BY <1>3, <1>7
  <2>3. k < j
    BY <1>2, <1>7, <2>1
  <2>4. \A d \in calls : ~(k \in RangeOf(d) /\ j \in RangeOf(d))
    BY <1>6, <2>1 DEF R
  <2>5. k \in Index /\ array[k] <= array[j]
    BY <1>2, <1>5, <2>3, <2>4
  <2> QED BY <1>3, <2>1, <2>2, <2>5
<1>8. CASE j \in R
  <2>1. i \notin R
    BY <1>8 DEF R
  <2>2. PICK k \in R : b[j] = array[k]
    BY <1>3, <1>8
  <2>3. i < k
    BY <1>2, <1>8, <2>1
  <2>4. \A d \in calls : ~(i \in RangeOf(d) /\ k \in RangeOf(d))
    BY <1>6, <2>1 DEF R
  <2>5. k \in Index /\ array[i] <= array[k]
    BY <1>2, <1>5, <2>3, <2>4
  <2> QED BY <1>3, <2>1, <2>2, <2>5
<1>9. CASE i \notin R /\ j \notin R
  <2>1. \A d \in calls : ~(i \in RangeOf(d) /\ j \in RangeOf(d))
    BY <1>9 DEF R
  <2> QED BY <1>3, <1>5, <1>9, <2>1
<1> QED BY <1>7, <1>8, <1>9

\* The multiset of elements survives too.
LEMMA SameElementsKept ==
    ASSUME SortTypeOK, SameElements, NEW R \in SUBSET Index, Shuffle(array, array', R),
           input' = input
    PROVE  SameElements'
<1>1. PICK f \in Permutation(Index) : \A i \in Index : array[i] = input[f[i]]
  BY DEF SameElements
<1>2. PICK g \in Permutation(Index) : \A i \in Index : array'[i] = array[g[i]]
  BY DEF Shuffle
<1> DEFINE h == [i \in Index |-> f[g[i]]]
<1>3. /\ f \in [Index -> Index] /\ (\A i, j \in Index : f[i] = f[j] => i = j)
      /\ g \in [Index -> Index] /\ (\A i, j \in Index : g[i] = g[j] => i = j)
  BY DEF Permutation
<1>4. h \in Permutation(Index)
  BY <1>3 DEF Permutation
<1>5. \A i \in Index : array'[i] = input'[h[i]]
  BY <1>1, <1>2, <1>3
<1> HIDE DEF h
<1> QED BY <1>4, <1>5 DEF SameElements

-----------------------------------------------------------------------------
LEMMA SortInitHolds == SortInit => SortInv
<1> SUFFICES ASSUME SortInit PROVE SortInv
  OBVIOUS
<1> DEFINE c0 == [start |-> 0, end |-> N, depth |-> initialDepth]
<1>1. calls = {c0} /\ RangeOf(c0) = Index /\ c0 \in Call
  BY ParallelSortAssumption DEF SortInit, RangeOf, Index, Call
<1>2. SortTypeOK /\ RangesDisjoint /\ OrderedAcross
  BY <1>1 DEF SortInit, SortTypeOK, RangesDisjoint, OrderedAcross
<1>3. [i \in Index |-> i] \in Permutation(Index)
  BY DEF Permutation
<1>4. SameElements
  BY <1>3 DEF SameElements, SortInit
<1> QED BY <1>2, <1>4 DEF SortInv

\* A call that sorts its range sequentially.
LEMMA SequentialStep ==
    ASSUME SortInv, NEW c \in calls, SortSequentially(c)
    PROVE  SortInv'
<1>1. c \in Call /\ array \in [Index -> Values]
  BY DEF SortInv, SortTypeOK
<1>2. RangeOf(c) \in SUBSET Index /\ Index \subseteq Int
  BY <1>1, RangeIsInterval
<1>3. array' \in Rearrangements(array, RangeOf(c))
  BY DEF SortSequentially, Sorted
<1>4. Shuffle(array, array', RangeOf(c))
  BY <1>1, <1>2, <1>3, RearrangementShuffles
<1>5. array' \in [Index -> Values] /\ calls' = calls \ {c} /\ input' = input
  BY <1>2, <1>4, ShuffleFacts DEF SortSequentially
<1>6. SortTypeOK' /\ RangesDisjoint'
  BY <1>5 DEF SortInv, SortTypeOK, RangesDisjoint
<1>7. SameElements'
  BY <1>2, <1>4, <1>5, SameElementsKept DEF SortInv
<1>8. ASSUME NEW i \in Index, NEW j \in Index, i < j,
             \A d \in calls' : ~(i \in RangeOf(d) /\ j \in RangeOf(d))
      PROVE  ~(array'[j] < array'[i])
  <2>1. array'[i] \in Int /\ array'[j] \in Int
    BY <1>5, ParallelSortAssumption
  <2>2. CASE i \in RangeOf(c) /\ j \in RangeOf(c)
    BY <1>8, <2>2 DEF SortSequentially, Sorted, comp
  <2>3. CASE ~(i \in RangeOf(c) /\ j \in RangeOf(c))
    <3>1. \A d \in calls \ {c} : ~(i \in RangeOf(d) /\ j \in RangeOf(d))
      BY <1>5, <1>8
    <3>2. array'[i] <= array'[j]
      BY <1>4, <1>8, <2>3, <3>1, OrderOutside
    <3> QED BY <2>1, <3>2
  <2> QED BY <2>2, <2>3
<1>9. OrderedAcross'
  BY <1>8 DEF OrderedAcross, comp
<1> QED BY <1>6, <1>7, <1>9 DEF SortInv

\* A call that partitions its range and recurses.
LEMMA PartitionStep ==
    ASSUME SortInv, NEW c \in calls, Partition(c)
    PROVE  SortInv'
<1> DEFINE last == c.end - 1
           m    == medianOf3(array, c.start, c.end)
           a    == Swap(array, last, m)
           R    == RangeOf(c)
<1>1. c \in Call /\ array \in [Index -> Values]
  BY DEF SortInv, SortTypeOK
<1>2. /\ R \in SUBSET Index /\ Index \subseteq Int
      /\ c.start \in 0 .. N /\ c.end \in 0 .. N /\ c.depth \in Nat
  BY <1>1, RangeIsInterval DEF Call
<1>3. c.start < c.end /\ c.depth # 0
  BY <1>2, ParallelSortAssumption DEF Partition, IsSmall
<1>4. m \in R /\ last \in R /\ c.start \in R /\ R = c.start .. last
  BY <1>2, <1>3, MedianInRange DEF RangeOf
<1>5. PICK pivot \in c.start .. last :
        \E b \in Rearrangements(a, c.start .. last - 1) :
            /\ Partitioned(b, c.start, c.end, pivot)
            /\ array' = PivotToMiddle(b, pivot, last)
            /\ calls' = (calls \ {c}) \cup {LeftCall(c, pivot), RightCall(c, pivot)}
  BY DEF Partition
<1>6. PICK b \in Rearrangements(a, c.start .. last - 1) :
            /\ Partitioned(b, c.start, c.end, pivot)
            /\ array' = PivotToMiddle(b, pivot, last)
            /\ calls' = (calls \ {c}) \cup {LeftCall(c, pivot), RightCall(c, pivot)}
  BY <1>5
<1> DEFINE l == LeftCall(c, pivot)
           r == RightCall(c, pivot)
<1>7. pivot \in R /\ pivot \in Int
  BY <1>2, <1>4
<1>8. /\ l \in Call /\ r \in Call
      /\ RangeOf(l) = c.start .. pivot - 1 /\ RangeOf(r) = pivot + 1 .. last
  <2>1. /\ pivot \in 0 .. N /\ pivot + 1 \in 0 .. N /\ c.depth - 1 \in Nat
        /\ c.end - 1 = last
    BY <1>2, <1>3, ParallelSortAssumption
  <2>2. l \in Call /\ r \in Call
    BY <1>2, <2>1 DEF LeftCall, RightCall, Call
  <2>3. RangeOf(l) = c.start .. pivot - 1 /\ RangeOf(r) = pivot + 1 .. last
    BY DEF LeftCall, RightCall, RangeOf
  <2> QED BY <2>2, <2>3
<1>9. Shuffle(array, a, R)
  BY <1>1, <1>2, <1>4, SwapShuffles
<1>10. a \in [Index -> Values]
  BY <1>2, <1>9, ShuffleFacts
<1>11. Shuffle(a, b, R)
  <2>1. c.start .. last - 1 \in SUBSET R
    BY <1>2, <1>4
  <2> HIDE DEF a, R
  <2> QED BY <1>2, <1>10, <2>1, RearrangementShuffles
<1>12. b \in [Index -> Values]
  BY <1>2, <1>11, ShuffleFacts
<1>13. Shuffle(b, array', R)
  BY <1>2, <1>4, <1>6, <1>7, <1>12, SwapShuffles DEF PivotToMiddle
<1>14. array' \in [Index -> Values] /\ input' = input
  BY <1>2, <1>13, ShuffleFacts DEF Partition
<1>15. Shuffle(array, array', R)
  <2> HIDE DEF a, R
  <2>1. Shuffle(array, b, R)
    BY <1>1, <1>2, <1>9, <1>10, <1>11, <1>12, ShuffleTransitive
  <2> QED BY <1>1, <1>2, <1>12, <1>13, <2>1, ShuffleTransitive
<1>16. /\ \A i \in c.start .. pivot - 1 : array'[i] <= array'[pivot]
       /\ \A j \in pivot + 1 .. last : array'[pivot] <= array'[j]
  <2>1. Partitioned(b, c.start, last + 1, pivot)
    BY <1>2, <1>6
  <2>2. c.start \in Index /\ last \in Index
    BY <1>2, <1>4
  <2> QED BY <1>6, <1>12, <2>1, <2>2, PivotSeparates
<1> HIDE DEF a, m, l, r
<1>17. SortTypeOK'
  BY <1>6, <1>8, <1>14 DEF SortInv, SortTypeOK, l, r
<1>18. RangesDisjoint'
  <2>1. RangeOf(l) \subseteq R /\ RangeOf(r) \subseteq R /\ RangeOf(l) \cap RangeOf(r) = {}
    BY <1>2, <1>4, <1>7, <1>8
  <2>2. \A d \in calls \ {c} : R \cap RangeOf(d) = {}
    BY DEF SortInv, RangesDisjoint
  <2>3. \A d, e \in calls \ {c} : d # e => RangeOf(d) \cap RangeOf(e) = {}
    BY DEF SortInv, RangesDisjoint
  <2>4. calls' = (calls \ {c}) \cup {l, r}
    BY <1>6 DEF l, r
  <2> HIDE DEF R
  <2>5. ASSUME NEW d \in calls', NEW e \in calls', d # e
        PROVE  RangeOf(d) \cap RangeOf(e) = {}
    <3>1. CASE d \in calls \ {c} /\ e \in calls \ {c}
      BY <2>3, <2>5, <3>1
    <3>2. CASE d \in {l, r} /\ e \in calls \ {c}
      BY <2>1, <2>2, <3>2
    <3>3. CASE d \in calls \ {c} /\ e \in {l, r}
      BY <2>1, <2>2, <3>3
    <3>4. CASE d \in {l, r} /\ e \in {l, r}
      BY <2>1, <2>5, <3>4
    <3> QED BY <2>4, <3>1, <3>2, <3>3, <3>4
  <2> QED BY <2>5 DEF RangesDisjoint
<1>19. SameElements'
  BY <1>2, <1>14, <1>15, SameElementsKept DEF SortInv
<1>20. ASSUME NEW i \in Index, NEW j \in Index, i < j,
              \A d \in calls' : ~(i \in RangeOf(d) /\ j \in RangeOf(d))
       PROVE  ~(array'[j] < array'[i])
  <2>1. \A k \in Index : array'[k] \in Int
    BY <1>14, ParallelSortAssumption
  <2>2. /\ \A d \in calls \ {c} : ~(i \in RangeOf(d) /\ j \in RangeOf(d))
        /\ ~(i \in RangeOf(l) /\ j \in RangeOf(l))
        /\ ~(i \in RangeOf(r) /\ j \in RangeOf(r))
    BY <1>6, <1>20 DEF l, r
  <2>3. CASE i \in R /\ j \in R
    <3>1. i \in Int /\ j \in Int /\ pivot \in Index
      BY <1>2, <1>7
    <3>2. i <= pivot /\ pivot <= j
      BY <1>2, <1>4, <1>7, <1>8, <1>20, <2>2, <2>3, <3>1
    <3>3. array'[i] <= array'[pivot]
      BY <1>2, <1>4, <1>16, <2>1, <2>3, <3>1, <3>2
    <3>4. array'[pivot] <= array'[j]
      BY <1>2, <1>4, <1>16, <2>1, <2>3, <3>1, <3>2
    <3> QED BY <2>1, <3>1, <3>3, <3>4
  <2>4. CASE ~(i \in R /\ j \in R)
    <3>1. array'[i] <= array'[j]
      BY <1>15, <1>20, <2>2, <2>4, OrderOutside
    <3> QED BY <2>1, <3>1
  <2> QED BY <2>3, <2>4
<1>21. OrderedAcross'
  BY <1>20 DEF OrderedAcross, comp
<1> QED BY <1>17, <1>18, <1>19, <1>21 DEF SortInv

-----------------------------------------------------------------------------
\* Elements that no outstanding call compares are in order, and the array is
\* always a rearrangement of the input.
THEOREM SortInductive == SortSpec => []SortInv
<1>1. SortInv /\ [SortNext]_sortVars => SortInv'
  <2> SUFFICES ASSUME SortInv, [SortNext]_sortVars PROVE SortInv'
    OBVIOUS
  <2>1. CASE SortNext
    BY <2>1, SequentialStep, PartitionStep DEF SortNext
  <2>2. CASE UNCHANGED sortVars
    BY <2>2 DEF sortVars, SortInv, SortTypeOK, RangesDisjoint, OrderedAcross, SameElements
  <2> QED BY <2>1, <2>2
<1> QED BY <1>1, SortInitHolds, PTL DEF SortSpec

\* parallel_sort returns its input in order, whatever the array, the threshold
\* for sequential sorting, the depth limit and the order of the closures.
THEOREM ParallelSortSorts == SortSpec => []ResultIsSorted
<1>1. SortInv => ResultIsSorted
  BY DEF SortInv, ResultIsSorted, OrderedAcross, InOrder
<1> QED BY <1>1, SortInductive, PTL

\* No two closures of a sort touch the same element.
THEOREM NoRace == SortSpec => []RangesDisjoint
<1>1. SortInv => RangesDisjoint
  BY DEF SortInv
<1> QED BY <1>1, SortInductive, PTL

\* The calls stay inside the array: no closure is given a range that ends
\* beyond it, and the array keeps its length.
THEOREM SortTypeCorrect == SortSpec => []SortTypeOK
<1>1. SortInv => SortTypeOK
  BY DEF SortInv
<1> QED BY <1>1, SortInductive, PTL

-----------------------------------------------------------------------------
(* parallel_for_each.  What a step does to the frames of a thread and to   *)
(* the stack of the executor.                                              *)

LEMMA PlaceFacts ==
    /\ Main \in Agents /\ Main \in Places /\ Main \notin Workers
    /\ Stack \in Places /\ Stack \notin Agents /\ Stack \notin Workers
    /\ \A a \in Agents : a \in Places /\ a # Stack /\ (a # Main => a \in Workers)
    /\ \A w \in Workers : w \in Agents /\ w \in Places /\ w # Main
    /\ \A p \in Places : p = Stack \/ p \in Agents
BY ForEachAssumption DEF Main, Workers, Agents, Places, Stack

LEMMA GroupFacts ==
    /\ Outer \in Groups /\ Outer \notin Sections
    /\ \A s \in Sections : s \in Groups /\ s # Outer /\ s - 1 \in Nat
    /\ \A g \in Groups : g = Outer \/ g \in Sections
    /\ \A x \in Nat : x + 1 \in 1 .. MaxSections => x + 1 \in Sections
BY ForEachAssumption DEF Outer, Groups, Sections

\* The fields that a frame and a closure of the stack share.
LEMMA HeldTypes ==
    ASSUME TypeOK, NEW p \in Places
    PROVE  /\ Len(Held(p)) \in Nat /\ DOMAIN Held(p) = 1 .. Len(Held(p))
           /\ \A d \in DOMAIN Held(p) :
                 /\ Held(p)[d].group \in Groups
                 /\ Held(p)[d].begin \in Nat /\ Held(p)[d].end \in Nat
<1>1. CASE p = Stack
  <2>1. Held(p) = _workStack /\ _workStack \in Seq(Closure)
    BY <1>1 DEF Held, TypeOK
  <2>2. \A d \in 1 .. Len(_workStack) : _workStack[d] \in Closure
    BY <2>1
  <2>3. \A c \in Closure : c.group \in Groups /\ c.begin \in Nat /\ c.end \in Nat
    BY DEF Closure
  <2> QED
    BY <2>1, <2>2, <2>3
<1>2. CASE p # Stack
  <2>1. Held(p) = frames[p] /\ frames[p] \in Seq(Frame)
    BY <1>2, PlaceFacts DEF Held, TypeOK
  <2>2. \A d \in 1 .. Len(frames[p]) : frames[p][d] \in Frame
    BY <2>1
  <2>3. \A f \in Frame : f.group \in Groups /\ f.begin \in Nat /\ f.end \in Nat
    BY DEF Frame
  <2> QED
    BY <2>1, <2>2, <2>3
<1> QED
  BY <1>1, <1>2

LEMMA FrameTypes ==
    ASSUME TypeOK, NEW a \in Agents
    PROVE  /\ frames[a] \in Seq(Frame) /\ Len(frames[a]) \in Nat
           /\ DOMAIN frames[a] = 1 .. Len(frames[a])
           /\ Held(a) = frames[a]
           /\ \A d \in 1 .. Len(frames[a]) : frames[a][d] \in Frame
           /\ Idle(a) <=> Len(frames[a]) = 0
           /\ ~Idle(a) => /\ Len(frames[a]) \in 1 .. Len(frames[a])
                          /\ Top(a) \in Frame
<1>1. frames[a] \in Seq(Frame) /\ Held(a) = frames[a]
  BY PlaceFacts DEF Held, TypeOK
<1>2. Idle(a) <=> Len(frames[a]) = 0
  BY <1>1 DEF Idle
<1> QED
  BY <1>1, <1>2 DEF Top

LEMMA FrameFields ==
    ASSUME NEW f \in Frame
    PROVE  /\ f.group \in Groups /\ f.begin \in Nat /\ f.end \in Nat
           /\ f.kind \in {"call", "closure"} /\ f.at \in {"spawn", "each", "sync", "exit"}
BY DEF Frame

LEMMA BecomesEffect ==
    ASSUME TypeOK, NEW a \in Agents, ~Idle(a), NEW f \in Frame, Becomes(a, f)
    PROVE  /\ frames' \in [Agents -> Seq(Frame)]
           /\ Len(frames'[a]) = Len(frames[a])
           /\ frames'[a][Len(frames[a])] = f
           /\ \A d \in 1 .. Len(frames[a]) : d # Len(frames[a]) => frames'[a][d] = frames[a][d]
           /\ \A b \in Agents \ {a} : frames'[b] = frames[b]
<1> DEFINE s == frames[a]
           r == [s EXCEPT ![Len(s)] = f]
<1>1. s \in Seq(Frame) /\ Len(s) \in 1 .. Len(s) /\ frames \in [Agents -> Seq(Frame)]
  BY FrameTypes DEF TypeOK
<1>2. frames' = [frames EXCEPT ![a] = r]
  BY DEF Becomes
<1>3. r \in Seq(Frame) /\ Len(r) = Len(s)
  BY <1>1, ExceptSeq
<1>4. r[Len(s)] = f /\ \A d \in 1 .. Len(s) : d # Len(s) => r[d] = s[d]
  BY <1>1
<1>5. frames'[a] = r
  BY <1>1, <1>2
<1>6. frames' \in [Agents -> Seq(Frame)] /\ \A b \in Agents \ {a} : frames'[b] = frames[b]
  <2> HIDE DEF r
  <2> QED
    BY <1>1, <1>2, <1>3
<1> QED
  BY <1>3, <1>4, <1>5, <1>6

\* The same seen from the places: one range is replaced.
LEMMA HeldBecomes ==
    ASSUME TypeOK, NEW a \in Agents, ~Idle(a), NEW f \in Frame, Becomes(a, f),
           _workStack' = _workStack
    PROVE  /\ \A p \in Places : DOMAIN Held(p)' = DOMAIN Held(p)
           /\ \A p \in Places : \A d \in DOMAIN Held(p) :
                  p # a \/ d # Len(frames[a]) => Held(p)'[d] = Held(p)[d]
           /\ Len(frames[a]) \in DOMAIN Held(a)
           /\ Held(a)'[Len(frames[a])] = f /\ Held(a)[Len(frames[a])] = Top(a)
           /\ \A b \in Agents : DOMAIN frames'[b] = DOMAIN frames[b]
           /\ \A b \in Agents : \A d \in DOMAIN frames[b] :
                  b # a \/ d # Len(frames[a]) => frames'[b][d] = frames[b][d]
           /\ \A b \in Agents : Len(frames'[b]) = Len(frames[b]) /\ (Idle(b)' <=> Idle(b))
<1>1. /\ frames' \in [Agents -> Seq(Frame)]
      /\ Len(frames'[a]) = Len(frames[a])
      /\ frames'[a][Len(frames[a])] = f
      /\ \A d \in 1 .. Len(frames[a]) : d # Len(frames[a]) => frames'[a][d] = frames[a][d]
      /\ \A b \in Agents \ {a} : frames'[b] = frames[b]
  BY BecomesEffect
<1>2. \A b \in Agents : Held(b) = frames[b] /\ Held(b)' = frames'[b]
  BY PlaceFacts DEF Held
<1>3. Held(Stack) = _workStack /\ Held(Stack)' = _workStack
  BY DEF Held
<1>4. \A b \in Agents : /\ Len(frames[b]) \in Nat /\ DOMAIN frames[b] = 1 .. Len(frames[b])
                        /\ frames[b] \in Seq(Frame)
  BY FrameTypes
<1>5. DOMAIN frames'[a] = 1 .. Len(frames'[a]) /\ frames'[a] \in Seq(Frame)
  BY <1>1
<1>6. \A b \in Agents : DOMAIN frames'[b] = DOMAIN frames[b] /\ Len(frames'[b]) = Len(frames[b])
  BY <1>1, <1>4, <1>5
<1>7. Len(frames[a]) \in DOMAIN frames[a] /\ Top(a) = frames[a][Len(frames[a])]
  BY FrameTypes DEF Top
<1>8. \A b \in Agents : Idle(b)' <=> Idle(b)
  <2>1. \A b \in Agents : frames'[b] \in Seq(Frame)
    BY <1>1
  <2> QED
    BY <2>1, <1>4, <1>6 DEF Idle
<1>9. \A b \in Agents : \A d \in DOMAIN frames[b] :
          b # a \/ d # Len(frames[a]) => frames'[b][d] = frames[b][d]
  BY <1>1, <1>4
<1> QED
  BY <1>1, <1>2, <1>3, <1>6, <1>7, <1>8, <1>9, PlaceFacts

\* A thread handles the next elements of its innermost range, or none.
LEMMA Advance ==
    ASSUME IInv, NEW a \in Agents, ~Idle(a), NEW f \in Frame, Becomes(a, f),
           _workStack' = _workStack, size' = size,
           f.group = Top(a).group, f.kind = Top(a).kind, f.end = Top(a).end,
           Top(a).begin <= f.begin, f.begin <= f.end
    PROVE  /\ ElementsOnce' /\ EndsDiffer'
           /\ \A p \in Places : \A d \in DOMAIN Held(p)' :
                  /\ Held(p)'[d].begin <= Held(p)'[d].end
                  /\ Held(p)'[d].end <= size[Held(p)'[d].group]
           /\ \A p \in Places : \A d \in DOMAIN Held(p) : Held(p)'[d].group = Held(p)[d].group
           /\ \A g : InCall(g)' = InCall(g) /\ Running(g)' = Running(g) /\ Queued(g)' = Queued(g)
           /\ \A g \in Groups, x \in Nat :
                  Todo(g, x)' <=> /\ Todo(g, x)
                                  /\ ~(g = f.group /\ Top(a).begin <= x /\ x < f.begin)
<1> DEFINE n == Len(frames[a])
<1> USE DEF IInv
<1>0. TypeOK
  OBVIOUS
<1>1. /\ \A p \in Places : DOMAIN Held(p)' = DOMAIN Held(p)
      /\ \A p \in Places : \A d \in DOMAIN Held(p) :
             p # a \/ d # n => Held(p)'[d] = Held(p)[d]
      /\ n \in DOMAIN Held(a) /\ a \in Places
      /\ Held(a)'[n] = f /\ Held(a)[n] = Top(a)
  BY HeldBecomes, PlaceFacts
<1>2. /\ \A b \in Agents : DOMAIN frames'[b] = DOMAIN frames[b]
      /\ \A b \in Agents : \A d \in DOMAIN frames[b] :
             b # a \/ d # n => frames'[b][d] = frames[b][d]
      /\ frames'[a][n] = f /\ frames[a][n] = Top(a) /\ n \in DOMAIN frames[a]
      /\ \A b \in Agents : Len(frames'[b]) = Len(frames[b]) /\ (Idle(b)' <=> Idle(b))
  BY HeldBecomes, BecomesEffect, FrameTypes DEF Top
<1>3. \A p \in Places : \A d \in DOMAIN Held(p) :
          /\ Held(p)[d].group \in Groups /\ Held(p)[d].begin \in Nat /\ Held(p)[d].end \in Nat
  BY HeldTypes
<1>4. f.begin \in Nat /\ f.end \in Nat
  BY FrameFields
<1>5. \A p \in Places : \A d \in DOMAIN Held(p) :
          /\ Held(p)'[d].group = Held(p)[d].group /\ Held(p)'[d].end = Held(p)[d].end
          /\ Held(p)'[d].begin \in Nat /\ Held(p)[d].begin <= Held(p)'[d].begin
  BY <1>1, <1>3, <1>4
<1>6. \A b \in Agents : \A d \in DOMAIN frames[b] :
          /\ frames'[b][d].group = frames[b][d].group /\ frames'[b][d].kind = frames[b][d].kind
          /\ frames'[b][d].begin \in Nat /\ frames[b][d].begin \in Nat
          /\ frames[b][d].begin <= frames'[b][d].begin
  <2>1. \A b \in Agents : \A d \in DOMAIN frames[b] : frames[b][d].begin \in Nat
    BY FrameTypes, FrameFields
  <2> QED
    BY <1>2, <1>4, <2>1
<1> HIDE DEF n
<1>7. ElementsOnce'
  BY <1>1, <1>3, <1>5 DEF ElementsOnce
<1>8. EndsDiffer'
  <2>1. \A p \in Workers \cup {Stack} : p \in Places
    BY PlaceFacts
  <2>2. ASSUME NEW p \in Workers \cup {Stack}, NEW q \in Workers \cup {Stack},
               NEW d \in DOMAIN Held(p)', NEW e \in DOMAIN Held(q)',
               p # Stack => d = 1, q # Stack => e = 1,
               Held(p)'[d].group = Held(q)'[e].group, Held(p)'[d].end = Held(q)'[e].end
        PROVE  p = q /\ d = e
    <3>1. d \in DOMAIN Held(p) /\ e \in DOMAIN Held(q)
      BY <1>1, <2>1
    <3>2. Held(p)[d].group = Held(q)[e].group /\ Held(p)[d].end = Held(q)[e].end
      BY <1>5, <2>1, <2>2, <3>1
    <3> QED
      BY <2>2, <3>1, <3>2 DEF EndsDiffer
  <2>3. ASSUME NEW p \in Workers \cup {Stack}, NEW b \in Agents,
               NEW d \in DOMAIN Held(p)', NEW e \in DOMAIN frames'[b],
               p # Stack => d = 1, frames'[b][e].kind = "call",
               frames'[b][e].group = Held(p)'[d].group
        PROVE  Held(p)'[d].end <= frames'[b][e].begin
    <3>1. d \in DOMAIN Held(p) /\ e \in DOMAIN frames[b]
      BY <1>1, <1>2, <2>1
    <3>2. Held(p)[d].end <= frames[b][e].begin
      BY <1>5, <1>6, <2>1, <2>3, <3>1 DEF EndsDiffer
    <3> QED
      BY <1>3, <1>5, <1>6, <2>1, <3>1, <3>2
  <2> QED
    BY <2>2, <2>3 DEF EndsDiffer
<1>9. \A p \in Places : \A d \in DOMAIN Held(p)' :
          /\ Held(p)'[d].begin <= Held(p)'[d].end
          /\ Held(p)'[d].end <= size[Held(p)'[d].group]
  BY <1>1, <1>5 DEF RangesFit
<1>10. ASSUME NEW g
       PROVE  InCall(g)' = InCall(g) /\ Running(g)' = Running(g) /\ Queued(g)' = Queued(g)
  <2>1. \A b \in Agents : Len(frames[b]) = 2 => 2 \in DOMAIN frames[b]
    BY FrameTypes
  <2>2. \A b \in Agents : ~Idle(b) => 1 \in DOMAIN frames[b]
    BY FrameTypes
  <2> QED
    BY <1>2, <1>6, <2>1, <2>2, PlaceFacts DEF InCall, Running, Queued
<1>11. ASSUME NEW g \in Groups, NEW x \in Nat
       PROVE  Todo(g, x)' <=> /\ Todo(g, x)
                              /\ ~(g = f.group /\ Top(a).begin <= x /\ x < f.begin)
  <2>1. ASSUME Todo(g, x)'
        PROVE  /\ Todo(g, x)
               /\ ~(g = f.group /\ Top(a).begin <= x /\ x < f.begin)
    <3>1. PICK p \in Places : \E d \in DOMAIN Held(p)' :
              Held(p)'[d].group = g /\ Held(p)'[d].begin <= x /\ x < Held(p)'[d].end
      BY <2>1 DEF Todo
    <3>2. PICK d \in DOMAIN Held(p) :
              Held(p)'[d].group = g /\ Held(p)'[d].begin <= x /\ x < Held(p)'[d].end
      BY <1>1, <3>1
    <3>3. Held(p)[d].group = g /\ Held(p)[d].begin <= x /\ x < Held(p)[d].end
      BY <1>3, <1>5, <3>2
    <3>4. Todo(g, x)
      BY <3>3 DEF Todo
    <3>5. ASSUME g = f.group, Top(a).begin <= x, x < f.begin
          PROVE  FALSE
      <4>1. /\ Held(a)[n].group = g /\ Held(a)[n].begin <= x /\ x < Held(a)[n].end
        BY <1>1, <1>3, <1>4, <3>5
      <4>2. p = a /\ d = n
        BY <1>1, <1>3, <3>3, <4>1 DEF ElementsOnce
      <4> QED
        BY <1>1, <1>4, <3>2, <3>5, <4>2
    <3> QED
      BY <3>4, <3>5
  <2>2. ASSUME Todo(g, x), ~(g = f.group /\ Top(a).begin <= x /\ x < f.begin)
        PROVE  Todo(g, x)'
    <3>1. PICK p \in Places : \E d \in DOMAIN Held(p) :
              Held(p)[d].group = g /\ Held(p)[d].begin <= x /\ x < Held(p)[d].end
      BY <2>2 DEF Todo
    <3>2. PICK d \in DOMAIN Held(p) :
              Held(p)[d].group = g /\ Held(p)[d].begin <= x /\ x < Held(p)[d].end
      BY <3>1
    <3>3. Held(p)'[d].group = g /\ Held(p)'[d].begin <= x /\ x < Held(p)'[d].end
      BY <1>1, <1>3, <1>4, <1>5, <2>2, <3>2
    <3> QED
      BY <1>1, <3>3 DEF Todo
  <2> QED
    BY <2>1, <2>2
<1> QED
  BY <1>1, <1>5, <1>7, <1>8, <1>9, <1>10, <1>11

LEMMA NotIdleMain ==
    ASSUME IInv, ~Over
    PROVE  ~Idle(Main) /\ status # "committed"
BY DEF IInv, EndsMatch, Over

\* A step of a thread that goes on in its innermost call or closure.
LEMMA AdvanceStep ==
    ASSUME IInv, ~Over, NEW a \in Agents, ~Idle(a), NEW f \in Frame, Becomes(a, f),
           _workStack' = _workStack, size' = size, _latch' = _latch, left' = left,
           f.group = Top(a).group, f.kind = Top(a).kind, f.end = Top(a).end,
           Top(a).begin <= f.begin, f.begin <= f.end,
           f.kind = "closure" => f.at = "each",
           f.at \in {"sync", "exit"} => f.begin = f.end,
           f.at = "exit" => Len(frames[a]) = 2,
           _stop' \in BOOLEAN, _stop' <=> (_stop \/ f.at = "exit"), Top(a).at # "exit",
           status' \in {"linking", "exiting", "exited"},
           success' \in [Sections -> BOOLEAN],
           \A s \in Sections : ~success'[s] => ~success[s] \/ s = f.group,
           DOMAIN written' = Sections,
           \A s \in Sections : written'[s] \in [0 .. size[s] - 1 -> Nat],
           f.group = Outer => f.begin = Top(a).begin,
           \A s \in Sections : \A i \in 0 .. size[s] - 1 :
               written'[s][i] = IF s = f.group /\ Top(a).begin <= i /\ i < f.begin
                                THEN written[s][i] + 1 ELSE written[s][i]
    PROVE  IInv'
<1> DEFINE n == Len(frames[a])
<1> USE DEF IInv
<1>1. /\ ElementsOnce' /\ EndsDiffer'
      /\ \A p \in Places : \A d \in DOMAIN Held(p)' :
             /\ Held(p)'[d].begin <= Held(p)'[d].end
             /\ Held(p)'[d].end <= size[Held(p)'[d].group]
      /\ \A p \in Places : \A d \in DOMAIN Held(p) : Held(p)'[d].group = Held(p)[d].group
      /\ \A g : InCall(g)' = InCall(g) /\ Running(g)' = Running(g) /\ Queued(g)' = Queued(g)
      /\ \A g \in Groups, x \in Nat :
             Todo(g, x)' <=> /\ Todo(g, x)
                             /\ ~(g = f.group /\ Top(a).begin <= x /\ x < f.begin)
  BY Advance
<1>2. /\ \A p \in Places : DOMAIN Held(p)' = DOMAIN Held(p)
      /\ n \in DOMAIN Held(a) /\ Held(a)[n] = Top(a) /\ a \in Places
      /\ \A b \in Agents : DOMAIN frames'[b] = DOMAIN frames[b]
      /\ \A b \in Agents : \A d \in DOMAIN frames[b] :
             b # a \/ d # n => frames'[b][d] = frames[b][d]
      /\ \A b \in Agents : Len(frames'[b]) = Len(frames[b]) /\ (Idle(b)' <=> Idle(b))
  BY HeldBecomes, PlaceFacts
<1>3. /\ frames' \in [Agents -> Seq(Frame)] /\ frames'[a][n] = f
      /\ frames[a][n] = Top(a) /\ n \in DOMAIN frames[a]
  BY BecomesEffect, FrameTypes DEF Top
<1>4. \A b \in Agents : DOMAIN frames[b] = 1 .. Len(frames[b]) /\ Len(frames[b]) \in 0 .. 2
  BY FrameTypes DEF FramesNest
<1>5. TypeOK'
  BY <1>3 DEF TypeOK
<1>6. SizesFit'
  BY DEF SizesFit
<1> HIDE DEF n
<1>7. FramesNest'
  <2>1. \A b \in Agents : \A d \in DOMAIN frames[b] :
            /\ frames'[b][d].kind = frames[b][d].kind /\ frames'[b][d].group = frames[b][d].group
            /\ d # Len(frames[b]) => frames'[b][d].at = frames[b][d].at
            /\ frames'[b][d].kind = "closure" /\ frames[b][d].at = "each" => frames'[b][d].at = "each"
    BY <1>2, <1>3 DEF n
  <2>2. ASSUME NEW b \in Agents
        PROVE  /\ Len(frames'[b]) \in 0 .. 2
               /\ Len(frames'[b]) # 0 =>
                      IF b = Main THEN frames'[b][1].kind = "call" /\ frames'[b][1].group = Outer
                      ELSE frames'[b][1].kind = "closure" /\ frames'[b][1].at = "each"
               /\ Len(frames'[b]) = 2 =>
                      /\ frames'[b][1].group = Outer /\ frames'[b][1].at = "each"
                      /\ frames'[b][2].kind = "call" /\ frames'[b][2].group \in Sections
    BY <1>2, <1>4, <2>1 DEF FramesNest
  <2> QED
    BY <2>2 DEF FramesNest
<1>8. RangesFit'
  <2>1. ASSUME NEW b \in Agents, NEW d \in DOMAIN frames'[b]
        PROVE  /\ frames'[b][d].kind = "call" => frames'[b][d].end = size[frames'[b][d].group]
               /\ frames'[b][d].at \in {"sync", "exit"} => frames'[b][d].begin = frames'[b][d].end
               /\ frames'[b][d].at = "exit" => d = 2
    <3>1. CASE b = a /\ d = n
      BY <1>3, <3>1 DEF RangesFit, n
    <3>2. CASE b # a \/ d # n
      BY <1>2, <3>2 DEF RangesFit
    <3> QED
      BY <3>1, <3>2
  <2> QED
    BY <1>1, <2>1 DEF RangesFit
<1>9. LatchExact'
  BY <1>1 DEF LatchExact
<1>10. CallsLive'
  <2>1. ~Idle(Main)' /\ ~Idle(Main)
    BY <1>2, NotIdleMain, PlaceFacts
  <2>2. \A s \in Sections : \A b, c \in InCall(s)' : b = c
    BY <1>1 DEF CallsLive
  <2>3. \A s \in Sections : \A p \in Places : \A d \in DOMAIN Held(p)' :
            Held(p)'[d].group = s => InCall(s)' # {}
    BY <1>1, <1>2 DEF CallsLive
  <2>4. ASSUME NEW s \in Sections, ~success'[s] PROVE InCall(s)' # {}
    <3>1. CASE ~success[s]
      BY <1>1, <3>1 DEF CallsLive
    <3>2. CASE s = f.group
      BY <1>1, <1>2, <3>2, GroupFacts DEF CallsLive
    <3> QED
      BY <2>4, <3>1, <3>2
  <2> QED
    BY <2>1, <2>2, <2>3, <2>4 DEF CallsLive
<1>11. WritesExact'
  <2>1. \A s \in Sections : Todo(Outer, s - 1)' <=> Todo(Outer, s - 1)
    <3>1. Top(a).begin \in Nat
      BY FrameTypes, FrameFields
    <3> QED
      BY <1>1, <3>1, GroupFacts
  <2>2. \A s \in Sections : Todo(Outer, s - 1)' =>
            \A p \in Places : \A d \in DOMAIN Held(p)' : Held(p)'[d].group # s
    BY <1>1, <1>2, <2>1 DEF WritesExact
  <2>3. ASSUME NEW s \in Sections, NEW i \in 0 .. size[s] - 1
        PROVE  written'[s][i] = IF Todo(Outer, s - 1)' \/ Todo(s, i)' THEN 0 ELSE 1
    <3>1. i \in Nat /\ s \in Groups
      BY GroupFacts DEF TypeOK
    <3>2. Todo(s, i)' <=> Todo(s, i) /\ ~(s = f.group /\ Top(a).begin <= i /\ i < f.begin)
      BY <1>1, <3>1
    <3>3. written[s][i] = IF Todo(Outer, s - 1) \/ Todo(s, i) THEN 0 ELSE 1
      BY DEF WritesExact
    <3>4. CASE s = f.group /\ Top(a).begin <= i /\ i < f.begin
      <4>1. Top(a).begin \in Nat /\ f.end \in Nat /\ f.begin \in Nat
        BY FrameTypes, FrameFields
      <4>2. Held(a)[n].group = s /\ Held(a)[n].begin <= i /\ i < Held(a)[n].end
        BY <1>2, <3>1, <3>4, <4>1
      <4>3. Todo(s, i)
        BY <1>2, <4>2 DEF Todo
      <4>4. ~Todo(Outer, s - 1)
        BY <1>2, <4>2 DEF WritesExact
      <4> QED
        BY <2>1, <3>2, <3>3, <3>4, <4>3, <4>4
    <3>5. CASE ~(s = f.group /\ Top(a).begin <= i /\ i < f.begin)
      BY <2>1, <3>2, <3>3, <3>5
    <3> QED
      BY <3>4, <3>5
  <2> QED
    BY <2>2, <2>3 DEF WritesExact
<1>12. EndsMatch'
  <2>1. ~Idle(Main)'
    BY <1>2, NotIdleMain, PlaceFacts
  <2>2. _stop' <=> \E b \in Agents : Len(frames'[b]) = 2 /\ frames'[b][2].at = "exit"
    <3>1. \A b \in Agents \ {a} : Len(frames[b]) = 2 => frames'[b][2] = frames[b][2]
      BY <1>2, <1>4
    <3>2. Len(frames[a]) = 2 => frames'[a][2] = f /\ frames[a][2].at # "exit"
      BY <1>3 DEF n
    <3>3. _stop <=> \E b \in Agents : Len(frames[b]) = 2 /\ frames[b][2].at = "exit"
      BY DEF EndsMatch
    <3>4. CASE f.at = "exit"
      BY <1>2, <3>2, <3>4
    <3>5. CASE f.at # "exit"
      BY <1>2, <3>1, <3>2, <3>3, <3>5
    <3> QED
      BY <3>4, <3>5
  <2> QED
    BY <2>1, <2>2 DEF EndsMatch
<1> QED
  BY <1>1, <1>5, <1>6, <1>7, <1>8, <1>9, <1>10, <1>11, <1>12

LEMMA InitIInv == Init => IInv
<1> SUFFICES ASSUME Init PROVE IInv
  OBVIOUS
<1> DEFINE f == CallOf(Outer)
<1>1. /\ size \in [Groups -> AtomCounts \cup 0 .. MaxSections]
      /\ size[Outer] \in 0 .. MaxSections
      /\ \A s \in Sections : IF s <= size[Outer] THEN size[s] \in AtomCounts ELSE size[s] = 0
  BY DEF Init
<1>2. size \in [Groups -> Nat]
  <2>1. AtomCounts \cup 0 .. MaxSections \subseteq Nat
    BY ForEachAssumption
  <2> QED
    BY <1>1, <2>1
<1>3. /\ f \in Frame /\ f.group = Outer /\ f.begin = 0 /\ f.end = size[Outer]
      /\ f.kind = "call" /\ f.at = "spawn"
  BY <1>2, GroupFacts DEF CallOf, Frame
<1> HIDE DEF f
<1>4. /\ frames = [a \in Agents |-> IF a = Main THEN <<f>> ELSE <<>>]
      /\ _workStack = <<>> /\ _latch = [g \in Groups |-> 0]
      /\ written = [s \in Sections |-> [i \in 0 .. size[s] - 1 |-> 0]]
      /\ success = [s \in Sections |-> TRUE]
      /\ _stop = FALSE /\ left = {} /\ status = "linking"
  BY DEF Init, f
<1>5. /\ frames[Main] = <<f>> /\ Len(frames[Main]) = 1 /\ frames[Main][1] = f
      /\ DOMAIN frames[Main] = {1}
      /\ \A a \in Agents : a # Main => /\ frames[a] = <<>> /\ Len(frames[a]) = 0
                                       /\ DOMAIN frames[a] = {}
  BY <1>4, PlaceFacts
<1>6. /\ Held(Main) = <<f>> /\ DOMAIN Held(Main) = {1} /\ Held(Main)[1] = f
      /\ \A p \in Places : p # Main => Held(p) = <<>> /\ DOMAIN Held(p) = {}
  BY <1>4, <1>5, PlaceFacts DEF Held
<1>7. TypeOK
  <2>1. _workStack \in Seq(Closure)
    BY <1>4
  <2>2. \A a \in Agents : frames[a] \in Seq(Frame)
    <3>1. <<f>> \in Seq(Frame) /\ <<>> \in Seq(Frame)
      BY <1>3
    <3> QED
      BY <1>5, <3>1
  <2>3. frames \in [Agents -> Seq(Frame)]
    BY <1>4, <2>2
  <2>4. _latch \in [Groups -> Nat] /\ success \in [Sections -> BOOLEAN]
    BY <1>4
  <2>5. DOMAIN written = Sections /\ \A s \in Sections : written[s] \in [0 .. size[s] - 1 -> Nat]
    BY <1>4
  <2> QED
    BY <1>2, <1>4, <2>1, <2>3, <2>4, <2>5 DEF TypeOK
<1>8. SizesFit
  BY <1>1 DEF SizesFit
<1>9. FramesNest
  <2>1. Len(frames[Main]) = 1 /\ frames[Main][1].kind = "call" /\ frames[Main][1].group = Outer
    BY <1>3, <1>5
  <2>2. \A a \in Agents : a # Main => Len(frames[a]) = 0
    BY <1>5
  <2> QED
    BY <2>1, <2>2 DEF FramesNest
<1>10. RangesFit
  <2>1. \A p \in Places : \A d \in DOMAIN Held(p) :
            /\ Held(p)[d].begin <= Held(p)[d].end
            /\ Held(p)[d].end <= size[Held(p)[d].group]
    BY <1>2, <1>3, <1>6, GroupFacts
  <2>2. \A a \in Agents : \A d \in DOMAIN frames[a] :
            /\ frames[a][d].kind = "call" => frames[a][d].end = size[frames[a][d].group]
            /\ frames[a][d].at \in {"sync", "exit"} => frames[a][d].begin = frames[a][d].end
            /\ frames[a][d].at = "exit" => d = 2
    BY <1>3, <1>5
  <2> QED
    BY <2>1, <2>2 DEF RangesFit
<1>11. ElementsOnce
  BY <1>6 DEF ElementsOnce
<1>12. EndsDiffer
  <2>1. \A p \in Workers \cup {Stack} : p \in Places /\ p # Main
    BY PlaceFacts
  <2> QED
    BY <1>6, <2>1 DEF EndsDiffer
<1>13. LatchExact
  <2>1. ASSUME NEW g \in Groups PROVE Queued(g) = {} /\ Running(g) = {}
    <3>1. DOMAIN _workStack = {}
      BY <1>4
    <3> QED
      BY <1>5, <3>1, PlaceFacts DEF Queued, Running, Idle
  <2>2. \A g \in Groups : _latch[g] = 0
    BY <1>4
  <2> QED
    BY <2>1, <2>2, FS_EmptySet DEF LatchExact
<1>14. CallsLive
  <2>1. \A s \in Sections : InCall(s) = {}
    BY <1>5 DEF InCall
  <2>2. ~Idle(Main)
    BY <1>5 DEF Idle
  <2>3. \A s \in Sections : \A p \in Places : \A d \in DOMAIN Held(p) : Held(p)[d].group # s
    BY <1>3, <1>6, GroupFacts
  <2> QED
    BY <1>4, <2>1, <2>2, <2>3 DEF CallsLive
<1>15. WritesExact
  <2>1. \A s \in Sections : \A p \in Places : \A d \in DOMAIN Held(p) : Held(p)[d].group # s
    BY <1>3, <1>6, GroupFacts
  <2>2. ASSUME NEW s \in Sections, NEW i \in 0 .. size[s] - 1 PROVE Todo(Outer, s - 1)
    <3>1. s - 1 \in Nat /\ size[s] # 0 /\ s \in Nat
      BY <1>2, GroupFacts DEF Sections
    <3>2. s <= size[Outer]
      BY <1>1, <3>1
    <3>3. 0 <= s - 1 /\ s - 1 < size[Outer] /\ 1 \in DOMAIN Held(Main) /\ Main \in Places
      BY <1>2, <1>6, <3>1, <3>2, GroupFacts, PlaceFacts
    <3> QED
      BY <1>3, <1>6, <3>3 DEF Todo
  <2>3. \A s \in Sections : \A i \in 0 .. size[s] - 1 : written[s][i] = 0
    BY <1>4
  <2> QED
    BY <2>1, <2>2, <2>3 DEF WritesExact
<1>16. EndsMatch
  BY <1>4, <1>5, PlaceFacts DEF EndsMatch, Idle
<1> QED
  BY <1>7, <1>8, <1>9, <1>10, <1>11, <1>12, <1>13, <1>14, <1>15, <1>16 DEF IInv

\* What the thread that takes a step is in.
LEMMA TopFacts ==
    ASSUME IInv, NEW a \in Agents, ~Idle(a)
    PROVE  /\ Top(a) \in Frame /\ Len(frames[a]) \in {1, 2}
           /\ Top(a).group \in Groups /\ Top(a).begin \in Nat /\ Top(a).end \in Nat
           /\ Top(a).begin <= Top(a).end
           /\ Top(a).kind = "closure" => Top(a).at = "each" /\ Len(frames[a]) = 1 /\ a # Main
           /\ Top(a).kind = "call" => Top(a).end = size[Top(a).group]
           /\ Top(a).kind = "call" /\ Top(a).group # Outer => Len(frames[a]) = 2
           /\ Top(a).group = Outer => Len(frames[a]) = 1
           /\ Top(a).at \in {"sync", "exit"} => Top(a).begin = Top(a).end /\ Top(a).kind = "call"
<1> USE DEF IInv
<1>1. /\ Top(a) \in Frame /\ Len(frames[a]) \in 1 .. 2 /\ Held(a) = frames[a]
      /\ Top(a) = frames[a][Len(frames[a])]
      /\ Len(frames[a]) \in DOMAIN frames[a] /\ a \in Places
  BY FrameTypes, PlaceFacts DEF FramesNest, Top
<1>2. /\ Top(a).group \in Groups /\ Top(a).begin \in Nat /\ Top(a).end \in Nat
      /\ Top(a).kind \in {"call", "closure"}
  BY <1>1, FrameFields
<1>3. /\ Top(a).begin <= Top(a).end
      /\ Top(a).kind = "call" => Top(a).end = size[Top(a).group]
      /\ Top(a).at \in {"sync", "exit"} => Top(a).begin = Top(a).end
  BY <1>1 DEF RangesFit
<1>4. /\ Len(frames[a]) = 1 => IF a = Main THEN Top(a).kind = "call" /\ Top(a).group = Outer
                               ELSE Top(a).kind = "closure" /\ Top(a).at = "each"
      /\ Len(frames[a]) = 2 => Top(a).kind = "call" /\ Top(a).group \in Sections
  BY <1>1 DEF FramesNest
<1> QED
  BY <1>1, <1>2, <1>3, <1>4, GroupFacts

LEMMA EndSpawnStep ==
    ASSUME IInv, ~Over, NEW a \in Agents, EndSpawn(a)
    PROVE  IInv'
<1> DEFINE f == [Top(a) EXCEPT !.at = "each"]
<1>1. ~Idle(a) /\ Top(a).at = "spawn" /\ Becomes(a, f)
  BY DEF EndSpawn, At
<1>2. UNCHANGED <<size, _workStack, _latch, written, success, _stop, left, status>>
  BY DEF EndSpawn
<1>3. Top(a) \in Frame /\ Top(a).begin \in Nat /\ Top(a).end \in Nat /\ Top(a).begin <= Top(a).end
  BY <1>1, TopFacts
<1>4. /\ f \in Frame /\ f.group = Top(a).group /\ f.kind = Top(a).kind
      /\ f.begin = Top(a).begin /\ f.end = Top(a).end /\ f.at = "each"
  BY <1>3 DEF Frame
<1>5. TypeOK /\ status # "committed" /\ status # "exited"
  BY DEF IInv, Over
<1> HIDE DEF f
<1>6. DOMAIN written = Sections /\ \A s \in Sections : written[s] \in [0 .. size[s] - 1 -> Nat]
  BY <1>5 DEF TypeOK
<1>7. success' \in [Sections -> BOOLEAN] /\ _stop' \in BOOLEAN
      /\ status' \in {"linking", "exiting", "exited"}
  BY <1>2, <1>5 DEF TypeOK
<1>8. \A s \in Sections : \A i \in 0 .. size[s] - 1 :
          ~(s = f.group /\ Top(a).begin <= i /\ i < f.begin)
  BY <1>3, <1>4
<1> QED
  BY <1>1, <1>2, <1>3, <1>4, <1>6, <1>7, <1>8, AdvanceStep

LEMMA EndCallStep ==
    ASSUME IInv, ~Over, NEW a \in Agents, EndCall(a)
    PROVE  IInv'
<1> DEFINE f == [Top(a) EXCEPT !.at = "sync"]
<1>1. ~Idle(a) /\ Top(a).at = "each" /\ Becomes(a, f)
      /\ Top(a).kind = "call" /\ Top(a).begin = Top(a).end
  BY DEF EndCall, At
<1>2. UNCHANGED <<size, _workStack, _latch, written, success, _stop, left, status>>
  BY DEF EndCall
<1>3. Top(a) \in Frame /\ Top(a).begin \in Nat /\ Top(a).end \in Nat
  BY <1>1, TopFacts
<1>4. /\ f \in Frame /\ f.group = Top(a).group /\ f.kind = Top(a).kind
      /\ f.begin = Top(a).begin /\ f.end = Top(a).end /\ f.at = "sync"
  BY <1>3 DEF Frame
<1>5. TypeOK /\ status # "committed" /\ status # "exited"
  BY DEF IInv, Over
<1> HIDE DEF f
<1>6. DOMAIN written = Sections /\ \A s \in Sections : written[s] \in [0 .. size[s] - 1 -> Nat]
  BY <1>5 DEF TypeOK
<1>7. success' \in [Sections -> BOOLEAN] /\ _stop' \in BOOLEAN
      /\ status' \in {"linking", "exiting", "exited"}
  BY <1>2, <1>5 DEF TypeOK
<1>8. \A s \in Sections : \A i \in 0 .. size[s] - 1 :
          ~(s = f.group /\ Top(a).begin <= i /\ i < f.begin)
  BY <1>3, <1>4
<1> QED
  BY <1>1, <1>2, <1>3, <1>4, <1>6, <1>7, <1>8, AdvanceStep

LEMMA FatalErrorStep ==
    ASSUME IInv, ~Over, NEW a \in Agents, FatalError(a)
    PROVE  IInv'
<1> DEFINE f == [Top(a) EXCEPT !.at = "exit"]
<1>1. ~Idle(a) /\ Top(a).at = "sync" /\ Becomes(a, f) /\ Top(a).group # Outer
  BY DEF FatalError, Synced, At
<1>2. /\ UNCHANGED <<size, _workStack, _latch, written, success, left>>
      /\ _stop' = TRUE /\ status' \in {"exiting", "exited"}
  BY DEF FatalError
<1>3. /\ Top(a) \in Frame /\ Top(a).begin \in Nat /\ Top(a).begin = Top(a).end
      /\ Top(a).kind = "call" /\ Len(frames[a]) = 2
  BY <1>1, TopFacts
<1>4. /\ f \in Frame /\ f.group = Top(a).group /\ f.kind = Top(a).kind
      /\ f.begin = Top(a).begin /\ f.end = Top(a).end /\ f.at = "exit"
  BY <1>3 DEF Frame
<1>5. TypeOK
  BY DEF IInv
<1> HIDE DEF f
<1>6. DOMAIN written = Sections /\ \A s \in Sections : written[s] \in [0 .. size[s] - 1 -> Nat]
  BY <1>5 DEF TypeOK
<1>7. success' \in [Sections -> BOOLEAN]
  BY <1>2, <1>5 DEF TypeOK
<1>8. \A s \in Sections : \A i \in 0 .. size[s] - 1 :
          ~(s = f.group /\ Top(a).begin <= i /\ i < f.begin)
  BY <1>3, <1>4
<1> QED
  BY <1>1, <1>2, <1>3, <1>4, <1>6, <1>7, <1>8, AdvanceStep

LEMMA WriteAtomStep ==
    ASSUME IInv, ~Over, NEW a \in Agents, WriteAtom(a)
    PROVE  IInv'
<1> DEFINE f == [Top(a) EXCEPT !.begin = @ + 1]
           x == Top(a).begin
           t == Top(a).group
           u == written[t]
           v == [u EXCEPT ![x] = u[x] + 1]
<1>1. /\ ~Idle(a) /\ Top(a).at = "each" /\ Becomes(a, f)
      /\ t # Outer /\ x < Top(a).end
      /\ written' = [written EXCEPT ![t] = v]
      /\ \E ok \in BOOLEAN : success' = [success EXCEPT ![t] = @ /\ ok]
  BY DEF WriteAtom, At
<1>2. UNCHANGED <<size, _workStack, _latch, _stop, left, status>>
  BY DEF WriteAtom
<1>3. Top(a) \in Frame /\ x \in Nat /\ Top(a).end \in Nat /\ t \in Sections
  BY <1>1, TopFacts, GroupFacts
<1>4. /\ f \in Frame /\ f.group = Top(a).group /\ f.kind = Top(a).kind
      /\ f.begin = x + 1 /\ f.end = Top(a).end /\ f.at = "each"
  BY <1>1, <1>3 DEF Frame
<1>5. TypeOK /\ status # "committed" /\ status # "exited"
  BY DEF IInv, Over
<1>6. /\ \A s \in Sections : written[s] \in [0 .. size[s] - 1 -> Nat]
      /\ success \in [Sections -> BOOLEAN] /\ size \in [Groups -> Nat]
      /\ DOMAIN written = Sections
  BY <1>5 DEF TypeOK
<1> HIDE DEF f, x, t, u, v
<1>7. success' \in [Sections -> BOOLEAN] /\ \A s \in Sections : s # t => success'[s] = success[s]
  <2>1. PICK ok \in BOOLEAN : success' = [success EXCEPT ![t] = @ /\ ok]
    BY <1>1
  <2>2. success[t] \in BOOLEAN /\ (success[t] /\ ok) \in BOOLEAN
    BY <1>3, <1>6
  <2> QED
    BY <1>3, <1>6, <2>1, <2>2
<1>8. _stop' \in BOOLEAN /\ status' \in {"linking", "exiting", "exited"}
  BY <1>2, <1>5 DEF TypeOK
<1>9. /\ DOMAIN written' = Sections
      /\ \A s \in Sections :
          /\ written'[s] \in [0 .. size[s] - 1 -> Nat]
          /\ \A i \in 0 .. size[s] - 1 :
                 written'[s][i] = IF s = t /\ x <= i /\ i < x + 1
                                  THEN written[s][i] + 1 ELSE written[s][i]
  <2>1. DOMAIN written' = Sections /\ \A s \in Sections : s # t => written'[s] = written[s]
    BY <1>1, <1>6
  <2>2. written'[t] = v
    BY <1>1, <1>3, <1>6
  <2>3. /\ written'[t] \in [0 .. size[t] - 1 -> Nat]
        /\ \A i \in 0 .. size[t] - 1 :
               written'[t][i] = IF i = x THEN written[t][i] + 1 ELSE written[t][i]
    <3>1. u \in [0 .. size[t] - 1 -> Nat]
      BY <1>3, <1>6 DEF u
    <3>2. \A i \in 0 .. size[t] - 1 : u[i] \in Nat /\ u[i] + 1 \in Nat
      BY <3>1
    <3>3. \A i \in 0 .. size[t] - 1 : v[i] = IF i = x THEN u[i] + 1 ELSE u[i]
      BY <3>1 DEF v
    <3>4. v = [i \in 0 .. size[t] - 1 |-> v[i]]
      BY <3>1 DEF v
    <3>5. v \in [0 .. size[t] - 1 -> Nat]
      BY <3>2, <3>3, <3>4
    <3> QED
      BY <2>2, <3>3, <3>5 DEF u
  <2>4. \A i \in 0 .. size[t] - 1 : i = x <=> x <= i /\ i < x + 1
    BY <1>3, <1>6, GroupFacts
  <2> QED
    BY <1>6, <2>1, <2>3, <2>4
<1> QED
  BY <1>1, <1>2, <1>3, <1>4, <1>7, <1>8, <1>9, AdvanceStep DEF x, t

LEMMA FrontOf ==
    ASSUME NEW S, NEW s \in Seq(S), Len(s) # 0
    PROVE  /\ SubSeq(s, 1, Len(s) - 1) \in Seq(S)
           /\ Len(SubSeq(s, 1, Len(s) - 1)) = Len(s) - 1
           /\ \A d \in 1 .. Len(s) - 1 : SubSeq(s, 1, Len(s) - 1)[d] = s[d]
<1> DEFINE n == Len(s) - 1
           r == SubSeq(s, 1, n)
<1>1. n \in Nat /\ \A i \in 1 .. n : s[i] \in S
  OBVIOUS
<1> HIDE DEF n
<1>2. /\ r \in Seq(S) /\ Len(r) = IF 1 <= n THEN n - 1 + 1 ELSE 0
      /\ \A i \in 1 .. n - 1 + 1 : r[i] = s[1 + i - 1]
  BY <1>1, SubSeqProperties
<1> HIDE DEF r
<1>3. n - 1 + 1 = n /\ \A i \in 1 .. n : 1 + i - 1 = i
  BY <1>1
<1>4. r \in Seq(S) /\ Len(r) = n /\ \A i \in 1 .. n : r[i] = s[i]
  BY <1>1, <1>2, <1>3
<1> QED
  BY <1>4 DEF n, r

\* A thread leaves its innermost call or closure, which has nothing left to do.
LEMMA LeavesEffect ==
    ASSUME TypeOK, NEW a \in Agents, ~Idle(a), Leaves(a), _workStack' = _workStack
    PROVE  /\ frames' \in [Agents -> Seq(Frame)]
           /\ Len(frames'[a]) = Len(frames[a]) - 1
           /\ \A d \in 1 .. Len(frames[a]) - 1 : frames'[a][d] = frames[a][d]
           /\ \A b \in Agents \ {a} : frames'[b] = frames[b]
           /\ \A b \in Agents : DOMAIN frames'[b] = 1 .. Len(frames'[b])
           /\ \A p \in Places : \A d \in DOMAIN Held(p)' :
                  /\ d \in DOMAIN Held(p) /\ Held(p)'[d] = Held(p)[d]
           /\ \A p \in Places : \A d \in DOMAIN Held(p) :
                  p # a \/ d # Len(frames[a]) => d \in DOMAIN Held(p)'
           /\ \A b \in Agents : \A d \in DOMAIN frames'[b] :
                  d \in DOMAIN frames[b] /\ frames'[b][d] = frames[b][d]
           /\ Held(a)[Len(frames[a])] = Top(a) /\ Len(frames[a]) \in DOMAIN Held(a)
<1> DEFINE s == frames[a]
           r == SubSeq(s, 1, Len(s) - 1)
<1>1. s \in Seq(Frame) /\ Len(s) \in 1 .. Len(s) /\ frames \in [Agents -> Seq(Frame)]
  BY FrameTypes DEF TypeOK
<1>2. frames' = [frames EXCEPT ![a] = r]
  BY DEF Leaves
<1>3. /\ r \in Seq(Frame) /\ Len(r) = Len(s) - 1
      /\ \A d \in 1 .. Len(s) - 1 : r[d] = s[d]
  BY <1>1, FrontOf
<1> HIDE DEF r
<1>5. frames'[a] = r /\ frames' \in [Agents -> Seq(Frame)]
  BY <1>1, <1>2, <1>3
<1>6. \A b \in Agents \ {a} : frames'[b] = frames[b]
  BY <1>1, <1>2
<1>7. \A b \in Agents : DOMAIN frames'[b] = 1 .. Len(frames'[b]) /\ DOMAIN frames[b] = 1 .. Len(frames[b])
  BY <1>1, <1>5
<1>8. \A b \in Agents : Held(b) = frames[b] /\ Held(b)' = frames'[b]
  BY PlaceFacts DEF Held
<1>9. Held(Stack) = _workStack /\ Held(Stack)' = _workStack
  BY DEF Held
<1>10. \A d : d \in 1 .. Len(s) - 1 <=> d \in 1 .. Len(s) /\ d # Len(s)
  BY <1>1
<1>11. \A b \in Agents : \A d \in DOMAIN frames'[b] :
           d \in DOMAIN frames[b] /\ frames'[b][d] = frames[b][d]
  BY <1>3, <1>5, <1>6, <1>7, <1>10
<1>12. \A b \in Agents : \A d \in DOMAIN frames[b] :
           b # a \/ d # Len(s) => d \in DOMAIN frames'[b]
  BY <1>3, <1>5, <1>6, <1>7, <1>10
<1>13. Top(a) = s[Len(s)] /\ Len(s) \in DOMAIN s
  BY <1>1 DEF Top
<1>14. \A p \in Places : \A d \in DOMAIN Held(p)' :
           /\ d \in DOMAIN Held(p) /\ Held(p)'[d] = Held(p)[d]
  BY <1>8, <1>9, <1>11, PlaceFacts
<1>15. \A p \in Places : \A d \in DOMAIN Held(p) :
           p # a \/ d # Len(s) => d \in DOMAIN Held(p)'
  BY <1>8, <1>9, <1>12, PlaceFacts
<1> QED
  BY <1>3, <1>5, <1>6, <1>7, <1>8, <1>11, <1>13, <1>14, <1>15

LEMMA Leave ==
    ASSUME IInv, NEW a \in Agents, ~Idle(a), Leaves(a),
           _workStack' = _workStack, size' = size, written' = written,
           Top(a).begin = Top(a).end
    PROVE  /\ SizesFit' /\ FramesNest' /\ RangesFit' /\ ElementsOnce' /\ EndsDiffer'
           /\ WritesExact'
<1> DEFINE n == Len(frames[a])
<1> USE DEF IInv
<1>0. /\ frames' \in [Agents -> Seq(Frame)]
      /\ Len(frames'[a]) = n - 1
      /\ \A b \in Agents \ {a} : frames'[b] = frames[b]
      /\ \A b \in Agents : DOMAIN frames'[b] = 1 .. Len(frames'[b])
  BY LeavesEffect
<1>1. \A p \in Places : \A d \in DOMAIN Held(p)' :
          d \in DOMAIN Held(p) /\ Held(p)'[d] = Held(p)[d]
  BY LeavesEffect
<1>2. \A b \in Agents : \A d \in DOMAIN frames'[b] :
          d \in DOMAIN frames[b] /\ frames'[b][d] = frames[b][d]
  BY LeavesEffect
<1>3. /\ \A p \in Places : \A d \in DOMAIN Held(p) : p # a \/ d # n => d \in DOMAIN Held(p)'
      /\ Held(a)[n] = Top(a)
  BY LeavesEffect
<1>4. SizesFit'
  BY DEF SizesFit
<1>5. FramesNest'
  <2>1. ASSUME NEW b \in Agents
        PROVE  /\ Len(frames'[b]) \in 0 .. 2
               /\ Len(frames'[b]) # 0 =>
                      IF b = Main THEN frames'[b][1].kind = "call" /\ frames'[b][1].group = Outer
                      ELSE frames'[b][1].kind = "closure" /\ frames'[b][1].at = "each"
               /\ Len(frames'[b]) = 2 =>
                      /\ frames'[b][1].group = Outer /\ frames'[b][1].at = "each"
                      /\ frames'[b][2].kind = "call" /\ frames'[b][2].group \in Sections
    <3>1. CASE b # a
      BY <1>0, <3>1 DEF FramesNest
    <3>2. CASE b = a
      <4>1. n \in 1 .. 2
        BY TopFacts
      <4>2. Len(frames'[a]) \in {0, 1} /\ n # 0
        BY <1>0, <4>1
      <4>3. Len(frames'[a]) = 1 => 1 \in DOMAIN frames'[a]
        BY <1>0
      <4>4. Len(frames'[a]) # 0 => frames'[a][1] = frames[a][1]
        BY <1>2, <4>2, <4>3
      <4> QED
        BY <3>2, <4>2, <4>4 DEF FramesNest
    <3> QED
      BY <3>1, <3>2
  <2> QED
    BY <2>1 DEF FramesNest
<1>6. RangesFit'
  BY <1>1, <1>2 DEF RangesFit
<1>7. ElementsOnce'
  BY <1>1 DEF ElementsOnce
<1>8. EndsDiffer'
  <2>1. \A p \in Workers \cup {Stack} : p \in Places
    BY PlaceFacts
  <2>2. ASSUME NEW p \in Workers \cup {Stack}, NEW q \in Workers \cup {Stack},
               NEW d \in DOMAIN Held(p)', NEW e \in DOMAIN Held(q)',
               p # Stack => d = 1, q # Stack => e = 1,
               Held(p)'[d].group = Held(q)'[e].group, Held(p)'[d].end = Held(q)'[e].end
        PROVE  p = q /\ d = e
    BY <1>1, <2>1, <2>2 DEF EndsDiffer
  <2>3. ASSUME NEW p \in Workers \cup {Stack}, NEW b \in Agents,
               NEW d \in DOMAIN Held(p)', NEW e \in DOMAIN frames'[b],
               p # Stack => d = 1, frames'[b][e].kind = "call",
               frames'[b][e].group = Held(p)'[d].group
        PROVE  Held(p)'[d].end <= frames'[b][e].begin
    BY <1>1, <1>2, <2>1, <2>3 DEF EndsDiffer
  <2> QED
    BY <2>2, <2>3 DEF EndsDiffer
<1>9. WritesExact'
  <2>1. ASSUME NEW g, NEW x \in Nat PROVE Todo(g, x)' <=> Todo(g, x)
    <3>1. Todo(g, x)' => Todo(g, x)
      BY <1>1 DEF Todo
    <3>2. ASSUME Todo(g, x) PROVE Todo(g, x)'
      <4>1. PICK p \in Places : \E d \in DOMAIN Held(p) :
                Held(p)[d].group = g /\ Held(p)[d].begin <= x /\ x < Held(p)[d].end
        BY <3>2 DEF Todo
      <4>2. PICK d \in DOMAIN Held(p) :
                Held(p)[d].group = g /\ Held(p)[d].begin <= x /\ x < Held(p)[d].end
        BY <4>1
      <4>3. Top(a).begin \in Nat
        BY TopFacts
      <4>4. p # a \/ d # n
        BY <1>3, <4>2, <4>3
      <4>5. d \in DOMAIN Held(p)'
        BY <1>3, <4>4
      <4> QED
        BY <1>1, <4>2, <4>5 DEF Todo
    <3> QED
      BY <3>1, <3>2
  <2>2. ASSUME NEW s \in Sections, Todo(Outer, s - 1)',
               NEW p \in Places, NEW d \in DOMAIN Held(p)'
        PROVE  Held(p)'[d].group # s
    BY <1>1, <2>1, <2>2, GroupFacts DEF WritesExact
  <2>3. ASSUME NEW s \in Sections, NEW i \in 0 .. size[s] - 1
        PROVE  written[s][i] = IF Todo(Outer, s - 1)' \/ Todo(s, i)' THEN 0 ELSE 1
    <3>1. i \in Nat /\ s - 1 \in Nat
      BY GroupFacts DEF TypeOK
    <3>2. written[s][i] = IF Todo(Outer, s - 1) \/ Todo(s, i) THEN 0 ELSE 1
      BY DEF WritesExact
    <3> QED
      BY <2>1, <3>1, <3>2
  <2> QED
    BY <2>2, <2>3 DEF WritesExact
<1> QED
  BY <1>4, <1>5, <1>6, <1>7, <1>8, <1>9

\* The closures of a group are counted by its latch: none exists when it is 0.
LEMMA GroupSets ==
    ASSUME IInv, NEW g \in Groups
    PROVE  /\ IsFiniteSet(Queued(g)) /\ IsFiniteSet(Running(g))
           /\ Cardinality(Queued(g)) \in Nat /\ Cardinality(Running(g)) \in Nat
           /\ _latch[g] = Cardinality(Queued(g)) + Cardinality(Running(g))
           /\ _latch[g] = 0 => Queued(g) = {} /\ Running(g) = {}
<1> USE DEF IInv
<1>1. IsFiniteSet(Queued(g))
  <2>1. DOMAIN _workStack = 1 .. Len(_workStack) /\ Len(_workStack) \in Nat
    BY DEF TypeOK
  <2>2. IsFiniteSet(1 .. Len(_workStack))
    BY <2>1, FS_Interval
  <2> QED
    BY <2>1, <2>2, FS_Subset DEF Queued
<1>2. IsFiniteSet(Running(g))
  <2>1. IsFiniteSet(Workers)
    BY FS_Interval, ForEachAssumption DEF Workers
  <2> QED
    BY <2>1, FS_Subset DEF Running
<1>3. Cardinality(Queued(g)) \in Nat /\ Cardinality(Running(g)) \in Nat
  BY <1>1, <1>2, FS_CardinalityType
<1>4. _latch[g] = Cardinality(Queued(g)) + Cardinality(Running(g))
  BY DEF LatchExact
<1>5. _latch[g] = 0 => Cardinality(Queued(g)) = 0 /\ Cardinality(Running(g)) = 0
  BY <1>3, <1>4
<1> QED
  BY <1>1, <1>2, <1>3, <1>4, <1>5, FS_EmptySet

LEMMA EndClosureStep ==
    ASSUME IInv, ~Over, NEW a \in Agents, EndClosure(a)
    PROVE  IInv'
<1> USE DEF IInv
<1> DEFINE t == Top(a).group
<1>1. /\ ~Idle(a) /\ Top(a).kind = "closure" /\ Top(a).begin = Top(a).end
      /\ _latch' = [_latch EXCEPT ![t] = @ - 1] /\ Leaves(a)
      /\ UNCHANGED <<size, _workStack, written, success, _stop, left, status>>
  BY DEF EndClosure, At
<1>2. /\ SizesFit' /\ FramesNest' /\ RangesFit' /\ ElementsOnce' /\ EndsDiffer'
      /\ WritesExact'
  BY <1>1, Leave
<1>3. /\ Len(frames[a]) = 1 /\ a # Main /\ a \in Workers /\ t \in Groups
      /\ frames[a][1] = Top(a)
  BY <1>1, TopFacts, PlaceFacts DEF Top
<1>4. /\ frames' \in [Agents -> Seq(Frame)] /\ Len(frames'[a]) = 0
      /\ \A b \in Agents \ {a} : frames'[b] = frames[b]
      /\ \A p \in Places : \A d \in DOMAIN Held(p)' :
             d \in DOMAIN Held(p) /\ Held(p)'[d] = Held(p)[d]
  <2>1. /\ frames' \in [Agents -> Seq(Frame)] /\ Len(frames'[a]) = Len(frames[a]) - 1
        /\ \A b \in Agents \ {a} : frames'[b] = frames[b]
        /\ \A p \in Places : \A d \in DOMAIN Held(p)' :
               d \in DOMAIN Held(p) /\ Held(p)'[d] = Held(p)[d]
    BY <1>1, LeavesEffect
  <2>2. Len(frames[a]) - 1 = 0
    BY <1>3
  <2> QED
    BY <2>1, <2>2
<1>5. Idle(a)' /\ \A b \in Agents \ {a} : Idle(b)' <=> Idle(b)
  BY <1>4 DEF Idle
<1>6. \A g : InCall(g)' = InCall(g)
  BY <1>3, <1>4 DEF InCall
<1>7. \A g : Queued(g)' = Queued(g)
  BY <1>1 DEF Queued
<1>8. \A g : Running(g)' = IF g = t THEN Running(g) \ {a} ELSE Running(g)
  BY <1>1, <1>3, <1>4, <1>5, PlaceFacts DEF Running
<1>9. a \in Running(t)
  BY <1>1, <1>3 DEF Running
<1> HIDE DEF t
<1>10. LatchExact' /\ _latch' \in [Groups -> Nat]
  <2>1. _latch \in [Groups -> Nat]
    BY DEF TypeOK
  <2>2. ASSUME NEW g \in Groups
        PROVE  _latch'[g] = Cardinality(Queued(g)') + Cardinality(Running(g)') /\ _latch'[g] \in Nat
    <3>1. CASE g # t
      BY <1>1, <1>7, <1>8, <2>1, <3>1, GroupSets
    <3>2. CASE g = t
      <4>1. Cardinality(Running(t) \ {a}) = Cardinality(Running(t)) - 1
        BY <1>3, <1>9, GroupSets, FS_RemoveElement
      <4>2. /\ _latch[t] = Cardinality(Queued(t)) + Cardinality(Running(t))
            /\ Cardinality(Queued(t)) \in Nat /\ Cardinality(Running(t)) \in Nat
        BY <1>3, GroupSets
      <4>3. Cardinality(Running(t)) # 0
        BY <1>3, <1>9, GroupSets, FS_EmptySet
      <4>4. _latch'[t] = _latch[t] - 1
        BY <1>1, <1>3, <2>1
      <4>5. Queued(g)' = Queued(t) /\ Running(g)' = Running(t) \ {a}
        BY <1>7, <1>8, <3>2
      <4> QED
        BY <3>2, <4>1, <4>2, <4>3, <4>4, <4>5
    <3> QED
      BY <3>1, <3>2
  <2> QED
    BY <1>1, <2>1, <2>2 DEF LatchExact
<1>11. TypeOK'
  BY <1>1, <1>4, <1>10 DEF TypeOK
<1>12. ~Idle(Main)' /\ status # "committed"
  BY <1>3, <1>5, NotIdleMain, PlaceFacts
<1>13. CallsLive'
  BY <1>1, <1>4, <1>6, <1>12 DEF CallsLive
<1>14. EndsMatch'
  <2>0. /\ \A b \in Agents : b # a => frames'[b] = frames[b]
        /\ Len(frames'[a]) # 2 /\ Len(frames[a]) # 2
    BY <1>3, <1>4
  <2>1. \A b \in Agents : Len(frames'[b]) = 2 <=> Len(frames[b]) = 2
    BY <2>0
  <2>2. \A b \in Agents : Len(frames[b]) = 2 => frames'[b] = frames[b]
    BY <2>0
  <2> QED
    BY <1>1, <1>12, <2>1, <2>2 DEF EndsMatch
<1> QED
  BY <1>2, <1>10, <1>11, <1>13, <1>14

LEMMA SectionWrittenStep ==
    ASSUME IInv, ~Over, NEW a \in Agents, SectionWritten(a)
    PROVE  IInv'
<1> USE DEF IInv
<1> DEFINE t == Top(a).group
<1>1. /\ ~Idle(a) /\ Top(a).at = "sync" /\ t # Outer /\ success[t] /\ _latch[t] = 0 /\ Leaves(a)
      /\ UNCHANGED <<size, _workStack, _latch, written, success, _stop, left, status>>
  BY DEF SectionWritten, Synced, At
<1>2. Top(a).begin = Top(a).end /\ Len(frames[a]) = 2 /\ t \in Sections /\ t \in Groups
  BY <1>1, TopFacts, GroupFacts
<1>3. /\ SizesFit' /\ FramesNest' /\ RangesFit' /\ ElementsOnce' /\ EndsDiffer'
      /\ WritesExact'
  BY <1>1, <1>2, Leave
<1>4. frames[a][2] = Top(a)
  BY <1>2 DEF Top
<1>5. /\ frames' \in [Agents -> Seq(Frame)] /\ Len(frames'[a]) = 1
      /\ frames'[a][1] = frames[a][1]
      /\ \A b \in Agents \ {a} : frames'[b] = frames[b]
      /\ \A p \in Places : \A d \in DOMAIN Held(p)' :
             d \in DOMAIN Held(p) /\ Held(p)'[d] = Held(p)[d]
      /\ DOMAIN frames'[a] = 1 .. 1
  <2>1. /\ frames' \in [Agents -> Seq(Frame)] /\ Len(frames'[a]) = Len(frames[a]) - 1
        /\ \A d \in 1 .. Len(frames[a]) - 1 : frames'[a][d] = frames[a][d]
        /\ \A b \in Agents \ {a} : frames'[b] = frames[b]
        /\ \A p \in Places : \A d \in DOMAIN Held(p)' :
               d \in DOMAIN Held(p) /\ Held(p)'[d] = Held(p)[d]
        /\ DOMAIN frames'[a] = 1 .. Len(frames'[a])
    BY <1>1, LeavesEffect
  <2>2. Len(frames[a]) - 1 = 1 /\ 1 \in 1 .. 1
    BY <1>2
  <2> QED
    BY <2>1, <2>2
<1>6. ~Idle(a)' /\ \A b \in Agents \ {a} : Idle(b)' <=> Idle(b)
  <2>1. frames'[a] # <<>>
    <3>1. Len(frames'[a]) = 1
      BY <1>5
    <3> QED
      BY <3>1
  <2> QED
    BY <1>5, <2>1 DEF Idle
<1>7. \A g : Queued(g)' = Queued(g)
  BY <1>1 DEF Queued
<1>8. \A g : Running(g)' = Running(g)
  BY <1>1, <1>5, <1>6, PlaceFacts DEF Running
<1>9. \A g : InCall(g)' = InCall(g) \ {a}
  BY <1>5 DEF InCall
<1>10. \A g : g # t => a \notin InCall(g)
  BY <1>4 DEF InCall
<1> HIDE DEF t
<1>11. TypeOK'
  BY <1>1, <1>5 DEF TypeOK
<1>12. LatchExact'
  BY <1>1, <1>7, <1>8 DEF LatchExact
<1>13. ~Idle(Main)' /\ status # "committed"
  BY <1>6, NotIdleMain, PlaceFacts
<1>14. CallsLive'
  <2>1. ASSUME NEW p \in Places, NEW d \in DOMAIN Held(p)'
        PROVE  Held(p)'[d].group # t
    <3>1. Queued(t) = {} /\ Running(t) = {}
      BY <1>1, <1>2, GroupSets
    <3>2. d \in DOMAIN Held(p) /\ Held(p)'[d] = Held(p)[d]
      BY <1>5
    <3>3. CASE p = Stack
      BY <3>1, <3>2, <3>3 DEF Held, Queued
    <3>4. CASE p # Stack
      <4>1. p \in Agents /\ Held(p) = frames[p] /\ Held(p)' = frames'[p]
        BY <3>4, PlaceFacts DEF Held
      <4>2. ~Idle(p) /\ d \in {1, 2} /\ (d = 2 => Len(frames[p]) = 2)
        <5>1. Len(frames[p]) \in 0 .. 2 /\ d \in 1 .. Len(frames[p])
          BY <3>2, <4>1, FrameTypes DEF FramesNest
        <5> QED
          BY <4>1, <5>1, FrameTypes
      <4>3. d = 1 => frames[p][d].group # t
        <5>1. CASE p = Main
          BY <1>1, <4>1, <4>2, <5>1, FrameTypes DEF FramesNest
        <5>2. CASE p # Main
          BY <3>1, <4>1, <4>2, <5>2, PlaceFacts DEF Running
        <5> QED
          BY <5>1, <5>2
      <4>4. d = 2 => p # a
        BY <1>5, <4>1
      <4>5. d = 2 => frames[p][d].group # t
        <5>1. a \in InCall(t)
          BY <1>2, <1>4 DEF InCall, t
        <5> QED
          BY <1>2, <4>1, <4>2, <4>4, <5>1 DEF InCall, CallsLive
      <4> QED
        BY <3>2, <4>1, <4>2, <4>3, <4>5
    <3> QED
      BY <3>3, <3>4
  <2>2. \A s \in Sections : \A b, c \in InCall(s)' : b = c
    BY <1>9 DEF CallsLive
  <2>3. \A p \in Places : \A d \in DOMAIN Held(p)' : Held(p)'[d].group = Outer => ~Idle(Main)'
    BY <1>13
  <2>4. \A s \in Sections : \A p \in Places : \A d \in DOMAIN Held(p)' :
            Held(p)'[d].group = s => InCall(s)' # {}
    BY <1>5, <1>9, <1>10, <2>1 DEF CallsLive
  <2>5. \A s \in Sections : ~success'[s] => InCall(s)' # {}
    BY <1>1, <1>9, <1>10 DEF CallsLive
  <2> QED
    BY <2>2, <2>3, <2>4, <2>5 DEF CallsLive
<1>15. EndsMatch'
  <2>1. _stop <=> \E b \in Agents : Len(frames[b]) = 2 /\ frames[b][2].at = "exit"
    BY DEF EndsMatch
  <2>2. frames[a][2].at # "exit"
    BY <1>1, <1>4
  <2>3. Len(frames'[a]) # 2 /\ \A b \in Agents : b # a => frames'[b] = frames[b]
    BY <1>5
  <2>4. _stop' <=> \E b \in Agents : Len(frames'[b]) = 2 /\ frames'[b][2].at = "exit"
    BY <1>1, <2>1, <2>2, <2>3
  <2> QED
    BY <1>1, <1>13, <2>4 DEF EndsMatch
<1> QED
  BY <1>3, <1>11, <1>12, <1>14, <1>15

LEMMA CommitStep ==
    ASSUME IInv, ~Over, Commit
    PROVE  IInv'
<1> USE DEF IInv
<1>0. Main \in Agents /\ Main \in Places
  BY PlaceFacts
<1>1. /\ ~Idle(Main) /\ Top(Main).at = "sync" /\ Top(Main).group = Outer
      /\ _latch[Outer] = 0 /\ Leaves(Main) /\ status' = "committed"
      /\ UNCHANGED <<size, _workStack, _latch, written, success, _stop, left>>
  BY DEF Commit, Synced, At
<1>2. Top(Main).begin = Top(Main).end /\ Len(frames[Main]) = 1
  BY <1>0, <1>1, TopFacts
<1>3. /\ SizesFit' /\ FramesNest' /\ RangesFit' /\ ElementsOnce' /\ EndsDiffer'
      /\ WritesExact'
  BY <1>0, <1>1, <1>2, Leave
<1>4. /\ frames' \in [Agents -> Seq(Frame)]
      /\ \A b \in Agents : b # Main => frames'[b] = frames[b]
  BY <1>0, <1>1, LeavesEffect
<1>5. Len(frames'[Main]) = 0
  <2>1. Len(frames'[Main]) = Len(frames[Main]) - 1
    BY <1>0, <1>1, LeavesEffect
  <2> QED
    BY <1>2, <2>1
<1>6. Queued(Outer) = {} /\ Running(Outer) = {}
  BY <1>1, GroupSets, GroupFacts
<1>7. \A b \in Agents : Len(frames[b]) # 2
  BY <1>2, <1>6, FrameTypes, PlaceFacts DEF FramesNest, Running
<1>8. \A g : InCall(g) = {}
  BY <1>7 DEF InCall
<1>9. \A p \in Places : \A d \in DOMAIN Held(p) : Held(p)[d].group = Outer
  BY <1>8, HeldTypes, GroupFacts DEF CallsLive
<1>10. _workStack = <<>>
  <2>1. DOMAIN _workStack = {}
    BY <1>6, <1>9, PlaceFacts DEF Held, Queued
  <2>2. _workStack \in Seq(Closure)
    BY DEF TypeOK
  <2>3. Len(_workStack) = 0
    BY <2>1, <2>2
  <2> QED
    BY <2>2, <2>3
<1>11. \A w \in Workers : frames[w] = <<>>
  <2>1. ASSUME NEW w \in Workers, ~Idle(w) PROVE FALSE
    <3>1. w \in Agents /\ w \in Places /\ Held(w) = frames[w]
      BY PlaceFacts DEF Held
    <3>2. Len(frames[w]) = 1 /\ 1 \in DOMAIN frames[w]
      BY <1>7, <2>1, <3>1, FrameTypes, TopFacts
    <3> QED
      BY <1>6, <1>9, <2>1, <3>1, <3>2 DEF Running
  <2> QED
    BY <2>1 DEF Idle
<1>12. \A b \in Agents : frames'[b] = <<>>
  <2>1. frames'[Main] \in Seq(Frame)
    BY <1>0, <1>4
  <2>2. frames'[Main] = <<>>
    BY <1>5, <2>1
  <2> QED
    BY <1>4, <1>11, <2>2, PlaceFacts
<1>13. \A p \in Places : Held(p)' = <<>>
  BY <1>1, <1>10, <1>12, PlaceFacts DEF Held
<1>14. TypeOK'
  BY <1>1, <1>4 DEF TypeOK
<1>15. LatchExact'
  <2>1. \A g : Queued(g)' = Queued(g)
    BY <1>1 DEF Queued
  <2>2. \A g : Running(g)' = Running(g)
    BY <1>11, <1>12, PlaceFacts DEF Running, Idle
  <2> QED
    BY <1>1, <2>1, <2>2 DEF LatchExact
<1>16. \A b \in Agents : Len(frames'[b]) = 0
  BY <1>12
<1>17. CallsLive'
  <2>1. \A s \in Sections : InCall(s)' = {} /\ success[s]
    BY <1>8, <1>16 DEF InCall, CallsLive
  <2>2. \A p \in Places : DOMAIN Held(p)' = {}
    BY <1>13
  <2> QED
    BY <1>1, <2>1, <2>2 DEF CallsLive
<1>18. EndsMatch'
  BY <1>1, <1>7, <1>13, <1>16 DEF EndsMatch
<1> QED
  BY <1>3, <1>14, <1>15, <1>17, <1>18

\* What the invariant says of calls, closures and elements holds on when none
\* of them changes.
LEMMA SameCalls ==
    ASSUME IInv, UNCHANGED <<size, _workStack, _latch, frames, written, success>>
    PROVE  /\ SizesFit' /\ FramesNest' /\ RangesFit' /\ ElementsOnce' /\ EndsDiffer'
           /\ LatchExact' /\ CallsLive' /\ WritesExact'
<1> USE DEF IInv
<1>1. \A p : Held(p)' = Held(p)
  BY DEF Held
<1>2. \A g : Queued(g)' = Queued(g) /\ Running(g)' = Running(g) /\ InCall(g)' = InCall(g)
  BY DEF Queued, Running, InCall, Idle
<1>3. \A g, x : Todo(g, x)' <=> Todo(g, x)
  BY <1>1 DEF Todo
<1>4. Idle(Main)' <=> Idle(Main)
  BY DEF Idle
<1>5. SizesFit' /\ FramesNest'
  BY DEF SizesFit, FramesNest
<1>6. RangesFit'
  BY <1>1 DEF RangesFit
<1>7. ElementsOnce'
  BY <1>1 DEF ElementsOnce
<1>8. EndsDiffer'
  BY <1>1 DEF EndsDiffer
<1>9. LatchExact'
  BY <1>2 DEF LatchExact
<1>10. CallsLive'
  BY <1>1, <1>2, <1>4 DEF CallsLive
<1>11. WritesExact'
  BY <1>1, <1>3 DEF WritesExact
<1> QED
  BY <1>5, <1>6, <1>7, <1>8, <1>9, <1>10, <1>11

LEMMA LeaveWorkStep ==
    ASSUME IInv, ~Over, NEW w \in Workers, LeaveWork(w)
    PROVE  IInv'
<1> USE DEF IInv
<1>1. /\ _stop /\ left' = left \cup {w}
      /\ UNCHANGED <<size, _workStack, _latch, frames, written, success, _stop, status>>
  BY DEF LeaveWork
<1>2. TypeOK'
  BY <1>1 DEF TypeOK
<1>3. EndsMatch'
  BY <1>1 DEF EndsMatch, Held, Idle
<1> QED
  BY <1>1, <1>2, <1>3, SameCalls

LEMMA ExitReturnsStep ==
    ASSUME IInv, ~Over, NEW a \in Agents, ExitReturns(a)
    PROVE  IInv'
<1> USE DEF IInv
<1>1. /\ status' = "exited"
      /\ UNCHANGED <<size, _workStack, _latch, frames, written, success, _stop, left>>
  BY DEF ExitReturns
<1>2. TypeOK'
  BY <1>1 DEF TypeOK
<1>3. EndsMatch'
  BY <1>1, NotIdleMain DEF EndsMatch, Held, Idle
<1> QED
  BY <1>1, <1>2, <1>3, SameCalls

LEMMA ForEachStutter ==
    ASSUME IInv, UNCHANGED vars
    PROVE  IInv'
<1> USE DEF IInv
<1>1. UNCHANGED <<size, _workStack, _latch, frames, written, success, _stop, left, status>>
  BY DEF vars
<1>2. TypeOK'
  BY <1>1 DEF TypeOK
<1>3. EndsMatch'
  BY <1>1 DEF EndsMatch, Held, Idle
<1> QED
  BY <1>1, <1>2, <1>3, SameCalls

\* A worker takes the closure on top of the stack: a range changes its place.
LEMMA TakeEffect ==
    ASSUME IInv, NEW w \in Workers, TakeClosure(w)
    PROVE  LET n == Len(_workStack)
               f == frames'[w][1]
               c == _workStack[n]
           IN  /\ frames' \in [Agents -> Seq(Frame)] /\ _workStack' \in Seq(Closure)
               /\ n \in DOMAIN Held(Stack) /\ Held(Stack)[n] = c /\ c.group \in Groups
               /\ f \in Frame /\ Len(frames'[w]) = 1 /\ DOMAIN frames'[w] = {1}
               /\ f.group = c.group /\ f.begin = c.begin /\ f.end = c.end
               /\ f.kind = "closure" /\ f.at = "each"
               /\ \A b \in Agents : b # w => frames'[b] = frames[b]
               /\ frames[w] = <<>> /\ Len(frames[w]) = 0 /\ DOMAIN frames[w] = {}
               /\ DOMAIN _workStack' = DOMAIN _workStack \ {n} /\ n \in DOMAIN _workStack
               /\ \A i \in DOMAIN _workStack' : _workStack'[i] = _workStack[i]
               /\ Held(w)' = frames'[w]
               /\ \A p \in Places : \A d \in DOMAIN Held(p)' :
                      \/ p = w /\ d = 1
                      \/ /\ p # w /\ d \in DOMAIN Held(p) /\ Held(p)'[d] = Held(p)[d]
                         /\ p # Stack \/ d # n
               /\ \A p \in Places : \A d \in DOMAIN Held(p) :
                      \/ p = Stack /\ d = n
                      \/ p # w /\ d \in DOMAIN Held(p)' /\ Held(p)'[d] = Held(p)[d]
<1> USE DEF IInv
<1> DEFINE n == Len(_workStack)
           c == _workStack[n]
           f == [group |-> c.group, begin |-> c.begin, end |-> c.end,
                 kind |-> "closure", at |-> "each"]
           r == SubSeq(_workStack, 1, n - 1)
<1>1. /\ Idle(w) /\ _workStack # <<>> /\ frames' = [frames EXCEPT ![w] = <<f>>]
      /\ _workStack' = r
  BY DEF TakeClosure
<1>2. w \in Agents /\ w \in Places /\ w # Stack /\ Stack \in Places
  BY PlaceFacts
<1>3. _workStack \in Seq(Closure) /\ frames \in [Agents -> Seq(Frame)]
  BY DEF TypeOK
<1>4. n \in Nat /\ n # 0 /\ DOMAIN _workStack = 1 .. n
  BY <1>1, <1>3
<1>5. n \in 1 .. n /\ c \in Closure
  BY <1>3, <1>4
<1>6. c.group \in Groups /\ c.begin \in Nat /\ c.end \in Nat
  BY <1>5 DEF Closure
<1>7. /\ f \in Frame /\ f.group = c.group /\ f.begin = c.begin /\ f.end = c.end
      /\ f.kind = "closure" /\ f.at = "each"
  BY <1>6 DEF Frame
<1>8. r \in Seq(Closure) /\ Len(r) = n - 1 /\ \A d \in 1 .. n - 1 : r[d] = _workStack[d]
  BY <1>3, <1>4, FrontOf
<1> HIDE DEF f, c, r
<1>9. <<f>> \in Seq(Frame) /\ Len(<<f>>) = 1 /\ DOMAIN <<f>> = {1} /\ <<f>>[1] = f
  BY <1>7
<1>10. frames'[w] = <<f>> /\ \A b \in Agents : b # w => frames'[b] = frames[b]
  BY <1>1, <1>2, <1>3
<1>11. frames' \in [Agents -> Seq(Frame)]
  BY <1>1, <1>3, <1>9
<1>12. frames[w] = <<>> /\ Len(frames[w]) = 0 /\ DOMAIN frames[w] = {}
  BY <1>1 DEF Idle
<1>13. DOMAIN r = 1 .. n - 1
  BY <1>8
<1> HIDE DEF n
<1>14. DOMAIN r = DOMAIN _workStack \ {n} /\ n \in DOMAIN _workStack
  BY <1>4, <1>5, <1>13
<1>15. \A i \in DOMAIN r : r[i] = _workStack[i]
  BY <1>8, <1>13
<1>16. \A b \in Agents : Held(b) = frames[b] /\ Held(b)' = frames'[b]
  BY PlaceFacts DEF Held
<1>17. Held(Stack) = _workStack /\ Held(Stack)' = r
  BY <1>1 DEF Held
<1>18. \A p \in Places : \A d \in DOMAIN Held(p)' :
           \/ p = w /\ d = 1
           \/ /\ p # w /\ d \in DOMAIN Held(p) /\ Held(p)'[d] = Held(p)[d]
              /\ p # Stack \/ d # n
  BY <1>2, <1>9, <1>10, <1>14, <1>15, <1>16, <1>17, PlaceFacts
<1>19. \A p \in Places : \A d \in DOMAIN Held(p) :
           \/ p = Stack /\ d = n
           \/ p # w /\ d \in DOMAIN Held(p)' /\ Held(p)'[d] = Held(p)[d]
  BY <1>2, <1>10, <1>12, <1>14, <1>15, <1>16, <1>17, PlaceFacts
<1>20. _workStack[n] = c /\ frames'[w][1] = f
  BY <1>9, <1>10 DEF c
<1> QED
  BY <1>1, <1>2, <1>6, <1>7, <1>8, <1>9, <1>10, <1>11, <1>12, <1>14, <1>15, <1>16, <1>17, <1>18,
     <1>19, <1>20 DEF n

LEMMA TakeClosureStep ==
    ASSUME IInv, ~Over, NEW w \in Workers, TakeClosure(w)
    PROVE  IInv'
<1> USE DEF IInv
<1> DEFINE n == Len(_workStack)
           c == _workStack[n]
           f == frames'[w][1]
<1>1. UNCHANGED <<size, _latch, written, success, _stop, left, status>>
  BY DEF TakeClosure
<1>2. /\ frames' \in [Agents -> Seq(Frame)] /\ _workStack' \in Seq(Closure)
      /\ n \in DOMAIN Held(Stack) /\ Held(Stack)[n] = c /\ c.group \in Groups
      /\ f \in Frame /\ Len(frames'[w]) = 1 /\ DOMAIN frames'[w] = {1}
      /\ f.group = c.group /\ f.begin = c.begin /\ f.end = c.end
      /\ f.kind = "closure" /\ f.at = "each"
      /\ \A b \in Agents : b # w => frames'[b] = frames[b]
      /\ frames[w] = <<>> /\ Len(frames[w]) = 0 /\ DOMAIN frames[w] = {}
      /\ DOMAIN _workStack' = DOMAIN _workStack \ {n} /\ n \in DOMAIN _workStack
      /\ \A i \in DOMAIN _workStack' : _workStack'[i] = _workStack[i]
      /\ Held(w)' = frames'[w]
  BY TakeEffect
<1>3. \A p \in Places : \A d \in DOMAIN Held(p)' :
          \/ p = w /\ d = 1
          \/ /\ p # w /\ d \in DOMAIN Held(p) /\ Held(p)'[d] = Held(p)[d]
             /\ p # Stack \/ d # n
  BY TakeEffect
<1>4. \A p \in Places : \A d \in DOMAIN Held(p) :
          \/ p = Stack /\ d = n
          \/ p # w /\ d \in DOMAIN Held(p)' /\ Held(p)'[d] = Held(p)[d]
  BY TakeEffect
<1>5. /\ w \in Agents /\ w \in Places /\ w # Stack /\ Stack \in Places /\ w # Main
  BY PlaceFacts
<1>6. /\ 1 \in DOMAIN Held(w)' /\ Held(w)'[1] = f
      /\ Held(Stack)[n].group = f.group /\ Held(Stack)[n].begin = f.begin
      /\ Held(Stack)[n].end = f.end /\ f.begin \in Nat /\ f.end \in Nat
  BY <1>2, FrameFields
<1> HIDE DEF n, c, f
<1>7. TypeOK'
  BY <1>1, <1>2 DEF TypeOK
<1>8. SizesFit'
  BY <1>1 DEF SizesFit
<1>9. FramesNest'
  <2>1. /\ Len(frames'[w]) = 1 /\ frames'[w][1].kind = "closure" /\ frames'[w][1].at = "each"
    BY <1>2 DEF f
  <2>2. \A b \in Agents : b # w => frames'[b] = frames[b]
    BY <1>2
  <2> QED
    BY <1>5, <2>1, <2>2 DEF FramesNest
<1>10. RangesFit'
  <2>1. ASSUME NEW p \in Places, NEW d \in DOMAIN Held(p)'
        PROVE  /\ Held(p)'[d].begin <= Held(p)'[d].end
               /\ Held(p)'[d].end <= size[Held(p)'[d].group]
    <3>1. CASE p = w /\ d = 1
      BY <1>2, <1>5, <1>6, <3>1 DEF RangesFit
    <3>2. CASE ~(p = w /\ d = 1)
      BY <1>3, <3>2 DEF RangesFit
    <3> QED
      BY <3>1, <3>2
  <2>2. ASSUME NEW b \in Agents, NEW d \in DOMAIN frames'[b]
        PROVE  /\ frames'[b][d].kind = "call" => frames'[b][d].end = size[frames'[b][d].group]
               /\ frames'[b][d].at \in {"sync", "exit"} => frames'[b][d].begin = frames'[b][d].end
               /\ frames'[b][d].at = "exit" => d = 2
    <3>1. CASE b = w
      BY <1>2, <3>1 DEF f
    <3>2. CASE b # w
      BY <1>2, <3>2 DEF RangesFit
    <3> QED
      BY <3>1, <3>2
  <2> QED
    BY <1>1, <2>1, <2>2 DEF RangesFit
<1>11. ElementsOnce'
  <2> SUFFICES ASSUME NEW p \in Places, NEW q \in Places,
                      NEW d \in DOMAIN Held(p)', NEW e \in DOMAIN Held(q)',
                      Held(p)'[d].group = Held(q)'[e].group,
                      Held(p)'[d].begin < Held(q)'[e].end, Held(q)'[e].begin < Held(p)'[d].end,
                      Held(p)'[d].begin < Held(p)'[d].end, Held(q)'[e].begin < Held(q)'[e].end
               PROVE  p = q /\ d = e
    BY DEF ElementsOnce
  <2>1. CASE p = w /\ q = w
    BY <1>3, <2>1
  <2>2. CASE p = w /\ q # w
    <3>1. d = 1 /\ e \in DOMAIN Held(q) /\ Held(q)'[e] = Held(q)[e] /\ (q # Stack \/ e # n)
      BY <1>3, <2>2
    <3>2. Stack = q /\ n = e
      BY <1>2, <1>5, <1>6, <2>2, <3>1 DEF ElementsOnce
    <3> QED
      BY <3>1, <3>2
  <2>3. CASE p # w /\ q = w
    <3>1. e = 1 /\ d \in DOMAIN Held(p) /\ Held(p)'[d] = Held(p)[d] /\ (p # Stack \/ d # n)
      BY <1>3, <2>3
    <3>2. p = Stack /\ d = n
      BY <1>2, <1>5, <1>6, <2>3, <3>1 DEF ElementsOnce
    <3> QED
      BY <3>1, <3>2
  <2>4. CASE p # w /\ q # w
    <3>1. /\ d \in DOMAIN Held(p) /\ Held(p)'[d] = Held(p)[d]
          /\ e \in DOMAIN Held(q) /\ Held(q)'[e] = Held(q)[e]
      BY <1>3, <2>4
    <3> QED
      BY <3>1 DEF ElementsOnce
  <2> QED
    BY <2>1, <2>2, <2>3, <2>4
<1>12. EndsDiffer'
  <2>1. \A p \in Workers \cup {Stack} : p \in Places
    BY PlaceFacts
  <2>2. ASSUME NEW p \in Workers \cup {Stack}, NEW q \in Workers \cup {Stack},
               NEW d \in DOMAIN Held(p)', NEW e \in DOMAIN Held(q)',
               p # Stack => d = 1, q # Stack => e = 1,
               Held(p)'[d].group = Held(q)'[e].group, Held(p)'[d].end = Held(q)'[e].end
        PROVE  p = q /\ d = e
    <3>1. CASE p = w /\ q = w
      BY <1>3, <1>5, <3>1
    <3>2. CASE p = w /\ q # w
      <4>1. e \in DOMAIN Held(q) /\ Held(q)'[e] = Held(q)[e] /\ (q # Stack \/ e # n) /\ d = 1
        BY <1>3, <2>1, <3>2
      <4>2. /\ Held(q)[e].group = Held(Stack)[n].group /\ Held(q)[e].end = Held(Stack)[n].end
            /\ q # Stack => e = 1
        BY <1>6, <2>2, <3>2, <4>1
      <4>3. n \in DOMAIN Held(Stack) /\ e \in DOMAIN Held(q)
            /\ Stack \in Workers \cup {Stack} /\ q \in Workers \cup {Stack}
        BY <1>2, <4>1
      <4>4. \A u, v \in Workers \cup {Stack} : \A i \in DOMAIN Held(u), j \in DOMAIN Held(v) :
                /\ u # Stack => i = 1
                /\ v # Stack => j = 1
                /\ Held(u)[i].group = Held(v)[j].group /\ Held(u)[i].end = Held(v)[j].end
                => u = v /\ i = j
        BY DEF EndsDiffer
      <4>5. q = Stack /\ e = n
        BY ONLY <4>2, <4>3, <4>4
      <4> QED
        BY <4>1, <4>5
    <3>3. CASE p # w /\ q = w
      <4>1. d \in DOMAIN Held(p) /\ Held(p)'[d] = Held(p)[d] /\ (p # Stack \/ d # n) /\ e = 1
        BY <1>3, <2>1, <3>3
      <4>2. p = Stack /\ d = n
        BY <1>2, <1>5, <1>6, <2>2, <3>3, <4>1 DEF EndsDiffer
      <4> QED
        BY <4>1, <4>2
    <3>4. CASE p # w /\ q # w
      BY <1>3, <2>1, <2>2, <3>4 DEF EndsDiffer
    <3> QED
      BY <3>1, <3>2, <3>3, <3>4
  <2>3. ASSUME NEW p \in Workers \cup {Stack}, NEW b \in Agents,
               NEW d \in DOMAIN Held(p)', NEW e \in DOMAIN frames'[b],
               p # Stack => d = 1, frames'[b][e].kind = "call",
               frames'[b][e].group = Held(p)'[d].group
        PROVE  Held(p)'[d].end <= frames'[b][e].begin
    <3>1. b # w
      BY <1>2, <2>3 DEF f
    <3>2. frames'[b] = frames[b]
      BY <1>2, <3>1
    <3>3. CASE p = w
      <4>1. d = 1
        BY <1>3, <2>1, <3>3
      <4> QED
        BY <1>2, <1>6, <2>3, <3>2, <3>3, <4>1 DEF EndsDiffer
    <3>4. CASE p # w
      BY <1>3, <2>1, <2>3, <3>2, <3>4 DEF EndsDiffer
    <3> QED
      BY <3>3, <3>4
  <2> QED
    BY <2>2, <2>3 DEF EndsDiffer
<1>13. Idle(w) /\ ~Idle(w)' /\ \A b \in Agents : b # w => (Idle(b)' <=> Idle(b))
  BY <1>2 DEF Idle
<1>14. \A g : InCall(g)' = InCall(g)
  <2>1. \A b \in Agents : b # w => frames'[b] = frames[b]
    BY <1>2
  <2>2. Len(frames'[w]) # 2 /\ Len(frames[w]) # 2
    BY <1>2
  <2> QED
    BY <2>1, <2>2 DEF InCall
<1>15. LatchExact'
  <2>1. ASSUME NEW g \in Groups
        PROVE  _latch[g] = Cardinality(Queued(g)') + Cardinality(Running(g)')
    <3>1. /\ IsFiniteSet(Queued(g)) /\ IsFiniteSet(Running(g))
          /\ Cardinality(Queued(g)) \in Nat /\ Cardinality(Running(g)) \in Nat
          /\ _latch[g] = Cardinality(Queued(g)) + Cardinality(Running(g))
      BY GroupSets
    <3>2. CASE g # c.group
      <4>1. Queued(g)' = Queued(g)
        BY <1>2, <3>2 DEF Queued, c
      <4>2. Running(g)' = Running(g)
        BY <1>2, <1>13, <3>2, PlaceFacts DEF Running, f
      <4> QED
        BY <3>1, <4>1, <4>2
    <3>3. CASE g = c.group
      <4>1. Queued(g)' = Queued(g) \ {n} /\ n \in Queued(g)
        BY <1>2, <3>3 DEF Queued, c
      <4>2. Running(g)' = Running(g) \cup {w} /\ w \notin Running(g)
        BY <1>2, <1>13, <3>3, PlaceFacts DEF Running, f
      <4>3. Cardinality(Queued(g) \ {n}) = Cardinality(Queued(g)) - 1
        BY <3>1, <4>1, FS_RemoveElement
      <4>4. Cardinality(Running(g) \cup {w}) = Cardinality(Running(g)) + 1
        BY <3>1, <4>2, FS_AddElement
      <4> QED
        BY <3>1, <4>1, <4>2, <4>3, <4>4
    <3> QED
      BY <3>2, <3>3
  <2> QED
    BY <1>1, <2>1 DEF LatchExact
<1>16. ~Idle(Main)' /\ status # "committed"
  BY <1>5, <1>13, NotIdleMain, PlaceFacts
<1>17. \A p \in Places : \A d \in DOMAIN Held(p)' :
           \E q \in Places : \E e \in DOMAIN Held(q) :
               /\ Held(p)'[d].group = Held(q)[e].group
               /\ Held(p)'[d].begin = Held(q)[e].begin /\ Held(p)'[d].end = Held(q)[e].end
  <2>1. ASSUME NEW p \in Places, NEW d \in DOMAIN Held(p)'
        PROVE  \E q \in Places : \E e \in DOMAIN Held(q) :
                   /\ Held(p)'[d].group = Held(q)[e].group
                   /\ Held(p)'[d].begin = Held(q)[e].begin /\ Held(p)'[d].end = Held(q)[e].end
    <3>1. CASE p = w /\ d = 1
      BY <1>2, <1>5, <1>6, <3>1
    <3>2. CASE ~(p = w /\ d = 1)
      BY <1>3, <3>2
    <3> QED
      BY <3>1, <3>2
  <2> QED
    BY <2>1
<1>18. CallsLive'
  <2>1. \A s \in Sections : \A b, e \in InCall(s)' : b = e
    BY <1>14 DEF CallsLive
  <2>2. \A s \in Sections : \A p \in Places : \A d \in DOMAIN Held(p)' :
            Held(p)'[d].group = s => InCall(s)' # {}
    BY <1>14, <1>17 DEF CallsLive
  <2>3. \A s \in Sections : ~success'[s] => InCall(s)' # {}
    BY <1>1, <1>14 DEF CallsLive
  <2> QED
    BY <1>16, <2>1, <2>2, <2>3 DEF CallsLive
<1>19. WritesExact'
  <2>1. ASSUME NEW g, NEW x \in Nat PROVE Todo(g, x)' <=> Todo(g, x)
    <3>1. Todo(g, x)' => Todo(g, x)
      BY <1>17 DEF Todo
    <3>2. ASSUME Todo(g, x) PROVE Todo(g, x)'
      <4>1. PICK p \in Places : \E d \in DOMAIN Held(p) :
                Held(p)[d].group = g /\ Held(p)[d].begin <= x /\ x < Held(p)[d].end
        BY <3>2 DEF Todo
      <4>2. PICK d \in DOMAIN Held(p) :
                Held(p)[d].group = g /\ Held(p)[d].begin <= x /\ x < Held(p)[d].end
        BY <4>1
      <4>3. CASE p = Stack /\ d = n
        BY <1>5, <1>6, <4>2, <4>3 DEF Todo
      <4>4. CASE ~(p = Stack /\ d = n)
        BY <1>4, <4>2, <4>4 DEF Todo
      <4> QED
        BY <4>3, <4>4
    <3> QED
      BY <3>1, <3>2
  <2>2. ASSUME NEW s \in Sections, Todo(Outer, s - 1)',
               NEW p \in Places, NEW d \in DOMAIN Held(p)'
        PROVE  Held(p)'[d].group # s
    BY <1>17, <2>1, <2>2, GroupFacts DEF WritesExact
  <2>3. ASSUME NEW s \in Sections, NEW i \in 0 .. size[s] - 1
        PROVE  written[s][i] = IF Todo(Outer, s - 1)' \/ Todo(s, i)' THEN 0 ELSE 1
    <3>1. i \in Nat /\ s - 1 \in Nat
      BY GroupFacts DEF TypeOK
    <3>2. written[s][i] = IF Todo(Outer, s - 1) \/ Todo(s, i) THEN 0 ELSE 1
      BY DEF WritesExact
    <3> QED
      BY <2>1, <3>1, <3>2
  <2> QED
    BY <1>1, <2>2, <2>3 DEF WritesExact
<1>20. EndsMatch'
  <2>1. _stop <=> \E b \in Agents : Len(frames[b]) = 2 /\ frames[b][2].at = "exit"
    BY DEF EndsMatch
  <2>2. /\ Len(frames'[w]) # 2 /\ Len(frames[w]) # 2
        /\ \A b \in Agents : b # w => frames'[b] = frames[b]
    BY <1>2
  <2>3. _stop' <=> \E b \in Agents : Len(frames'[b]) = 2 /\ frames'[b][2].at = "exit"
    BY <1>1, <2>1, <2>2
  <2> QED
    BY <1>1, <1>16, <2>3 DEF EndsMatch
<1> QED
  BY <1>7, <1>8, <1>9, <1>10, <1>11, <1>12, <1>15, <1>18, <1>19, <1>20

\* One call at most is in the range of a group.
LEMMA OneCall ==
    ASSUME IInv, NEW a \in Agents, NEW b \in Agents,
           NEW d \in DOMAIN frames[a], NEW e \in DOMAIN frames[b],
           frames[a][d].kind = "call", frames[b][e].kind = "call",
           frames[a][d].group = frames[b][e].group
    PROVE  a = b /\ d = e
<1> USE DEF IInv
<1>1. ASSUME NEW x \in Agents, NEW i \in DOMAIN frames[x], frames[x][i].kind = "call"
      PROVE  \/ x = Main /\ i = 1 /\ frames[x][i].group = Outer
             \/ i = 2 /\ Len(frames[x]) = 2 /\ frames[x][i].group \in Sections
  <2>1. i \in 1 .. Len(frames[x]) /\ Len(frames[x]) \in 0 .. 2
    BY FrameTypes DEF FramesNest
  <2> QED
    BY <1>1, <2>1 DEF FramesNest
<1>2. CASE frames[a][d].group = Outer
  BY <1>1, <1>2, GroupFacts
<1>3. CASE frames[a][d].group # Outer
  <2>1. /\ d = 2 /\ Len(frames[a]) = 2 /\ frames[a][d].group \in Sections
        /\ e = 2 /\ Len(frames[b]) = 2
    BY <1>1, <1>3
  <2>2. a \in InCall(frames[a][2].group) /\ b \in InCall(frames[a][2].group)
    BY <2>1 DEF InCall
  <2> QED
    BY <2>1, <2>2 DEF CallsLive
<1> QED
  BY <1>2, <1>3

\* A call gives the next taskSize elements of its range away.
LEMMA SpawnEffect ==
    ASSUME IInv, NEW a \in Agents, SpawnTask(a)
    PROVE  LET n == Len(frames[a])
               m == Len(_workStack) + 1
               f == frames'[a][n]
               c == _workStack'[m]
           IN  /\ ~Idle(a) /\ frames' \in [Agents -> Seq(Frame)] /\ _workStack' \in Seq(Closure)
               /\ f \in Frame /\ c \in Closure /\ f.kind = "call" /\ f.at = "spawn"
               /\ Top(a).kind = "call" /\ Top(a).at = "spawn"
               /\ f.group = Top(a).group /\ c.group = Top(a).group /\ f.end = Top(a).end
               /\ c.begin = Top(a).begin /\ c.end = f.begin
               /\ Top(a).begin < f.begin /\ f.begin <= f.end
               /\ \A b \in Agents : /\ Len(frames'[b]) = Len(frames[b])
                                    /\ DOMAIN frames'[b] = DOMAIN frames[b]
                                    /\ Idle(b)' <=> Idle(b)
               /\ \A b \in Agents : \A d \in DOMAIN frames[b] :
                      b # a \/ d # n => frames'[b][d] = frames[b][d]
               /\ frames[a][n] = Top(a) /\ n \in DOMAIN frames[a]
               /\ DOMAIN _workStack' = DOMAIN _workStack \cup {m} /\ m \notin DOMAIN _workStack
               /\ \A i \in DOMAIN _workStack : _workStack'[i] = _workStack[i]
<1> USE DEF IInv
<1> DEFINE n == Len(frames[a])
           m == Len(_workStack) + 1
           t == Top(a)
           last == t.begin + taskSize
           c == [group |-> t.group, begin |-> t.begin, end |-> last]
           f == [t EXCEPT !.begin = last]
<1>1. /\ ~Idle(a) /\ t.at = "spawn" /\ taskSize <= t.end - t.begin
      /\ _workStack' = Append(_workStack, c) /\ Becomes(a, f)
  BY DEF SpawnTask, At
<1>2. /\ t \in Frame /\ t.group \in Groups /\ t.begin \in Nat /\ t.end \in Nat
      /\ t.kind = "call"
  <2>1. /\ t \in Frame /\ t.group \in Groups /\ t.begin \in Nat /\ t.end \in Nat
        /\ t.kind = "closure" => t.at = "each"
    BY <1>1, TopFacts
  <2> QED
    BY <1>1, <2>1, FrameFields
<1>3. last \in Nat /\ t.begin < last /\ last <= t.end
  BY <1>1, <1>2, ForEachAssumption
<1> HIDE DEF last
<1>4. /\ f \in Frame /\ f.group = t.group /\ f.begin = last /\ f.end = t.end
      /\ f.kind = "call" /\ f.at = "spawn"
  BY <1>1, <1>2, <1>3 DEF Frame
<1>5. c \in Closure /\ c.group = t.group /\ c.begin = t.begin /\ c.end = last
  BY <1>2, <1>3 DEF Closure
<1> HIDE DEF f, c
<1>6. /\ frames' \in [Agents -> Seq(Frame)] /\ Len(frames'[a]) = n /\ frames'[a][n] = f
      /\ \A d \in 1 .. n : d # n => frames'[a][d] = frames[a][d]
      /\ \A b \in Agents \ {a} : frames'[b] = frames[b]
  BY <1>1, <1>4, BecomesEffect
<1>7. _workStack \in Seq(Closure)
  BY DEF TypeOK
<1>8. /\ _workStack' \in Seq(Closure) /\ Len(_workStack') = m
      /\ _workStack'[m] = c
      /\ \A i \in 1 .. Len(_workStack) : _workStack'[i] = _workStack[i]
  BY <1>1, <1>5, <1>7, AppendProperties
<1>9. DOMAIN _workStack = 1 .. Len(_workStack) /\ DOMAIN _workStack' = 1 .. m
      /\ Len(_workStack) \in Nat
  BY <1>7, <1>8
<1>10. DOMAIN _workStack' = DOMAIN _workStack \cup {m} /\ m \notin DOMAIN _workStack
  BY <1>9
<1>11. \A b \in Agents : /\ Len(frames'[b]) = Len(frames[b])
                         /\ frames[b] \in Seq(Frame) /\ frames'[b] \in Seq(Frame)
                         /\ DOMAIN frames[b] = 1 .. Len(frames[b])
                         /\ DOMAIN frames'[b] = 1 .. Len(frames'[b])
  BY <1>6, FrameTypes
<1>12. \A b \in Agents : Idle(b)' <=> Idle(b)
  BY <1>11 DEF Idle
<1>13. frames[a][n] = t /\ n \in DOMAIN frames[a]
  BY <1>1, FrameTypes DEF Top
<1>14. \A b \in Agents : \A d \in DOMAIN frames[b] :
           b # a \/ d # n => frames'[b][d] = frames[b][d]
  BY <1>6, <1>11
<1>15. \A b \in Agents : DOMAIN frames'[b] = DOMAIN frames[b]
  BY <1>11
<1> HIDE DEF n, m, t
<1>16. frames'[a][n] = f /\ _workStack'[m] = c
  BY <1>6, <1>8
<1>17. \A i \in DOMAIN _workStack : _workStack'[i] = _workStack[i]
  BY <1>8, <1>9
<1>18. f.kind = t.kind /\ f.at = t.at /\ t.kind = "call" /\ c.end = f.begin
       /\ t.begin < f.begin /\ f.begin <= f.end
  BY <1>1, <1>2, <1>3, <1>4, <1>5
<1> QED
  BY <1>1, <1>4, <1>5, <1>6, <1>8, <1>10, <1>11, <1>12, <1>13, <1>14, <1>15, <1>16, <1>17, <1>18
     DEF n, m, t

LEMMA SpawnTaskStep ==
    ASSUME IInv, ~Over, NEW a \in Agents, SpawnTask(a)
    PROVE  IInv'
<1> USE DEF IInv
<1> DEFINE n == Len(frames[a])
           m == Len(_workStack) + 1
           t == Top(a)
           f == frames'[a][n]
           c == _workStack'[m]
<1>1. /\ UNCHANGED <<size, written, success, _stop, left, status>>
      /\ _latch' = [_latch EXCEPT ![t.group] = @ + 1]
  BY DEF SpawnTask
<1>2. /\ ~Idle(a) /\ frames' \in [Agents -> Seq(Frame)] /\ _workStack' \in Seq(Closure)
      /\ f \in Frame /\ c \in Closure /\ f.kind = "call" /\ f.at = "spawn"
      /\ t.kind = "call" /\ t.at = "spawn"
      /\ f.group = t.group /\ c.group = t.group /\ f.end = t.end
      /\ c.begin = t.begin /\ c.end = f.begin
      /\ t.begin < f.begin /\ f.begin <= f.end
      /\ frames[a][n] = t /\ n \in DOMAIN frames[a]
      /\ DOMAIN _workStack' = DOMAIN _workStack \cup {m} /\ m \notin DOMAIN _workStack
      /\ \A i \in DOMAIN _workStack : _workStack'[i] = _workStack[i]
  BY SpawnEffect
<1>3. /\ \A b \in Agents : /\ Len(frames'[b]) = Len(frames[b])
                           /\ DOMAIN frames'[b] = DOMAIN frames[b]
                           /\ Idle(b)' <=> Idle(b)
      /\ \A b \in Agents : \A d \in DOMAIN frames[b] :
             b # a \/ d # n => frames'[b][d] = frames[b][d]
  BY SpawnEffect
<1>4. t.begin \in Nat /\ f.begin \in Nat /\ f.end \in Nat /\ t.group \in Groups
  BY <1>2, TopFacts, FrameFields
<1>5. /\ \A b \in Agents : Held(b) = frames[b] /\ Held(b)' = frames'[b]
      /\ Held(Stack) = _workStack /\ Held(Stack)' = _workStack'
      /\ a \in Agents /\ a \in Places /\ a # Stack /\ Stack \in Places
  BY PlaceFacts DEF Held
<1> HIDE DEF n, m, t, f, c
<1>6. /\ n \in DOMAIN Held(a) /\ Held(a)[n] = t
      /\ n \in DOMAIN Held(a)' /\ Held(a)'[n] = f
      /\ m \in DOMAIN Held(Stack)' /\ Held(Stack)'[m] = c
  BY <1>2, <1>3, <1>5 DEF f, c
<1>7. \A p \in Places : \A d \in DOMAIN Held(p)' :
          \/ p = Stack /\ d = m
          \/ p = a /\ d = n
          \/ d \in DOMAIN Held(p) /\ Held(p)'[d] = Held(p)[d] /\ ~(p = a /\ d = n)
  <2>1. ASSUME NEW d \in DOMAIN Held(Stack)', d # m
        PROVE  d \in DOMAIN Held(Stack) /\ Held(Stack)'[d] = Held(Stack)[d]
    BY <1>2, <1>5, <2>1
  <2>2. ASSUME NEW b \in Agents, NEW d \in DOMAIN Held(b)', ~(b = a /\ d = n)
        PROVE  d \in DOMAIN Held(b) /\ Held(b)'[d] = Held(b)[d]
    BY <1>3, <1>5, <2>2
  <2> QED
    BY <1>5, <2>1, <2>2, PlaceFacts
<1>8. \A p \in Places : \A d \in DOMAIN Held(p) :
          \/ p = a /\ d = n
          \/ d \in DOMAIN Held(p)' /\ Held(p)'[d] = Held(p)[d]
  <2>1. \A d \in DOMAIN Held(Stack) : d \in DOMAIN Held(Stack)' /\ Held(Stack)'[d] = Held(Stack)[d]
    BY <1>2, <1>5
  <2>2. ASSUME NEW b \in Agents, NEW d \in DOMAIN Held(b), ~(b = a /\ d = n)
        PROVE  d \in DOMAIN Held(b)' /\ Held(b)'[d] = Held(b)[d]
    BY <1>3, <1>5, <2>2
  <2> QED
    BY <2>1, <2>2, PlaceFacts
<1>9. \A p \in Places : \A d \in DOMAIN Held(p) :
          /\ Held(p)[d].group \in Groups /\ Held(p)[d].begin \in Nat /\ Held(p)[d].end \in Nat
  BY HeldTypes
<1>10. t.end \in Nat /\ f.end = t.end /\ f.group = t.group /\ c.begin = t.begin
       /\ c.end = f.begin /\ c.group = t.group
  BY <1>2, <1>4
<1>11. \A b \in Agents : \A d \in DOMAIN frames[b] :
           /\ d \in DOMAIN frames'[b]
           /\ frames'[b][d].group = frames[b][d].group /\ frames'[b][d].kind = frames[b][d].kind
           /\ frames'[b][d].at = frames[b][d].at /\ frames'[b][d].end = frames[b][d].end
           /\ b # a \/ d # n => frames'[b][d].begin = frames[b][d].begin
  <2>1. /\ f.group = frames[a][n].group /\ f.kind = frames[a][n].kind
        /\ f.at = frames[a][n].at /\ f.end = frames[a][n].end /\ frames'[a][n] = f
    BY <1>2 DEF f
  <2> QED
    BY <1>3, <2>1
<1>12. TypeOK'
  <2>1. _latch' \in [Groups -> Nat]
    <3>1. _latch \in [Groups -> Nat]
      BY DEF TypeOK
    <3>2. _latch[t.group] + 1 \in Nat
      BY <1>4, <3>1
    <3> QED
      BY <1>1, <3>1, <3>2
  <2> QED
    BY <1>1, <1>2, <2>1 DEF TypeOK
<1>13. SizesFit'
  BY <1>1 DEF SizesFit
<1>14. FramesNest'
  <2>1. \A b \in Agents : /\ Len(frames[b]) = 2 => 1 \in DOMAIN frames[b] /\ 2 \in DOMAIN frames[b]
                          /\ Len(frames[b]) # 0 => 1 \in DOMAIN frames[b]
    BY FrameTypes
  <2> QED
    BY <1>3, <1>11, <2>1 DEF FramesNest
<1>15. RangesFit'
  <2>1. ASSUME NEW p \in Places, NEW d \in DOMAIN Held(p)'
        PROVE  /\ Held(p)'[d].begin <= Held(p)'[d].end
               /\ Held(p)'[d].end <= size[Held(p)'[d].group]
    <3>1. t.end <= size[t.group] /\ size[t.group] \in Nat
      BY <1>4, <1>5, <1>6 DEF RangesFit, TypeOK
    <3>2. CASE p = a /\ d = n
      BY <1>2, <1>6, <3>1, <3>2
    <3>3. CASE p = Stack /\ d = m
      BY <1>2, <1>4, <1>6, <3>1, <3>3
    <3>4. CASE ~(p = a /\ d = n) /\ ~(p = Stack /\ d = m)
      BY <1>7, <3>4 DEF RangesFit
    <3> QED
      BY <3>2, <3>3, <3>4
  <2>2. ASSUME NEW b \in Agents, NEW d \in DOMAIN frames'[b]
        PROVE  /\ frames'[b][d].kind = "call" => frames'[b][d].end = size[frames'[b][d].group]
               /\ frames'[b][d].at \in {"sync", "exit"} => frames'[b][d].begin = frames'[b][d].end
               /\ frames'[b][d].at = "exit" => d = 2
    <3>1. CASE b = a /\ d = n
      BY <1>2, <1>3, <1>11, <3>1 DEF RangesFit, f
    <3>2. CASE ~(b = a /\ d = n)
      BY <1>3, <1>11, <3>2 DEF RangesFit
    <3> QED
      BY <3>1, <3>2
  <2> QED
    BY <1>1, <2>1, <2>2 DEF RangesFit
<1>16. ElementsOnce'
  <2>1. ASSUME NEW q \in Places, NEW e \in DOMAIN Held(q)', ~(q = Stack /\ e = m),
               Held(q)'[e].group = c.group,
               c.begin < Held(q)'[e].end, Held(q)'[e].begin < c.end,
               Held(q)'[e].begin < Held(q)'[e].end
        PROVE  FALSE
    <3>1. ~(q = a /\ e = n)
      BY <1>4, <1>6, <1>10, <2>1
    <3>2. e \in DOMAIN Held(q) /\ Held(q)'[e] = Held(q)[e]
      BY <1>7, <2>1, <3>1
    <3>3. Held(q)[e].begin \in Nat /\ Held(q)[e].end \in Nat
      BY <1>9, <3>2
    <3>4. t.begin < Held(q)[e].end /\ Held(q)[e].begin < t.end /\ t.begin < t.end
      BY <1>2, <1>4, <1>10, <2>1, <3>2, <3>3
    <3>5. q = a /\ e = n
      BY <1>5, <1>6, <1>10, <2>1, <3>2, <3>4 DEF ElementsOnce
    <3> QED
      BY <3>1, <3>5
  <2>2. ASSUME NEW p \in Places, NEW d \in DOMAIN Held(p)', ~(p = Stack /\ d = m)
        PROVE  /\ d \in DOMAIN Held(p) /\ Held(p)'[d].group = Held(p)[d].group
               /\ Held(p)'[d].end = Held(p)[d].end /\ Held(p)'[d].begin \in Nat
               /\ Held(p)[d].begin <= Held(p)'[d].begin
    <3>1. CASE p = a /\ d = n
      BY <1>2, <1>4, <1>6, <1>10, <3>1
    <3>2. CASE ~(p = a /\ d = n)
      BY <1>7, <1>9, <2>2, <3>2
    <3> QED
      BY <3>1, <3>2
  <2> SUFFICES ASSUME NEW p \in Places, NEW q \in Places,
                      NEW d \in DOMAIN Held(p)', NEW e \in DOMAIN Held(q)',
                      Held(p)'[d].group = Held(q)'[e].group,
                      Held(p)'[d].begin < Held(q)'[e].end, Held(q)'[e].begin < Held(p)'[d].end,
                      Held(p)'[d].begin < Held(p)'[d].end, Held(q)'[e].begin < Held(q)'[e].end
               PROVE  p = q /\ d = e
    BY DEF ElementsOnce
  <2>3. CASE p = Stack /\ d = m
    BY <1>6, <2>1, <2>3
  <2>4. CASE q = Stack /\ e = m
    BY <1>6, <2>1, <2>4
  <2>5. CASE ~(p = Stack /\ d = m) /\ ~(q = Stack /\ e = m)
    <3>1. /\ d \in DOMAIN Held(p) /\ e \in DOMAIN Held(q)
          /\ Held(p)[d].group = Held(q)[e].group
          /\ Held(p)[d].begin < Held(q)[e].end /\ Held(q)[e].begin < Held(p)[d].end
          /\ Held(p)[d].begin < Held(p)[d].end /\ Held(q)[e].begin < Held(q)[e].end
      <4>1. /\ d \in DOMAIN Held(p) /\ Held(p)'[d].group = Held(p)[d].group
            /\ Held(p)'[d].end = Held(p)[d].end /\ Held(p)'[d].begin \in Nat
            /\ Held(p)[d].begin <= Held(p)'[d].begin
        BY <2>2, <2>5
      <4>2. /\ e \in DOMAIN Held(q) /\ Held(q)'[e].group = Held(q)[e].group
            /\ Held(q)'[e].end = Held(q)[e].end /\ Held(q)'[e].begin \in Nat
            /\ Held(q)[e].begin <= Held(q)'[e].begin
        BY <2>2, <2>5
      <4>3. /\ Held(p)[d].begin \in Nat /\ Held(p)[d].end \in Nat
            /\ Held(q)[e].begin \in Nat /\ Held(q)[e].end \in Nat
        BY <1>9, <4>1, <4>2
      <4>4. Held(p)[d].begin < Held(q)[e].end /\ Held(p)[d].begin < Held(p)[d].end
        <5>1. Held(p)'[d].begin < Held(q)[e].end /\ Held(p)'[d].begin < Held(p)[d].end
          BY <4>1, <4>2
        <5> QED
          BY ONLY <4>1, <4>3, <5>1
      <4>5. Held(q)[e].begin < Held(p)[d].end /\ Held(q)[e].begin < Held(q)[e].end
        <5>1. Held(q)'[e].begin < Held(p)[d].end /\ Held(q)'[e].begin < Held(q)[e].end
          BY <4>1, <4>2
        <5> QED
          BY ONLY <4>2, <4>3, <5>1
      <4> QED
        BY <4>1, <4>2, <4>4, <4>5
    <3> QED
      BY <3>1 DEF ElementsOnce
  <2> QED
    BY <2>3, <2>4, <2>5
<1>17. EndsDiffer'
  <2>0. \A p \in Workers \cup {Stack} : p \in Places /\ (p # Stack => p \in Agents /\ p # Main)
    BY PlaceFacts
  <2>1. ASSUME a \in Workers, n = 1 PROVE FALSE
    <3>1. frames[a][1].kind = "call" /\ Len(frames[a]) = 1 /\ a # Main
      BY <1>2, <1>5, <2>0, <2>1 DEF n
    <3>2. frames[a][1].kind = "closure"
      BY <3>1 DEF FramesNest
    <3> QED
      BY <3>1, <3>2
  <2>2. ASSUME NEW p \in Workers \cup {Stack}, NEW d \in DOMAIN Held(p)',
               p # Stack => d = 1, ~(p = Stack /\ d = m)
        PROVE  d \in DOMAIN Held(p) /\ Held(p)'[d] = Held(p)[d]
    BY <1>5, <1>7, <2>0, <2>1, <2>2
  <2>3. ASSUME NEW p \in Workers \cup {Stack}, NEW d \in DOMAIN Held(p),
               p # Stack => d = 1, Held(p)[d].group = t.group
        PROVE  Held(p)[d].end <= t.begin
    BY <1>2, <1>5, <2>3 DEF EndsDiffer
  <2>4. ASSUME NEW p \in Workers \cup {Stack}, NEW d \in DOMAIN Held(p)',
               p # Stack => d = 1, ~(p = Stack /\ d = m), Held(p)'[d].group = c.group
        PROVE  Held(p)'[d].end # c.end
    <3>1. d \in DOMAIN Held(p) /\ Held(p)'[d] = Held(p)[d]
      BY <2>2, <2>4
    <3>2. Held(p)[d].end <= t.begin /\ Held(p)[d].end \in Nat
      BY <1>9, <1>10, <2>0, <2>3, <2>4, <3>1
    <3> QED
      BY <1>2, <1>4, <1>10, <3>1, <3>2
  <2>5. ASSUME NEW p \in Workers \cup {Stack}, NEW q \in Workers \cup {Stack},
               NEW d \in DOMAIN Held(p)', NEW e \in DOMAIN Held(q)',
               p # Stack => d = 1, q # Stack => e = 1,
               Held(p)'[d].group = Held(q)'[e].group, Held(p)'[d].end = Held(q)'[e].end
        PROVE  p = q /\ d = e
    <3>1. CASE p = Stack /\ d = m
      BY <1>6, <2>4, <2>5, <3>1
    <3>2. CASE q = Stack /\ e = m
      BY <1>6, <2>4, <2>5, <3>2
    <3>3. CASE ~(p = Stack /\ d = m) /\ ~(q = Stack /\ e = m)
      <4>1. /\ d \in DOMAIN Held(p) /\ Held(p)'[d] = Held(p)[d]
            /\ e \in DOMAIN Held(q) /\ Held(q)'[e] = Held(q)[e]
        BY <2>2, <2>5, <3>3
      <4> QED
        BY <2>5, <4>1 DEF EndsDiffer
    <3> QED
      BY <3>1, <3>2, <3>3
  <2>6. ASSUME NEW p \in Workers \cup {Stack}, NEW b \in Agents,
               NEW d \in DOMAIN Held(p)', NEW e \in DOMAIN frames'[b],
               p # Stack => d = 1, frames'[b][e].kind = "call",
               frames'[b][e].group = Held(p)'[d].group
        PROVE  Held(p)'[d].end <= frames'[b][e].begin
    <3>0. /\ e \in DOMAIN frames[b] /\ frames[b][e].kind = "call"
          /\ frames[b][e].group = Held(p)'[d].group
      BY <1>3, <1>11, <2>6
    <3>1. CASE p = Stack /\ d = m
      <4>1. b = a /\ e = n
        BY <1>2, <1>6, <1>10, <3>0, <3>1, OneCall
      <4> QED
        BY <1>4, <1>6, <1>10, <3>1, <4>1 DEF f
    <3>2. CASE ~(p = Stack /\ d = m)
      <4>1. d \in DOMAIN Held(p) /\ Held(p)'[d] = Held(p)[d]
        BY <2>2, <2>6, <3>2
      <4>2. Held(p)[d].end <= frames[b][e].begin
        BY <2>6, <3>0, <4>1 DEF EndsDiffer
      <4>3. CASE b = a /\ e = n
        <5>1. Held(p)[d].end <= t.begin /\ Held(p)[d].end \in Nat
          BY <1>2, <1>9, <2>0, <4>1, <4>2, <4>3
        <5>2. frames'[b][e].begin = f.begin
          BY <4>3 DEF f
        <5> QED
          BY <1>2, <1>4, <4>1, <5>1, <5>2
      <4>4. CASE ~(b = a /\ e = n)
        BY <1>3, <3>0, <4>1, <4>2, <4>4
      <4> QED
        BY <4>3, <4>4
    <3> QED
      BY <3>1, <3>2
  <2> QED
    BY <2>5, <2>6 DEF EndsDiffer
<1>18. \A g : Running(g)' = Running(g) /\ InCall(g)' = InCall(g)
  <2>1. \A b \in Agents : /\ Len(frames[b]) = 2 => 2 \in DOMAIN frames[b]
                          /\ ~Idle(b) => 1 \in DOMAIN frames[b]
    BY FrameTypes
  <2> QED
    BY <1>3, <1>11, <2>1, PlaceFacts DEF Running, InCall
<1>19. LatchExact'
  <2>1. ASSUME NEW g \in Groups
        PROVE  _latch'[g] = Cardinality(Queued(g)') + Cardinality(Running(g)')
    <3>0. /\ IsFiniteSet(Queued(g)) /\ _latch \in [Groups -> Nat]
          /\ Cardinality(Queued(g)) \in Nat /\ Cardinality(Running(g)) \in Nat
          /\ _latch[g] = Cardinality(Queued(g)) + Cardinality(Running(g))
      BY GroupSets DEF TypeOK
    <3>1. CASE g # t.group
      <4>1. Queued(g)' = Queued(g)
        BY <1>2, <3>1 DEF Queued, c
      <4> QED
        BY <1>1, <1>18, <3>0, <3>1, <4>1
    <3>2. CASE g = t.group
      <4>1. Queued(g)' = Queued(g) \cup {m} /\ m \notin Queued(g)
        BY <1>2, <3>2 DEF Queued, c
      <4>2. Cardinality(Queued(g) \cup {m}) = Cardinality(Queued(g)) + 1
        BY <3>0, <4>1, FS_AddElement
      <4>3. _latch'[g] = _latch[g] + 1
        BY <1>1, <3>0, <3>2
      <4> QED
        BY <1>18, <3>0, <4>1, <4>2, <4>3
    <3> QED
      BY <3>1, <3>2
  <2> QED
    BY <2>1 DEF LatchExact
<1>20. ~Idle(Main)' /\ status # "committed"
  BY <1>3, NotIdleMain, PlaceFacts
<1>21. \A p \in Places : \A d \in DOMAIN Held(p)' :
           \E q \in Places : \E e \in DOMAIN Held(q) :
               /\ Held(p)'[d].group = Held(q)[e].group
               /\ \A x \in Nat : Held(p)'[d].begin <= x /\ x < Held(p)'[d].end
                                 => Held(q)[e].begin <= x /\ x < Held(q)[e].end
  <2> SUFFICES ASSUME NEW p \in Places, NEW d \in DOMAIN Held(p)'
               PROVE  \E q \in Places : \E e \in DOMAIN Held(q) :
                          /\ Held(p)'[d].group = Held(q)[e].group
                          /\ \A x \in Nat : Held(p)'[d].begin <= x /\ x < Held(p)'[d].end
                                            => Held(q)[e].begin <= x /\ x < Held(q)[e].end
    OBVIOUS
  <2>1. \A x \in Nat : \/ f.begin <= x /\ x < f.end
                       \/ c.begin <= x /\ x < c.end
                       => t.begin <= x /\ x < t.end
    BY <1>2, <1>4, <1>10
  <2>2. CASE p = a /\ d = n
    BY <1>5, <1>6, <1>10, <2>1, <2>2
  <2>3. CASE p = Stack /\ d = m
    BY <1>5, <1>6, <1>10, <2>1, <2>3
  <2>4. CASE ~(p = a /\ d = n) /\ ~(p = Stack /\ d = m)
    BY <1>7, <2>4
  <2> QED
    BY <2>2, <2>3, <2>4
<1>22. CallsLive'
  <2>1. \A s \in Sections : \A b, e \in InCall(s)' : b = e
    BY <1>18 DEF CallsLive
  <2>2. \A s \in Sections : \A p \in Places : \A d \in DOMAIN Held(p)' :
            Held(p)'[d].group = s => InCall(s)' # {}
    BY <1>18, <1>21 DEF CallsLive
  <2>3. \A s \in Sections : ~success'[s] => InCall(s)' # {}
    BY <1>1, <1>18 DEF CallsLive
  <2> QED
    BY <1>20, <2>1, <2>2, <2>3 DEF CallsLive
<1>23. WritesExact'
  <2>1. ASSUME NEW g, NEW x \in Nat PROVE Todo(g, x)' <=> Todo(g, x)
    <3>1. Todo(g, x)' => Todo(g, x)
      BY <1>21 DEF Todo
    <3>2. ASSUME Todo(g, x) PROVE Todo(g, x)'
      <4>1. PICK p \in Places : \E d \in DOMAIN Held(p) :
                Held(p)[d].group = g /\ Held(p)[d].begin <= x /\ x < Held(p)[d].end
        BY <3>2 DEF Todo
      <4>2. PICK d \in DOMAIN Held(p) :
                Held(p)[d].group = g /\ Held(p)[d].begin <= x /\ x < Held(p)[d].end
        BY <4>1
      <4>3. CASE p = a /\ d = n
        <5>1. CASE x < f.begin
          <6>1. Held(Stack)'[m].group = g /\ Held(Stack)'[m].begin <= x /\ x < Held(Stack)'[m].end
            BY <1>6, <1>10, <4>2, <4>3, <5>1
          <6> QED
            BY <1>5, <1>6, <6>1 DEF Todo
        <5>2. CASE ~(x < f.begin)
          <6>1. Held(a)'[n].group = g /\ Held(a)'[n].begin <= x /\ x < Held(a)'[n].end
            BY <1>4, <1>6, <1>10, <4>2, <4>3, <5>2
          <6> QED
            BY <1>5, <1>6, <6>1 DEF Todo
        <5> QED
          BY <5>1, <5>2
      <4>4. CASE ~(p = a /\ d = n)
        BY <1>8, <4>2, <4>4 DEF Todo
      <4> QED
        BY <4>3, <4>4
    <3> QED
      BY <3>1, <3>2
  <2>2. ASSUME NEW s \in Sections, Todo(Outer, s - 1)',
               NEW p \in Places, NEW d \in DOMAIN Held(p)'
        PROVE  Held(p)'[d].group # s
    BY <1>21, <2>1, <2>2, GroupFacts DEF WritesExact
  <2>3. ASSUME NEW s \in Sections, NEW i \in 0 .. size[s] - 1
        PROVE  written[s][i] = IF Todo(Outer, s - 1)' \/ Todo(s, i)' THEN 0 ELSE 1
    <3>1. i \in Nat /\ s - 1 \in Nat
      BY GroupFacts DEF TypeOK
    <3>2. written[s][i] = IF Todo(Outer, s - 1) \/ Todo(s, i) THEN 0 ELSE 1
      BY DEF WritesExact
    <3> QED
      BY <2>1, <3>1, <3>2
  <2> QED
    BY <1>1, <2>2, <2>3 DEF WritesExact
<1>24. EndsMatch'
  <2>1. _stop <=> \E b \in Agents : Len(frames[b]) = 2 /\ frames[b][2].at = "exit"
    BY DEF EndsMatch
  <2>2. \A b \in Agents : Len(frames[b]) = 2 => 2 \in DOMAIN frames[b]
    BY FrameTypes
  <2>3. _stop' <=> \E b \in Agents : Len(frames'[b]) = 2 /\ frames'[b][2].at = "exit"
    BY <1>1, <1>3, <1>11, <2>1, <2>2
  <2> QED
    BY <1>1, <1>20, <2>3 DEF EndsMatch
<1> QED
  BY <1>12, <1>13, <1>14, <1>15, <1>16, <1>17, <1>19, <1>22, <1>23, <1>24

\* A thread begins to write the next section of its range: it enters the call
\* for the atoms of this section.
LEMMA EnterEffect ==
    ASSUME IInv, NEW a \in Agents, WriteSection(a)
    PROVE  LET s == Top(a).begin + 1
               f == frames'[a][1]
               k == frames'[a][2]
           IN  /\ s \in Sections /\ s - 1 = Top(a).begin /\ Top(a).begin < Top(a).end
               /\ frames' \in [Agents -> Seq(Frame)]
               /\ Len(frames'[a]) = 2 /\ DOMAIN frames'[a] = {1, 2}
               /\ Len(frames[a]) = 1 /\ DOMAIN frames[a] = {1} /\ frames[a][1] = Top(a)
               /\ Top(a).group = Outer
               /\ \A b \in Agents : b # a => frames'[b] = frames[b]
               /\ f \in Frame /\ f.group = Outer /\ f.begin = s /\ f.end = Top(a).end
               /\ f.kind = Top(a).kind /\ f.at = "each"
               /\ k \in Frame /\ k.group = s /\ k.begin = 0 /\ k.end = size[s]
               /\ k.kind = "call" /\ k.at = "spawn"
<1> USE DEF IInv
<1> DEFINE t == Top(a)
           s == t.begin + 1
           n == Len(frames[a])
           f == [t EXCEPT !.begin = t.begin + 1]
           k == CallOf(s)
           u == frames[a]
           r == [u EXCEPT ![n] = f]
<1>1. /\ ~Idle(a) /\ t.at = "each" /\ t.group = Outer /\ t.begin < t.end
      /\ frames' = [frames EXCEPT ![a] = Append(r, k)]
  BY DEF WriteSection, At
<1>2. /\ t \in Frame /\ t.begin \in Nat /\ t.end \in Nat /\ n = 1
  BY <1>1, TopFacts
<1>3. u \in Seq(Frame) /\ u[1] = t /\ DOMAIN u = {1} /\ frames \in [Agents -> Seq(Frame)]
      /\ 1 \in 1 .. Len(u)
  BY <1>2, FrameTypes DEF Top, TypeOK
<1>4. size \in [Groups -> Nat] /\ size[Outer] \in 0 .. MaxSections /\ MaxSections \in Nat
  BY ForEachAssumption DEF TypeOK, SizesFit
<1>5. t.end <= size[Outer]
  <2>1. Held(a) = frames[a] /\ a \in Places
    BY PlaceFacts, FrameTypes
  <2> QED
    BY <1>1, <1>3, <2>1 DEF RangesFit
<1>6. s \in Sections /\ s - 1 = t.begin
  BY <1>1, <1>2, <1>4, <1>5 DEF Sections
<1>7. s \in Groups /\ size[s] \in Nat
  BY <1>4, <1>6, GroupFacts
<1>8. /\ f \in Frame /\ f.group = Outer /\ f.begin = s /\ f.end = t.end
      /\ f.kind = t.kind /\ f.at = "each"
  BY <1>1, <1>2 DEF Frame
<1> HIDE DEF s
<1>9. /\ k \in Frame /\ k.group = s /\ k.begin = 0 /\ k.end = size[s]
      /\ k.kind = "call" /\ k.at = "spawn"
  BY <1>7 DEF Frame, CallOf
<1> HIDE DEF f, k, t, n
<1>10. r \in Seq(Frame) /\ Len(r) = 1 /\ r[1] = f
  <2>1. r \in Seq(Frame) /\ Len(r) = Len(u)
    BY <1>2, <1>3, <1>8, ExceptSeq
  <2>2. r[1] = f
    BY <1>2, <1>3
  <2> QED
    BY <1>2, <2>1, <2>2 DEF n
<1> HIDE DEF r
<1>11. /\ Append(r, k) \in Seq(Frame) /\ Len(Append(r, k)) = 2
       /\ Append(r, k)[1] = f /\ Append(r, k)[2] = k
  <2>1. /\ Append(r, k) \in Seq(Frame) /\ Len(Append(r, k)) = Len(r) + 1
        /\ \A i \in 1 .. Len(r) : Append(r, k)[i] = r[i]
        /\ Append(r, k)[Len(r) + 1] = k
    <3>1. r \in Seq(Frame) /\ k \in Frame
      BY <1>9, <1>10
    <3> QED
      BY ONLY <3>1, AppendProperties
  <2>2. Len(r) + 1 = 2 /\ 1 \in 1 .. Len(r)
    BY <1>10
  <2> QED
    BY <1>10, <2>1, <2>2
<1>12. frames'[a] = Append(r, k) /\ \A b \in Agents : b # a => frames'[b] = frames[b]
  BY <1>1, <1>3
<1>13. frames' \in [Agents -> Seq(Frame)]
  <2> HIDE DEF u
  <2> DEFINE v == Append(r, k)
  <2>1. v \in Seq(Frame) /\ frames' = [frames EXCEPT ![a] = v]
    BY <1>1, <1>11
  <2> HIDE DEF v
  <2> QED
    BY <1>3, <2>1
<1>14. DOMAIN frames'[a] = {1, 2}
  <2>1. frames'[a] \in Seq(Frame) /\ Len(frames'[a]) = 2
    BY <1>11, <1>12
  <2> QED
    BY <2>1
<1>15. Len(frames'[a]) = 2 /\ frames'[a][1] = f /\ frames'[a][2] = k
  BY <1>11, <1>12
<1> QED
  BY <1>1, <1>2, <1>3, <1>6, <1>8, <1>9, <1>12, <1>13, <1>14, <1>15 DEF s, t, n

LEMMA WriteSectionStep ==
    ASSUME IInv, ~Over, NEW a \in Agents, WriteSection(a)
    PROVE  IInv'
<1> USE DEF IInv
<1> DEFINE t == Top(a)
           f == frames'[a][1]
           k == frames'[a][2]
<1>1. UNCHANGED <<size, _workStack, _latch, written, success, _stop, left, status>>
  BY DEF WriteSection
<1>0. PICK s \in Sections : s = t.begin + 1
  BY EnterEffect
<1>2. /\ s \in Sections /\ s - 1 = t.begin /\ t.begin < t.end
      /\ frames' \in [Agents -> Seq(Frame)]
      /\ Len(frames'[a]) = 2 /\ DOMAIN frames'[a] = {1, 2}
      /\ Len(frames[a]) = 1 /\ DOMAIN frames[a] = {1} /\ frames[a][1] = t
      /\ t.group = Outer
      /\ \A b \in Agents : b # a => frames'[b] = frames[b]
      /\ f \in Frame /\ f.group = Outer /\ f.begin = s /\ f.end = t.end
      /\ f.kind = t.kind /\ f.at = "each"
      /\ k \in Frame /\ k.group = s /\ k.begin = 0 /\ k.end = size[s]
      /\ k.kind = "call" /\ k.at = "spawn"
  BY <1>0, EnterEffect
<1>3. t.begin \in Nat /\ t.end \in Nat /\ s \in Nat /\ s = t.begin + 1 /\ s <= t.end
  <2>1. ~Idle(a)
    BY DEF WriteSection, At
  <2> QED
    BY <1>0, <1>2, <2>1, TopFacts
<1>4. ~Idle(a) /\ t.at = "each"
  BY DEF WriteSection, At
<1> HIDE DEF t, f, k
<1>5. /\ \A b \in Agents : Held(b) = frames[b] /\ Held(b)' = frames'[b]
      /\ Held(Stack) = _workStack /\ Held(Stack)' = _workStack
      /\ a \in Agents /\ a \in Places /\ a # Stack /\ Stack \in Places
  BY <1>1, PlaceFacts DEF Held
<1>6. /\ DOMAIN Held(a) = {1} /\ Held(a)[1] = t
      /\ DOMAIN Held(a)' = {1, 2} /\ Held(a)'[1] = f /\ Held(a)'[2] = k
  BY <1>2, <1>5 DEF f, k
<1>7. \A p \in Places : p # a => Held(p)' = Held(p)
  BY <1>2, <1>5, PlaceFacts
<1>8. \A p \in Places : \A d \in DOMAIN Held(p) :
          /\ Held(p)[d].group \in Groups /\ Held(p)[d].begin \in Nat /\ Held(p)[d].end \in Nat
  BY HeldTypes
<1>9. \A p \in Places : \A d \in DOMAIN Held(p)' : ~(p = a /\ d = 2) =>
          /\ d \in DOMAIN Held(p) /\ Held(p)'[d].group = Held(p)[d].group
          /\ Held(p)'[d].end = Held(p)[d].end
          /\ Held(p)'[d].begin \in Nat /\ Held(p)[d].begin <= Held(p)'[d].begin
          /\ ~(p = a /\ d = 1) => Held(p)'[d] = Held(p)[d]
  <2>1. /\ f.group = t.group /\ f.end = t.end /\ f.begin \in Nat /\ t.begin <= f.begin
    BY <1>2, <1>3
  <2> QED
    BY <1>6, <1>7, <1>8, <2>1
<1>10. Todo(Outer, s - 1)
  <2>1. Held(a)[1].group = Outer /\ Held(a)[1].begin <= s - 1 /\ s - 1 < Held(a)[1].end
    BY <1>2, <1>3, <1>6
  <2> QED
    BY <1>5, <1>6, <2>1 DEF Todo
<1>11. \A p \in Places : \A d \in DOMAIN Held(p) : Held(p)[d].group # s
  BY <1>2, <1>10 DEF WritesExact
<1>12. InCall(s) = {}
  <2>1. \A b \in Agents : Len(frames[b]) = 2 => 2 \in DOMAIN frames[b]
    BY FrameTypes
  <2> QED
    BY <1>5, <1>11, <2>1, PlaceFacts DEF InCall
<1>13. TypeOK'
  BY <1>1, <1>2 DEF TypeOK
<1>14. SizesFit'
  BY <1>1 DEF SizesFit
<1>15. FramesNest'
  <2>1. ~Idle(a) /\ IF a = Main THEN f.kind = "call" ELSE f.kind = "closure"
    BY <1>2, <1>4 DEF FramesNest
  <2>2. /\ Len(frames'[a]) = 2 /\ frames'[a][1].group = Outer /\ frames'[a][1].at = "each"
        /\ frames'[a][2].kind = "call" /\ frames'[a][2].group \in Sections
        /\ IF a = Main THEN frames'[a][1].kind = "call" ELSE frames'[a][1].kind = "closure"
    BY <1>2, <2>1 DEF f, k
  <2> QED
    BY <1>2, <2>2 DEF FramesNest
<1>16. RangesFit'
  <2>1. ASSUME NEW p \in Places, NEW d \in DOMAIN Held(p)'
        PROVE  /\ Held(p)'[d].begin <= Held(p)'[d].end
               /\ Held(p)'[d].end <= size[Held(p)'[d].group]
    <3>1. size[s] \in Nat
      BY <1>2, GroupFacts DEF TypeOK
    <3>2. CASE p = a /\ d = 2
      BY <1>2, <1>6, <3>1, <3>2
    <3>3. CASE p = a /\ d = 1
      BY <1>2, <1>3, <1>5, <1>6, <1>9, <3>3 DEF RangesFit
    <3>4. CASE ~(p = a /\ d = 2) /\ ~(p = a /\ d = 1)
      BY <1>9, <3>4 DEF RangesFit
    <3> QED
      BY <3>2, <3>3, <3>4
  <2>2. ASSUME NEW b \in Agents, NEW d \in DOMAIN frames'[b]
        PROVE  /\ frames'[b][d].kind = "call" => frames'[b][d].end = size[frames'[b][d].group]
               /\ frames'[b][d].at \in {"sync", "exit"} => frames'[b][d].begin = frames'[b][d].end
               /\ frames'[b][d].at = "exit" => d = 2
    <3>1. CASE b = a /\ d = 1
      <4>1. frames'[b][d] = f /\ (t.kind = "call" => t.end = size[t.group])
        BY <1>2, <3>1 DEF f, RangesFit
      <4> QED
        BY <1>2, <4>1
    <3>2. CASE b = a /\ d = 2
      BY <1>2, <3>2 DEF k
    <3>3. CASE b # a
      BY <1>2, <3>3 DEF RangesFit
    <3> QED
      BY <1>2, <3>1, <3>2, <3>3
  <2> QED
    BY <1>1, <2>1, <2>2 DEF RangesFit
<1>17. ElementsOnce'
  <2> SUFFICES ASSUME NEW p \in Places, NEW q \in Places,
                      NEW d \in DOMAIN Held(p)', NEW e \in DOMAIN Held(q)',
                      Held(p)'[d].group = Held(q)'[e].group,
                      Held(p)'[d].begin < Held(q)'[e].end, Held(q)'[e].begin < Held(p)'[d].end,
                      Held(p)'[d].begin < Held(p)'[d].end, Held(q)'[e].begin < Held(q)'[e].end
               PROVE  p = q /\ d = e
    BY DEF ElementsOnce
  <2>1. \A u \in Places : \A i \in DOMAIN Held(u)' :
            ~(u = a /\ i = 2) => Held(u)'[i].group # k.group
    BY <1>2, <1>9, <1>11
  <2>2. CASE p = a /\ d = 2
    BY <1>6, <2>1, <2>2
  <2>3. CASE q = a /\ e = 2
    BY <1>6, <2>1, <2>3
  <2>4. CASE ~(p = a /\ d = 2) /\ ~(q = a /\ e = 2)
    <3>1. /\ d \in DOMAIN Held(p) /\ Held(p)'[d].group = Held(p)[d].group
          /\ Held(p)'[d].end = Held(p)[d].end /\ Held(p)'[d].begin \in Nat
          /\ Held(p)[d].begin <= Held(p)'[d].begin
      BY <1>9, <2>4
    <3>2. /\ e \in DOMAIN Held(q) /\ Held(q)'[e].group = Held(q)[e].group
          /\ Held(q)'[e].end = Held(q)[e].end /\ Held(q)'[e].begin \in Nat
          /\ Held(q)[e].begin <= Held(q)'[e].begin
      BY <1>9, <2>4
    <3>3. /\ Held(p)[d].begin \in Nat /\ Held(p)[d].end \in Nat
          /\ Held(q)[e].begin \in Nat /\ Held(q)[e].end \in Nat
      BY <1>8, <3>1, <3>2
    <3>4. Held(p)[d].begin < Held(q)[e].end /\ Held(p)[d].begin < Held(p)[d].end
      <4>1. Held(p)'[d].begin < Held(q)[e].end /\ Held(p)'[d].begin < Held(p)[d].end
        BY <3>1, <3>2
      <4> QED
        BY ONLY <3>1, <3>3, <4>1
    <3>5. Held(q)[e].begin < Held(p)[d].end /\ Held(q)[e].begin < Held(q)[e].end
      <4>1. Held(q)'[e].begin < Held(p)[d].end /\ Held(q)'[e].begin < Held(q)[e].end
        BY <3>1, <3>2
      <4> QED
        BY ONLY <3>2, <3>3, <4>1
    <3>6. Held(p)[d].group = Held(q)[e].group
      BY <3>1, <3>2
    <3> QED
      BY <3>1, <3>2, <3>4, <3>5, <3>6 DEF ElementsOnce
  <2> QED
    BY <2>2, <2>3, <2>4
<1>18. EndsDiffer'
  <2>0. \A p \in Workers \cup {Stack} : p \in Places
    BY PlaceFacts
  <2>1. ASSUME NEW p \in Workers \cup {Stack}, NEW d \in DOMAIN Held(p)', p # Stack => d = 1
        PROVE  /\ d \in DOMAIN Held(p) /\ Held(p)'[d].group = Held(p)[d].group
               /\ Held(p)'[d].end = Held(p)[d].end /\ Held(p)[d].group # s
    BY <1>5, <1>9, <1>11, <2>0, <2>1
  <2>2. ASSUME NEW p \in Workers \cup {Stack}, NEW q \in Workers \cup {Stack},
               NEW d \in DOMAIN Held(p)', NEW e \in DOMAIN Held(q)',
               p # Stack => d = 1, q # Stack => e = 1,
               Held(p)'[d].group = Held(q)'[e].group, Held(p)'[d].end = Held(q)'[e].end
        PROVE  p = q /\ d = e
    <3>1. /\ d \in DOMAIN Held(p) /\ e \in DOMAIN Held(q)
          /\ Held(p)[d].group = Held(q)[e].group /\ Held(p)[d].end = Held(q)[e].end
      BY <2>1, <2>2
    <3> QED
      BY <2>2, <3>1 DEF EndsDiffer
  <2>3. ASSUME NEW p \in Workers \cup {Stack}, NEW b \in Agents,
               NEW d \in DOMAIN Held(p)', NEW e \in DOMAIN frames'[b],
               p # Stack => d = 1, frames'[b][e].kind = "call",
               frames'[b][e].group = Held(p)'[d].group
        PROVE  Held(p)'[d].end <= frames'[b][e].begin
    <3>0. /\ d \in DOMAIN Held(p) /\ Held(p)'[d].group = Held(p)[d].group
          /\ Held(p)'[d].end = Held(p)[d].end /\ Held(p)[d].group # s /\ Held(p)[d].end \in Nat
      BY <1>8, <2>0, <2>1, <2>3
    <3>1. CASE b = a /\ e = 2
      <4>1. frames'[b][e].group = s
        BY <1>2, <3>1 DEF k
      <4> QED
        BY <2>3, <3>0, <4>1
    <3>2. CASE b = a /\ e = 1
      <4>1. frames'[b][e] = f
        BY <3>2 DEF f
      <4>2. frames[a][1].kind = "call" /\ frames[a][1].group = Held(p)[d].group
        BY <1>2, <2>3, <3>0, <4>1
      <4>3. Held(p)[d].end <= t.begin
        BY <1>2, <2>3, <3>0, <4>2 DEF EndsDiffer
      <4> QED
        BY <1>2, <1>3, <3>0, <4>1, <4>3
    <3>3. CASE b # a
      <4>1. /\ e \in DOMAIN frames[b] /\ frames'[b] = frames[b]
            /\ frames[b][e].kind = "call" /\ frames[b][e].group = Held(p)[d].group
        BY <1>2, <2>3, <3>0, <3>3
      <4>2. Held(p)[d].end <= frames[b][e].begin
        BY <2>3, <3>0, <4>1 DEF EndsDiffer
      <4> QED
        BY <3>0, <4>1, <4>2
    <3> QED
      BY <1>2, <3>1, <3>2, <3>3
  <2> QED
    BY <2>2, <2>3 DEF EndsDiffer
<1>19. ~Idle(a)' /\ \A b \in Agents : Idle(b)' <=> Idle(b)
  <2>1. frames'[a] # <<>>
    <3>1. Len(frames'[a]) = 2
      BY <1>2
    <3> QED
      BY <3>1
  <2>2. \A b \in Agents : b # a => frames'[b] = frames[b]
    BY <1>2
  <2> QED
    BY <1>4, <2>1, <2>2 DEF Idle
<1>20. \A g : InCall(g)' = IF g = s THEN {a} ELSE InCall(g)
  <2>1. \A b \in Agents : b # a => frames'[b] = frames[b]
    BY <1>2
  <2>2. Len(frames'[a]) = 2 /\ frames'[a][2].group = s /\ Len(frames[a]) # 2
    BY <1>2 DEF k
  <2> QED
    BY <1>12, <2>1, <2>2 DEF InCall
<1>21. LatchExact'
  <2>1. \A g : Queued(g)' = Queued(g)
    BY <1>1 DEF Queued
  <2>2. \A g : Running(g)' = Running(g)
    <3>1. frames'[a][1].group = frames[a][1].group
      BY <1>2 DEF f
    <3>2. \A b \in Agents : b # a => frames'[b] = frames[b]
      BY <1>2
    <3> QED
      BY <1>19, <3>1, <3>2, PlaceFacts DEF Running
  <2> QED
    BY <1>1, <2>1, <2>2 DEF LatchExact
<1>22. ~Idle(Main)' /\ status # "committed"
  BY <1>19, NotIdleMain, PlaceFacts
<1>23. CallsLive'
  <2>1. \A g \in Sections : \A b, e \in InCall(g)' : b = e
    BY <1>20 DEF CallsLive
  <2>2. ASSUME NEW g \in Sections, NEW p \in Places, NEW d \in DOMAIN Held(p)',
               Held(p)'[d].group = g
        PROVE  InCall(g)' # {}
    <3>1. CASE g = s
      BY <1>20, <3>1
    <3>2. CASE g # s
      <4>1. ~(p = a /\ d = 2)
        BY <1>2, <1>6, <2>2, <3>2
      <4> QED
        BY <1>9, <1>20, <2>2, <3>2, <4>1 DEF CallsLive
    <3> QED
      BY <3>1, <3>2
  <2>3. \A g \in Sections : ~success'[g] => InCall(g)' # {}
    BY <1>1, <1>20 DEF CallsLive
  <2> QED
    BY <1>22, <2>1, <2>2, <2>3 DEF CallsLive
<1>24. WritesExact'
  <2>1. ASSUME NEW g, NEW x \in Nat, g # s
        PROVE  Todo(g, x)' <=> Todo(g, x) /\ ~(g = Outer /\ x = s - 1)
    <3>1. ASSUME Todo(g, x)' PROVE Todo(g, x) /\ ~(g = Outer /\ x = s - 1)
      <4>1. PICK p \in Places : \E d \in DOMAIN Held(p)' :
                Held(p)'[d].group = g /\ Held(p)'[d].begin <= x /\ x < Held(p)'[d].end
        BY <3>1 DEF Todo
      <4>2. PICK d \in DOMAIN Held(p)' :
                Held(p)'[d].group = g /\ Held(p)'[d].begin <= x /\ x < Held(p)'[d].end
        BY <4>1
      <4>3. ~(p = a /\ d = 2)
        BY <1>2, <1>6, <2>1, <4>2
      <4>4. /\ d \in DOMAIN Held(p) /\ Held(p)[d].group = g
            /\ Held(p)[d].begin <= x /\ x < Held(p)[d].end
        <5>1. /\ d \in DOMAIN Held(p) /\ Held(p)'[d].group = Held(p)[d].group
              /\ Held(p)'[d].end = Held(p)[d].end
              /\ Held(p)'[d].begin \in Nat /\ Held(p)[d].begin <= Held(p)'[d].begin
          BY <1>9, <4>3
        <5>2. Held(p)[d].begin \in Nat
          BY <1>8, <5>1
        <5> QED
          BY <4>2, <5>1, <5>2
      <4>5. ASSUME g = Outer, x = s - 1 PROVE FALSE
        <5>1. Held(a)[1].group = g /\ Held(a)[1].begin <= x /\ x < Held(a)[1].end
          BY <1>2, <1>3, <1>6, <4>5
        <5>2. /\ Held(p)[d].begin \in Nat /\ Held(p)[d].end \in Nat
              /\ Held(a)[1].begin \in Nat /\ Held(a)[1].end \in Nat /\ 1 \in DOMAIN Held(a)
          BY <1>5, <1>6, <1>8, <4>4
        <5>3. /\ Held(p)[d].begin < Held(a)[1].end /\ Held(a)[1].begin < Held(p)[d].end
              /\ Held(p)[d].begin < Held(p)[d].end /\ Held(a)[1].begin < Held(a)[1].end
          BY <4>4, <5>1, <5>2
        <5>4. p = a /\ d = 1
          BY <1>5, <4>4, <5>1, <5>2, <5>3 DEF ElementsOnce
        <5>5. s <= x
          BY <1>2, <1>6, <4>2, <5>4
        <5> QED
          BY <1>3, <4>5, <5>5
      <4> QED
        BY <4>4, <4>5 DEF Todo
    <3>2. ASSUME Todo(g, x), ~(g = Outer /\ x = s - 1) PROVE Todo(g, x)'
      <4>1. PICK p \in Places : \E d \in DOMAIN Held(p) :
                Held(p)[d].group = g /\ Held(p)[d].begin <= x /\ x < Held(p)[d].end
        BY <3>2 DEF Todo
      <4>2. PICK d \in DOMAIN Held(p) :
                Held(p)[d].group = g /\ Held(p)[d].begin <= x /\ x < Held(p)[d].end
        BY <4>1
      <4>3. CASE p = a
        <5>1. d = 1 /\ t.group = g /\ t.begin <= x /\ x < t.end
          BY <1>6, <4>2, <4>3
        <5>2. f.group = g /\ f.begin <= x /\ x < f.end
          BY <1>2, <1>3, <3>2, <5>1
        <5>3. 1 \in DOMAIN Held(a)' /\ Held(a)'[1] = f
          BY <1>6
        <5> QED
          BY <1>5, <5>2, <5>3 DEF Todo
      <4>4. CASE p # a
        BY <1>7, <4>2, <4>4 DEF Todo
      <4> QED
        BY <4>3, <4>4
    <3> QED
      BY <3>1, <3>2
  <2>2. Outer # s /\ s \in Groups
    BY <1>2, GroupFacts
  <2>3. ~Todo(Outer, s - 1)' /\ \A g \in Sections : g # s =>
            (Todo(Outer, g - 1)' <=> Todo(Outer, g - 1))
    <3>1. \A g \in Sections : g \in Nat /\ g - 1 \in Nat /\ (g - 1 = s - 1 => g = s)
      BY <1>3, ForEachAssumption DEF Sections
    <3> QED
      BY <1>2, <2>1, <2>2, <3>1
  <2>4. ASSUME NEW g \in Sections, Todo(Outer, g - 1)',
               NEW p \in Places, NEW d \in DOMAIN Held(p)'
        PROVE  Held(p)'[d].group # g
    <3>1. g # s /\ Todo(Outer, g - 1)
      BY <2>3, <2>4
    <3>2. CASE p = a /\ d = 2
      BY <1>2, <1>6, <3>1, <3>2
    <3>3. CASE ~(p = a /\ d = 2)
      BY <1>9, <3>1, <3>3 DEF WritesExact
    <3> QED
      BY <3>2, <3>3
  <2>5. ASSUME NEW g \in Sections, NEW i \in 0 .. size[g] - 1
        PROVE  written[g][i] = IF Todo(Outer, g - 1)' \/ Todo(g, i)' THEN 0 ELSE 1
    <3>1. i \in Nat /\ g # Outer /\ size[g] \in Nat
      BY GroupFacts DEF TypeOK
    <3>2. written[g][i] = IF Todo(Outer, g - 1) \/ Todo(g, i) THEN 0 ELSE 1
      BY DEF WritesExact
    <3>3. CASE g = s
      <4>1. k.group = s /\ k.begin <= i /\ i < k.end
        BY <1>2, <3>1, <3>3
      <4>2. Todo(s, i)'
        <5>1. 2 \in DOMAIN Held(a)' /\ Held(a)'[2] = k
          BY <1>6
        <5> QED
          BY <1>5, <4>1, <5>1 DEF Todo
      <4> QED
        BY <1>10, <3>2, <3>3, <4>2
    <3>4. CASE g # s
      BY <2>1, <2>3, <3>1, <3>2, <3>4
    <3> QED
      BY <3>3, <3>4
  <2> QED
    BY <1>1, <2>4, <2>5 DEF WritesExact
<1>25. EndsMatch'
  <2>1. _stop <=> \E b \in Agents : Len(frames[b]) = 2 /\ frames[b][2].at = "exit"
    BY DEF EndsMatch
  <2>2. /\ Len(frames[a]) # 2 /\ frames'[a][2].at # "exit"
        /\ \A b \in Agents : b # a => frames'[b] = frames[b]
    BY <1>2 DEF k
  <2>3. _stop' <=> \E b \in Agents : Len(frames'[b]) = 2 /\ frames'[b][2].at = "exit"
    BY <1>1, <2>1, <2>2
  <2> QED
    BY <1>1, <1>22, <2>3 DEF EndsMatch
<1> QED
  BY <1>13, <1>14, <1>15, <1>16, <1>17, <1>18, <1>21, <1>23, <1>24, <1>25

-----------------------------------------------------------------------------
(* What holds of every run of parallel_for_each.                           *)

\* The invariant on which the theorems rest: each element of each range is in
\* one place, and is written when it leaves it.
THEOREM ForEachInductive == Spec => []IInv
<1>1. Init => IInv
  BY InitIInv
<1>2. IInv /\ [Next]_vars => IInv'
  <2> SUFFICES ASSUME IInv, [Next]_vars PROVE IInv'
    OBVIOUS
  <2>1. ASSUME NEW a \in Agents, AgentStep(a) PROVE IInv'
    <3>0. ~Over
      BY <2>1 DEF AgentStep
    <3>1. CASE SpawnTask(a)
      BY <3>0, <3>1, SpawnTaskStep
    <3>2. CASE EndSpawn(a)
      BY <3>0, <3>2, EndSpawnStep
    <3>3. CASE WriteSection(a)
      BY <3>0, <3>3, WriteSectionStep
    <3>4. CASE WriteAtom(a)
      BY <3>0, <3>4, WriteAtomStep
    <3>5. CASE EndCall(a)
      BY <3>0, <3>5, EndCallStep
    <3>6. CASE EndClosure(a)
      BY <3>0, <3>6, EndClosureStep
    <3>7. CASE SectionWritten(a)
      BY <3>0, <3>7, SectionWrittenStep
    <3>8. CASE FatalError(a)
      BY <3>0, <3>8, FatalErrorStep
    <3>9. CASE ExitReturns(a)
      BY <3>0, <3>9, ExitReturnsStep
    <3>10. CASE a \in Workers /\ TakeClosure(a)
      BY <3>0, <3>10, TakeClosureStep
    <3>11. CASE a \in Workers /\ LeaveWork(a)
      BY <3>0, <3>11, LeaveWorkStep
    <3>12. CASE Commit
      BY <3>0, <3>12, CommitStep
    <3> QED
      BY <2>1, <3>1, <3>2, <3>3, <3>4, <3>5, <3>6, <3>7, <3>8, <3>9, <3>10, <3>11, <3>12
         DEF AgentStep, ForEachStep, WorkerStep
  <2>2. CASE UNCHANGED vars
    BY <2>2, ForEachStutter
  <2> QED
    BY <2>1, <2>2 DEF Next
<1> QED
  BY <1>1, <1>2, PTL DEF Spec

\* The variables keep their types: no latch goes below zero, and no closure has
\* a range outside the naturals.
THEOREM ForEachTypeCorrect == Spec => []TypeOK
<1>1. IInv => TypeOK
  BY DEF IInv
<1> QED
  BY <1>1, ForEachInductive, PTL

\* When the writer commits the buffer, every atom of every section has been
\* written to it exactly once, and no relocation has failed.
THEOREM CommittedComplete == Spec => []CommittedIsComplete
<1>1. IInv => CommittedIsComplete
  <2> SUFFICES ASSUME IInv, status = "committed", NEW s \in Sections
               PROVE  /\ success[s]
                      /\ \A i \in 0 .. size[s] - 1 : written[s][i] = 1
    BY DEF CommittedIsComplete
  <2>1. \A p \in Places : Held(p) = <<>> /\ DOMAIN Held(p) = {}
    BY DEF IInv, EndsMatch
  <2>2. \A g, x : ~Todo(g, x)
    BY <2>1 DEF Todo
  <2>3. \A i \in 0 .. size[s] - 1 : written[s][i] = 1
    BY <2>2 DEF IInv, WritesExact
  <2>4. \A a \in Agents : Len(frames[a]) = 0
    BY <2>1, PlaceFacts DEF Held
  <2>5. success[s]
    BY <2>4 DEF IInv, CallsLive, InCall
  <2> QED
    BY <2>3, <2>5
<1> QED
  BY <1>1, ForEachInductive, PTL

\* A worker that waits is inside a section, or it has nothing to run.
LEMMA WaitingWorker ==
    ASSUME IInv, NEW w \in Workers, Waits(w), ~Nested(w)
    PROVE  Idle(w)
<1> USE DEF IInv
<1>1. w \in Agents /\ w # Main
  BY PlaceFacts
<1>2. SUFFICES ASSUME ~Idle(w) PROVE FALSE
  OBVIOUS
<1>3. Len(frames[w]) = 1
  BY <1>1, <1>2, TopFacts DEF Nested
<1>4. Top(w).at = "each"
  BY <1>1, <1>3 DEF FramesNest, Top
<1> QED
  BY <1>2, <1>4 DEF Waits, At

\* Nobody can go on only if every worker waits inside a section that it writes
\* for writeOutput, or if exit() waits for such a worker.
THEOREM HangsNested == Spec => []HangsOnlyWhenNested
<1>1. IInv => HangsOnlyWhenNested
  <2> USE DEF IInv
  <2> SUFFICES ASSUME IInv, Stuck
               PROVE  IF _stop THEN \E w \in Workers : Nested(w)
                               ELSE \A w \in Workers : Nested(w)
    BY DEF HangsOnlyWhenNested
  <2>1. ~Over /\ \A a \in Agents : Waits(a)
    BY DEF Stuck
  <2>2. ~Idle(Main) /\ \A w \in Workers : w \in Agents
    BY <2>1, NotIdleMain, PlaceFacts
  <2>3. CASE _stop
    <3>1. PICK a \in Agents : Len(frames[a]) = 2 /\ frames[a][2].at = "exit"
      BY <2>3 DEF EndsMatch
    <3>2. Top(a).at = "exit" /\ ~Idle(a)
      BY <3>1, FrameTypes DEF Top
    <3>3. left # Workers
      BY <2>1, <3>2 DEF Waits, At
    <3>4. ASSUME \A w \in Workers : ~Nested(w) PROVE FALSE
      <4>1. \A w \in Workers : Idle(w)
        BY <2>1, <2>2, <3>4, WaitingWorker
      <4>2. \A w \in Workers : w \in left
        BY <2>1, <2>2, <2>3, <4>1 DEF Waits, At
      <4> QED
        BY <3>3, <4>2 DEF TypeOK
    <3> QED
      BY <2>3, <3>4
  <2>4. CASE ~_stop
    <3> SUFFICES ASSUME NEW w \in Workers, ~Nested(w) PROVE FALSE
      BY <2>4
    <3>1. Idle(w) /\ _workStack = <<>>
      <4>1. Idle(w)
        BY <2>1, <2>2, WaitingWorker
      <4>2. w \notin left
        BY <2>4 DEF EndsMatch
      <4> QED
        BY <2>1, <2>2, <4>1, <4>2 DEF Waits, At
    <3>2. \A g : Queued(g) = {}
      <4>1. DOMAIN _workStack = {}
        BY <3>1
      <4> QED
        BY <4>1 DEF Queued
    <3>3. ASSUME NEW a \in Agents, ~Idle(a)
          PROVE  Top(a).at = "sync" /\ Running(Top(a).group) # {}
      <4>1. Top(a).at # "exit"
        BY <2>4, <3>3, TopFacts, FrameTypes DEF EndsMatch, RangesFit, Top
      <4>2. Top(a).at = "sync" /\ _latch[Top(a).group] # 0
        BY <2>1, <3>3, <4>1 DEF Waits, At
      <4>3. Top(a).group \in Groups
        BY <3>3, TopFacts
      <4> QED
        BY <3>2, <4>2, <4>3, GroupSets, FS_EmptySet
    <3>4. ASSUME NEW a \in Agents, Len(frames[a]) = 2 PROVE FALSE
      <4>1. ~Idle(a) /\ Top(a).group \in Sections
        BY <3>4, FrameTypes DEF FramesNest, Top
      <4>2. PICK v \in Running(Top(a).group) : TRUE
        BY <3>3, <4>1
      <4>3. v \in Agents /\ v # Main /\ ~Idle(v) /\ frames[v][1].group = Top(a).group
        BY PlaceFacts DEF Running
      <4>4. Len(frames[v]) = 2
        <5>1. Top(v).at = "sync" /\ Len(frames[v]) \in {1, 2}
          BY <3>3, <4>3, TopFacts
        <5>2. frames[v][1].at = "each"
          BY <4>3, FrameTypes DEF FramesNest
        <5> QED
          BY <5>1, <5>2 DEF Top
      <4> QED
        BY <4>1, <4>3, <4>4, GroupFacts DEF FramesNest
    <3>5. Len(frames[Main]) = 1 /\ Main \in Agents
      BY <2>2, <3>4, TopFacts, PlaceFacts
    <3>6. Running(Top(Main).group) # {}
      BY <2>2, <3>3, <3>5
    <3>7. PICK v \in Running(Top(Main).group) : TRUE
      BY <3>6
    <3>8. v \in Agents /\ v # Main /\ ~Idle(v)
      BY PlaceFacts DEF Running
    <3>9. Top(v).at = "sync" /\ Len(frames[v]) = 1
      BY <3>3, <3>4, <3>8, TopFacts
    <3>10. Top(v).at = "each"
      BY <3>8, <3>9 DEF FramesNest, Top
    <3> QED
      BY <3>9, <3>10
  <2> QED
    BY <2>3, <2>4
<1> QED
  BY <1>1, ForEachInductive, PTL

-----------------------------------------------------------------------------
(* Every group keeps the promise of module TaskGroup.                      *)

\* What module TaskGroup sees of a group, in terms of places.
Called(g)      == \E a \in Agents : \E d \in DOMAIN frames[a] :
                      frames[a][d].group = g /\ frames[a][d].kind = "call"
QueuedEnds(g)  == {_workStack[i].end : i \in Queued(g)}
RunningEnds(g) == {frames[w][1].end : w \in Running(g)}
Ends           == UNION {0 .. n : n \in AtomCounts \cup {MaxSections}}

View(g) ==
    /\ (InFrames(g, "call") # {}) = Called(g)
    /\ {c.end : c \in InStack(g)} = QueuedEnds(g)
    /\ {f.end : f \in InFrames(g, "closure")} = RunningEnds(g)

LEMMA GroupView == IInv => \A g \in Groups : View(g)
<1> SUFFICES ASSUME IInv, NEW g \in Groups PROVE View(g)
  OBVIOUS
<1> USE DEF IInv
<1>1. (InFrames(g, "call") # {}) = Called(g)
  <2>1. ASSUME InFrames(g, "call") # {} PROVE Called(g)
    <3>1. PICK f \in InFrames(g, "call") : TRUE
      BY <2>1
    <3>2. PICK a \in Agents : \E d \in DOMAIN frames[a] :
              f = frames[a][d] /\ f.group = g /\ f.kind = "call"
      BY DEF InFrames
    <3> QED
      BY <3>2 DEF Called
  <2>2. ASSUME Called(g) PROVE InFrames(g, "call") # {}
    <3>1. PICK a \in Agents : \E d \in DOMAIN frames[a] :
              frames[a][d].group = g /\ frames[a][d].kind = "call"
      BY <2>2 DEF Called
    <3>2. PICK d \in DOMAIN frames[a] : frames[a][d].group = g /\ frames[a][d].kind = "call"
      BY <3>1
    <3>3. frames[a][d] \in InFrames(g, "call")
      BY <3>2 DEF InFrames
    <3> QED
      BY <3>3
  <2>3. Called(g) \in BOOLEAN
    BY DEF Called
  <2> QED
    BY <2>1, <2>2, <2>3
<1>2. {c.end : c \in InStack(g)} = QueuedEnds(g)
  BY DEF InStack, QueuedEnds, Queued
<1>3. ASSUME NEW x PROVE x \in {f.end : f \in InFrames(g, "closure")} <=> x \in RunningEnds(g)
  <2>1. ASSUME x \in {f.end : f \in InFrames(g, "closure")} PROVE x \in RunningEnds(g)
    <3>0. PICK a \in Agents : \E d \in DOMAIN frames[a] :
              frames[a][d].group = g /\ frames[a][d].kind = "closure" /\ x = frames[a][d].end
      BY <2>1 DEF InFrames
    <3>1. PICK d \in DOMAIN frames[a] :
              frames[a][d].group = g /\ frames[a][d].kind = "closure" /\ x = frames[a][d].end
      BY <3>0
    <3>2. d \in 1 .. Len(frames[a]) /\ Len(frames[a]) \in 0 .. 2
      BY FrameTypes DEF FramesNest
    <3>3. d = 1 /\ a # Main
      BY <3>1, <3>2 DEF FramesNest
    <3>4. a \in Running(g)
      BY <3>1, <3>2, <3>3, FrameTypes, PlaceFacts DEF Running
    <3> QED
      BY <3>1, <3>3, <3>4 DEF RunningEnds
  <2>2. ASSUME x \in RunningEnds(g) PROVE x \in {f.end : f \in InFrames(g, "closure")}
    <3>1. PICK w \in Running(g) : x = frames[w][1].end
      BY <2>2 DEF RunningEnds
    <3>2. w \in Agents /\ w # Main /\ ~Idle(w) /\ frames[w][1].group = g
      BY PlaceFacts DEF Running
    <3>3. 1 \in DOMAIN frames[w] /\ frames[w][1].kind = "closure"
      BY <3>2, FrameTypes DEF FramesNest
    <3>4. frames[w][1] \in InFrames(g, "closure")
      BY <3>2, <3>3 DEF InFrames
    <3> QED
      BY <3>1, <3>4
  <2> QED
    BY <2>1, <2>2
<1> QED
  BY <1>1, <1>2, <1>3 DEF View

\* Steps of module TaskGroup, seen from the places.
LEMMA SameMaps ==
    ASSUME NEW g \in Groups, View(g), View(g)', Called(g)' <=> Called(g),
           QueuedEnds(g)' = QueuedEnds(g), RunningEnds(g)' = RunningEnds(g)
    PROVE  UNCHANGED Group(g)!vars
<1>1. Called(g) \in BOOLEAN /\ Called(g)' \in BOOLEAN
  BY DEF Called
<1>2. Called(g)' = Called(g)
  BY <1>1
<1> QED
  BY <1>2 DEF Group!vars, View

LEMMA SpawnMaps ==
    ASSUME NEW g \in Groups, View(g), View(g)', Called(g), Called(g)', NEW t \in Ends,
           t \notin QueuedEnds(g), t \notin RunningEnds(g),
           QueuedEnds(g)' = QueuedEnds(g) \cup {t}, RunningEnds(g)' = RunningEnds(g)
    PROVE  Group(g)!Next
<1>1. Group(g)!Spawn(t)
  BY DEF Group!Spawn, View
<1> QED
  BY <1>1 DEF Group!Next, Ends

LEMMA StartMaps ==
    ASSUME NEW g \in Groups, View(g), View(g)', Called(g), Called(g)', NEW t \in Ends,
           t \in QueuedEnds(g), QueuedEnds(g)' = QueuedEnds(g) \ {t},
           RunningEnds(g)' = RunningEnds(g) \cup {t}
    PROVE  Group(g)!Next
<1>1. Group(g)!Start(t)
  BY DEF Group!Start, View
<1> QED
  BY <1>1 DEF Group!Next, Ends

LEMMA CompleteMaps ==
    ASSUME NEW g \in Groups, View(g), View(g)', Called(g), Called(g)', NEW t \in Ends,
           t \in RunningEnds(g), QueuedEnds(g)' = QueuedEnds(g),
           RunningEnds(g)' = RunningEnds(g) \ {t}
    PROVE  Group(g)!Next
<1>1. Group(g)!Complete(t)
  BY DEF Group!Complete, View
<1> QED
  BY <1>1 DEF Group!Next, Ends

LEMMA OpenMaps ==
    ASSUME NEW g \in Groups, View(g), View(g)', ~Called(g), Called(g)',
           QueuedEnds(g)' = QueuedEnds(g), RunningEnds(g)' = RunningEnds(g)
    PROVE  Group(g)!Next
<1>1. Group(g)!Open
  BY DEF Group!Open, View
<1> QED
  BY <1>1 DEF Group!Next

LEMMA CloseMaps ==
    ASSUME NEW g \in Groups, View(g), View(g)', Called(g), ~Called(g)',
           QueuedEnds(g) = {}, RunningEnds(g) = {},
           QueuedEnds(g)' = {}, RunningEnds(g)' = {}
    PROVE  Group(g)!Next
<1>1. Group(g)!Close
  BY DEF Group!Close, View
<1> QED
  BY <1>1 DEF Group!Next

\* A call is in the range of a group as long as a part of it is anywhere.
LEMMA CallIsOpen ==
    ASSUME IInv, NEW g \in Groups, NEW p \in Places, NEW d \in DOMAIN Held(p),
           Held(p)[d].group = g
    PROVE  Called(g)
<1> USE DEF IInv
<1>1. CASE g = Outer
  <2>1. ~Idle(Main) /\ Main \in Agents
    BY <1>1, PlaceFacts DEF CallsLive
  <2>2. 1 \in DOMAIN frames[Main] /\ frames[Main][1].kind = "call" /\ frames[Main][1].group = Outer
    BY <2>1, FrameTypes DEF FramesNest
  <2> QED
    BY <1>1, <2>1, <2>2 DEF Called
<1>2. CASE g # Outer
  <2>1. PICK a \in InCall(g) : TRUE
    BY <1>2, GroupFacts DEF CallsLive
  <2>2. a \in Agents /\ Len(frames[a]) = 2 /\ frames[a][2].group = g
    BY DEF InCall
  <2>3. 2 \in DOMAIN frames[a] /\ frames[a][2].kind = "call"
    BY <2>2, FrameTypes DEF FramesNest
  <2> QED
    BY <2>2, <2>3 DEF Called
<1> QED
  BY <1>1, <1>2

\* The end of a range is the name of its closure.
LEMMA EndsAreTasks ==
    ASSUME IInv, NEW g \in Groups, NEW x \in Nat, x <= size[g], x # 0
    PROVE  x \in Ends
<1> USE DEF IInv
<1>1. MaxSections \in Nat /\ AtomCounts \subseteq Nat
  BY ForEachAssumption
<1>2. CASE g = Outer
  <2>1. x \in 0 .. MaxSections
    BY <1>1, <1>2 DEF SizesFit
  <2> QED
    BY <2>1 DEF Ends
<1>3. CASE g # Outer
  <2>1. size[g] \in AtomCounts
    BY <1>3, GroupFacts DEF SizesFit
  <2>2. x \in 0 .. size[g]
    BY <1>1, <2>1
  <2> QED
    BY <2>1, <2>2 DEF Ends
<1> QED
  BY <1>2, <1>3

\* Nothing that module TaskGroup sees changes when no thread enters or leaves a
\* range and the stack stays.
LEMMA SameView ==
    ASSUME TypeOK, _workStack' = _workStack,
           \A b \in Agents : DOMAIN frames'[b] = DOMAIN frames[b] /\ (Idle(b)' <=> Idle(b)),
           \A b \in Agents : \A d \in DOMAIN frames[b] :
               /\ frames'[b][d].group = frames[b][d].group
               /\ frames'[b][d].kind = frames[b][d].kind
               /\ frames'[b][d].end = frames[b][d].end,
           NEW g
    PROVE  /\ Called(g)' <=> Called(g)
           /\ QueuedEnds(g)' = QueuedEnds(g) /\ RunningEnds(g)' = RunningEnds(g)
<1>1. Called(g)' <=> Called(g)
  BY DEF Called
<1>2. QueuedEnds(g)' = QueuedEnds(g)
  BY DEF QueuedEnds, Queued
<1>3. \A w \in Workers : ~Idle(w) =>
          frames'[w][1].group = frames[w][1].group /\ frames'[w][1].end = frames[w][1].end
  BY FrameTypes, PlaceFacts
<1>4. Running(g)' = Running(g)
  BY <1>3, PlaceFacts DEF Running
<1>5. \A w \in Running(g) : frames'[w][1].end = frames[w][1].end
  BY <1>3 DEF Running
<1>6. RunningEnds(g)' = RunningEnds(g)
  BY <1>4, <1>5 DEF RunningEnds
<1> QED
  BY <1>1, <1>2, <1>6

LEMMA SameViewBecomes ==
    ASSUME TypeOK, NEW a \in Agents, ~Idle(a), NEW f \in Frame, Becomes(a, f),
           _workStack' = _workStack,
           f.group = Top(a).group, f.kind = Top(a).kind, f.end = Top(a).end,
           NEW g
    PROVE  /\ Called(g)' <=> Called(g)
           /\ QueuedEnds(g)' = QueuedEnds(g) /\ RunningEnds(g)' = RunningEnds(g)
<1>1. \A b \in Agents : DOMAIN frames'[b] = DOMAIN frames[b] /\ (Idle(b)' <=> Idle(b))
  BY HeldBecomes
<1>2. /\ \A b \in Agents : \A d \in DOMAIN frames[b] :
             b # a \/ d # Len(frames[a]) => frames'[b][d] = frames[b][d]
      /\ frames'[a][Len(frames[a])] = f /\ frames[a][Len(frames[a])] = Top(a)
  BY HeldBecomes, BecomesEffect DEF Top
<1>3. \A b \in Agents : \A d \in DOMAIN frames[b] :
          /\ frames'[b][d].group = frames[b][d].group
          /\ frames'[b][d].kind = frames[b][d].kind
          /\ frames'[b][d].end = frames[b][d].end
  BY <1>2
<1> QED
  BY <1>1, <1>3, SameView

\* What a group's steps are made of.
LEMMA EndSpawnMaps ==
    ASSUME IInv, NEW a \in Agents, EndSpawn(a), NEW g
    PROVE  /\ Called(g)' <=> Called(g)
           /\ QueuedEnds(g)' = QueuedEnds(g) /\ RunningEnds(g)' = RunningEnds(g)
<1> DEFINE f == [Top(a) EXCEPT !.at = "each"]
<1>1. ~Idle(a) /\ Becomes(a, f) /\ _workStack' = _workStack /\ TypeOK
  BY DEF EndSpawn, At, IInv
<1>2. Top(a) \in Frame
  BY <1>1, TopFacts
<1>3. f \in Frame /\ f.group = Top(a).group /\ f.kind = Top(a).kind /\ f.end = Top(a).end
  BY <1>2 DEF Frame
<1> HIDE DEF f
<1> QED
  BY <1>1, <1>3, SameViewBecomes

LEMMA EndCallMaps ==
    ASSUME IInv, NEW a \in Agents, EndCall(a), NEW g
    PROVE  /\ Called(g)' <=> Called(g)
           /\ QueuedEnds(g)' = QueuedEnds(g) /\ RunningEnds(g)' = RunningEnds(g)
<1> DEFINE f == [Top(a) EXCEPT !.at = "sync"]
<1>1. ~Idle(a) /\ Becomes(a, f) /\ _workStack' = _workStack /\ TypeOK
  BY DEF EndCall, At, IInv
<1>2. Top(a) \in Frame
  BY <1>1, TopFacts
<1>3. f \in Frame /\ f.group = Top(a).group /\ f.kind = Top(a).kind /\ f.end = Top(a).end
  BY <1>2 DEF Frame
<1> HIDE DEF f
<1> QED
  BY <1>1, <1>3, SameViewBecomes

LEMMA FatalErrorMaps ==
    ASSUME IInv, NEW a \in Agents, FatalError(a), NEW g
    PROVE  /\ Called(g)' <=> Called(g)
           /\ QueuedEnds(g)' = QueuedEnds(g) /\ RunningEnds(g)' = RunningEnds(g)
<1> DEFINE f == [Top(a) EXCEPT !.at = "exit"]
<1>1. ~Idle(a) /\ Becomes(a, f) /\ _workStack' = _workStack /\ TypeOK
  BY DEF FatalError, Synced, At, IInv
<1>2. Top(a) \in Frame
  BY <1>1, TopFacts
<1>3. f \in Frame /\ f.group = Top(a).group /\ f.kind = Top(a).kind /\ f.end = Top(a).end
  BY <1>2 DEF Frame
<1> HIDE DEF f
<1> QED
  BY <1>1, <1>3, SameViewBecomes

LEMMA WriteAtomMaps ==
    ASSUME IInv, NEW a \in Agents, WriteAtom(a), NEW g
    PROVE  /\ Called(g)' <=> Called(g)
           /\ QueuedEnds(g)' = QueuedEnds(g) /\ RunningEnds(g)' = RunningEnds(g)
<1> DEFINE f == [Top(a) EXCEPT !.begin = @ + 1]
<1>1. ~Idle(a) /\ Becomes(a, f) /\ _workStack' = _workStack /\ TypeOK
  BY DEF WriteAtom, At, IInv
<1>2. Top(a) \in Frame /\ Top(a).begin \in Nat
  BY <1>1, TopFacts
<1>3. f \in Frame /\ f.group = Top(a).group /\ f.kind = Top(a).kind /\ f.end = Top(a).end
  BY <1>2 DEF Frame
<1> HIDE DEF f
<1> QED
  BY <1>1, <1>3, SameViewBecomes

\* A spawned closure of g gets a name that no closure of g has.
LEMMA SpawnTaskMaps ==
    ASSUME IInv, NEW a \in Agents, SpawnTask(a), NEW g \in Groups, View(g), View(g)'
    PROVE  Group(g)!Next \/ UNCHANGED Group(g)!vars
<1> USE DEF IInv
<1> DEFINE n == Len(frames[a])
           m == Len(_workStack) + 1
           t == Top(a)
           f == frames'[a][n]
           c == _workStack'[m]
<1>1. /\ ~Idle(a) /\ f \in Frame /\ f.kind = t.kind /\ t.kind = "call"
      /\ f.group = t.group /\ f.end = t.end
      /\ c.group = t.group /\ c.end = f.begin /\ t.begin < f.begin /\ f.begin <= f.end
      /\ frames[a][n] = t /\ n \in DOMAIN frames[a]
      /\ DOMAIN _workStack' = DOMAIN _workStack \cup {m} /\ m \notin DOMAIN _workStack
      /\ \A i \in DOMAIN _workStack : _workStack'[i] = _workStack[i]
  BY SpawnEffect
<1>2. /\ \A b \in Agents : DOMAIN frames'[b] = DOMAIN frames[b] /\ (Idle(b)' <=> Idle(b))
      /\ \A b \in Agents : \A d \in DOMAIN frames[b] :
             b # a \/ d # n => frames'[b][d] = frames[b][d]
  BY SpawnEffect
<1>3. t.begin \in Nat /\ f.begin \in Nat /\ f.end \in Nat
  BY <1>1, TopFacts, FrameFields
<1> HIDE DEF n, m, t, c
<1>4. \A b \in Agents : \A d \in DOMAIN frames[b] :
          /\ frames'[b][d].group = frames[b][d].group /\ frames'[b][d].kind = frames[b][d].kind
          /\ frames'[b][d].end = frames[b][d].end
  BY <1>1, <1>2
<1> HIDE DEF f
<1>5. Called(g)' <=> Called(g)
  BY <1>2, <1>4 DEF Called
<1>6. \A w \in Workers : ~Idle(w) =>
          frames'[w][1].group = frames[w][1].group /\ frames'[w][1].end = frames[w][1].end
  BY <1>4, FrameTypes, PlaceFacts
<1>7. Running(g)' = Running(g)
  BY <1>2, <1>6, PlaceFacts DEF Running
<1>8. RunningEnds(g)' = RunningEnds(g)
  BY <1>6, <1>7 DEF RunningEnds, Running
<1>9. CASE g # t.group
  <2>1. Queued(g)' = Queued(g)
    BY <1>1, <1>9 DEF Queued, c
  <2>2. QueuedEnds(g)' = QueuedEnds(g)
    BY <1>1, <2>1 DEF QueuedEnds, Queued
  <2> QED
    BY <1>5, <1>8, <2>2, SameMaps
<1>10. CASE g = t.group
  <2>1. Queued(g)' = Queued(g) \cup {m}
    BY <1>1, <1>10 DEF Queued, c
  <2>2. QueuedEnds(g)' = QueuedEnds(g) \cup {f.begin}
    BY <1>1, <2>1 DEF QueuedEnds, Queued, c
  <2>3. Called(g)
    BY <1>1, <1>10 DEF Called
  <2>4. ASSUME NEW p \in Workers \cup {Stack}, NEW d \in DOMAIN Held(p), p # Stack => d = 1,
               Held(p)[d].group = g
        PROVE  Held(p)[d].end # f.begin
    <3>1. Held(p)[d].end <= t.begin
      BY <1>1, <1>10, <2>4 DEF EndsDiffer
    <3>2. Held(p)[d].end \in Nat
      BY <2>4, HeldTypes, PlaceFacts
    <3> QED
      BY <1>1, <1>3, <3>1, <3>2
  <2>5. f.begin \notin QueuedEnds(g)
    BY <2>4 DEF QueuedEnds, Queued, Held
  <2>6. f.begin \notin RunningEnds(g)
    <3>1. \A w \in Running(g) : /\ w \in Workers /\ Held(w) = frames[w] /\ 1 \in DOMAIN frames[w]
                                /\ frames[w][1].group = g
      BY FrameTypes, PlaceFacts DEF Running, Held
    <3> QED
      BY <2>4, <3>1 DEF RunningEnds
  <2>7. f.begin \in Ends
    <3>1. t.end <= size[t.group] /\ size[t.group] \in Nat /\ t.end \in Nat
      BY <1>1, <1>3, <1>10, TopFacts DEF TypeOK, t
    <3>2. f.begin <= size[g] /\ f.begin # 0
      BY <1>1, <1>3, <1>10, <3>1
    <3> QED
      BY <1>3, <3>2, EndsAreTasks
  <2>8. ASSUME NEW x, x = f.begin PROVE Group(g)!Next
    BY <1>5, <1>8, <2>2, <2>3, <2>5, <2>6, <2>7, <2>8, SpawnMaps
  <2> QED
    BY <2>8
<1> QED
  BY <1>9, <1>10

LEMMA WriteSectionMaps ==
    ASSUME IInv, NEW a \in Agents, WriteSection(a), NEW g \in Groups, View(g), View(g)'
    PROVE  Group(g)!Next \/ UNCHANGED Group(g)!vars
<1> USE DEF IInv
<1> DEFINE t == Top(a)
           f == frames'[a][1]
           k == frames'[a][2]
<1>0. PICK s \in Sections : s = t.begin + 1
  BY EnterEffect
<1>1. _workStack' = _workStack /\ ~Idle(a)
  BY DEF WriteSection, At
<1>2. /\ s - 1 = t.begin /\ t.begin < t.end /\ t.begin \in Nat
      /\ Len(frames'[a]) = 2 /\ DOMAIN frames'[a] = {1, 2}
      /\ DOMAIN frames[a] = {1} /\ frames[a][1] = t /\ t.group = Outer
      /\ \A b \in Agents : b # a => frames'[b] = frames[b]
      /\ f.group = Outer /\ f.end = t.end /\ f.kind = t.kind
      /\ k.group = s /\ k.kind = "call"
  BY <1>0, <1>1, EnterEffect, TopFacts
<1> HIDE DEF t, f, k
<1>3. Idle(a)' <=> Idle(a)
  <2>1. frames'[a] # <<>>
    <3>1. Len(frames'[a]) = 2
      BY <1>2
    <3> QED
      BY <3>1
  <2> QED
    BY <1>1, <2>1 DEF Idle
<1>4. QueuedEnds(g)' = QueuedEnds(g)
  BY <1>1 DEF QueuedEnds, Queued
<1>5. \A b \in Agents : \A d \in DOMAIN frames[b] :
          /\ d \in DOMAIN frames'[b]
          /\ frames'[b][d].group = frames[b][d].group /\ frames'[b][d].kind = frames[b][d].kind
          /\ frames'[b][d].end = frames[b][d].end
  <2>1. f.group = t.group /\ f.kind = t.kind /\ f.end = t.end
    BY <1>2
  <2>2. \A d \in DOMAIN frames[a] :
          /\ d \in DOMAIN frames'[a]
          /\ frames'[a][d].group = frames[a][d].group /\ frames'[a][d].kind = frames[a][d].kind
          /\ frames'[a][d].end = frames[a][d].end
    BY <1>2, <2>1 DEF f
  <2> QED
    BY <1>2, <2>2
<1>6. \A w \in Workers : ~Idle(w) =>
          frames'[w][1].group = frames[w][1].group /\ frames'[w][1].end = frames[w][1].end
  BY <1>5, FrameTypes, PlaceFacts
<1>7. Running(g)' = Running(g)
  <2>1. \A b \in Agents : Idle(b)' <=> Idle(b)
    BY <1>2, <1>3 DEF Idle
  <2> QED
    BY <1>6, <2>1, PlaceFacts DEF Running
<1>8. RunningEnds(g)' = RunningEnds(g)
  BY <1>6, <1>7 DEF RunningEnds, Running
<1>9. CASE g # s
  <2>1. Called(g)' <=> Called(g)
    <3>1. Called(g) => Called(g)'
      BY <1>5 DEF Called
    <3>2. ASSUME Called(g)' PROVE Called(g)
      <4>1. PICK b \in Agents : \E d \in DOMAIN frames'[b] :
                frames'[b][d].group = g /\ frames'[b][d].kind = "call"
        BY <3>2 DEF Called
      <4>2. PICK d \in DOMAIN frames'[b] : frames'[b][d].group = g /\ frames'[b][d].kind = "call"
        BY <4>1
      <4>3. ~(b = a /\ d = 2)
        BY <1>2, <1>9, <4>2 DEF k
      <4>4. d \in DOMAIN frames[b]
        BY <1>2, <4>3
      <4> QED
        BY <1>5, <4>2, <4>4 DEF Called
    <3> QED
      BY <3>1, <3>2
  <2> QED
    BY <1>4, <1>8, <2>1, SameMaps
<1>10. CASE g = s
  <2>1. Called(g)'
    BY <1>2, <1>10 DEF Called, k
  <2>2. ~Called(g)
    <3>1. Held(a) = frames[a] /\ a \in Places /\ t.end \in Nat
      BY <1>1, PlaceFacts, FrameTypes, TopFacts DEF t
    <3>2. Todo(Outer, s - 1)
      BY <1>2, <3>1 DEF Todo
    <3>3. \A p \in Places : \A d \in DOMAIN Held(p) : Held(p)[d].group # s
      BY <3>2 DEF WritesExact
    <3> QED
      BY <1>10, <3>3, PlaceFacts, FrameTypes DEF Called
  <2> QED
    BY <1>4, <1>8, <2>1, <2>2, OpenMaps
<1> QED
  BY <1>9, <1>10

\* The closure that ends is the only one of its name.
LEMMA EndClosureMaps ==
    ASSUME IInv, NEW a \in Agents, EndClosure(a), NEW g \in Groups, View(g), View(g)'
    PROVE  Group(g)!Next \/ UNCHANGED Group(g)!vars
<1> USE DEF IInv
<1> DEFINE t == Top(a).group
           x == Top(a).end
<1>1. /\ ~Idle(a) /\ Top(a).kind = "closure" /\ Leaves(a) /\ _workStack' = _workStack
  BY DEF EndClosure, At
<1>2. /\ Len(frames[a]) = 1 /\ a # Main /\ a \in Workers /\ t \in Groups
      /\ frames[a][1] = Top(a) /\ x \in Nat
  BY <1>1, TopFacts, PlaceFacts DEF Top
<1>3. /\ \A b \in Agents : b # a => frames'[b] = frames[b]
      /\ DOMAIN frames'[a] = {} /\ Idle(a)' /\ DOMAIN frames[a] = {1}
  <2>1. /\ frames' \in [Agents -> Seq(Frame)] /\ Len(frames'[a]) = Len(frames[a]) - 1
        /\ \A b \in Agents \ {a} : frames'[b] = frames[b]
    BY <1>1, LeavesEffect
  <2>2. frames'[a] \in Seq(Frame) /\ Len(frames'[a]) = 0
    BY <1>2, <2>1
  <2>3. frames'[a] = <<>>
    BY <2>2
  <2> QED
    BY <1>2, <2>1, <2>3, FrameTypes DEF Idle
<1>4. Called(g)' <=> Called(g)
  BY <1>1, <1>2, <1>3 DEF Called
<1>5. QueuedEnds(g)' = QueuedEnds(g)
  BY <1>1 DEF QueuedEnds, Queued
<1>6. Running(g)' = Running(g) \ {a}
  <2>1. \A b \in Agents : b # a => (Idle(b)' <=> Idle(b))
    BY <1>3 DEF Idle
  <2> QED
    BY <1>3, <2>1, PlaceFacts DEF Running
<1>7. a \in Running(t)
  BY <1>1, <1>2 DEF Running
<1>8. \A w \in Running(g) \ {a} : frames'[w][1] = frames[w][1]
  BY <1>3, PlaceFacts DEF Running
<1> HIDE DEF t, x
<1>9. CASE g # t
  <2>1. a \notin Running(g)
    BY <1>2, <1>9 DEF Running, t
  <2>2. RunningEnds(g)' = RunningEnds(g)
    BY <1>6, <1>8, <2>1 DEF RunningEnds
  <2> QED
    BY <1>4, <1>5, <2>2, SameMaps
<1>10. CASE g = t
  <2>1. \A w \in Running(g) : /\ w \in Workers /\ Held(w) = frames[w] /\ 1 \in DOMAIN Held(w)
                              /\ Held(w)[1].group = g
    BY FrameTypes, PlaceFacts DEF Running, Held
  <2>2. \A w \in Running(g) \ {a} : frames[w][1].end # frames[a][1].end
    BY <1>7, <1>10, <2>1 DEF EndsDiffer
  <2>3. x = frames[a][1].end /\ x \in RunningEnds(g)
    BY <1>2, <1>7, <1>10 DEF RunningEnds, x
  <2>4. RunningEnds(g)' = RunningEnds(g) \ {x}
    BY <1>6, <1>8, <2>2, <2>3 DEF RunningEnds
  <2>5. Called(g)
    BY <1>7, <1>10, <2>1, CallIsOpen, PlaceFacts
  <2>6. x # 0 => x \in Ends
    <3>1. x <= size[g]
      BY <1>1, <1>2, <1>7, <1>10, <2>1, <2>3, PlaceFacts DEF RangesFit
    <3> QED
      BY <1>2, <3>1, EndsAreTasks
  <2>7. 0 \in Ends
    BY ForEachAssumption DEF Ends
  <2>8. x \in Ends
    BY <2>6, <2>7
  <2>9. ASSUME NEW e, e = x PROVE Group(g)!Next
    BY <1>4, <1>5, <2>3, <2>4, <2>5, <2>8, <2>9, CompleteMaps
  <2> QED
    BY <2>9
<1> QED
  BY <1>9, <1>10

\* The call is left when none of its closures is queued or running.
LEMMA LeaveCallMaps ==
    ASSUME IInv, NEW a \in Agents, ~Idle(a), Top(a).kind = "call", _latch[Top(a).group] = 0,
           Leaves(a), _workStack' = _workStack, NEW g \in Groups, View(g), View(g)'
    PROVE  Group(g)!Next \/ UNCHANGED Group(g)!vars
<1> USE DEF IInv
<1> DEFINE t == Top(a).group
           n == Len(frames[a])
<1>1. /\ t \in Groups /\ n \in {1, 2} /\ frames[a][n] = Top(a) /\ n \in DOMAIN frames[a]
      /\ DOMAIN frames[a] = 1 .. n
  BY TopFacts, FrameTypes DEF Top
<1>2. /\ \A b \in Agents : b # a => frames'[b] = frames[b]
      /\ \A b \in Agents : \A d \in DOMAIN frames'[b] :
             d \in DOMAIN frames[b] /\ frames'[b][d] = frames[b][d]
      /\ DOMAIN frames'[a] = 1 .. n - 1 /\ Len(frames'[a]) = n - 1
  <2>1. DOMAIN frames'[a] = 1 .. Len(frames'[a]) /\ Len(frames'[a]) = Len(frames[a]) - 1
    BY LeavesEffect
  <2>2. /\ \A b \in Agents \ {a} : frames'[b] = frames[b]
        /\ \A b \in Agents : \A d \in DOMAIN frames'[b] :
               d \in DOMAIN frames[b] /\ frames'[b][d] = frames[b][d]
    BY LeavesEffect
  <2> QED
    BY <2>1, <2>2
<1>3. QueuedEnds(g)' = QueuedEnds(g)
  BY DEF QueuedEnds, Queued
<1>4. \A w \in Workers : /\ Idle(w)' <=> Idle(w)
                         /\ ~Idle(w) => frames'[w][1] = frames[w][1]
  <2> TAKE w \in Workers
  <2>1. w \in Agents /\ w # Main
    BY PlaceFacts
  <2>2. CASE w # a
    BY <1>2, <2>1, <2>2 DEF Idle
  <2>3. CASE w = a
    <3>1. n = 2
      BY <1>1, <2>1, <2>3 DEF FramesNest
    <3>2. 1 \in DOMAIN frames'[a] /\ Len(frames'[a]) = 1
      BY <1>2, <3>1
    <3>3. frames'[a] # <<>>
      <4>1. Len(frames'[a]) = 1
        BY <3>2
      <4> QED
        BY ONLY <4>1
    <3> QED
      BY <1>2, <2>3, <3>2, <3>3 DEF Idle
  <2> QED
    BY <2>2, <2>3
<1>5. Running(g)' = Running(g)
  BY <1>4 DEF Running
<1>6. RunningEnds(g)' = RunningEnds(g)
  BY <1>4, <1>5 DEF RunningEnds, Running
<1> HIDE DEF t
<1>7. CASE g # t
  <2>1. Called(g)' => Called(g)
    BY <1>2 DEF Called
  <2>2. ASSUME Called(g) PROVE Called(g)'
    <3>1. PICK b \in Agents : \E d \in DOMAIN frames[b] :
              frames[b][d].group = g /\ frames[b][d].kind = "call"
      BY <2>2 DEF Called
    <3>2. PICK d \in DOMAIN frames[b] : frames[b][d].group = g /\ frames[b][d].kind = "call"
      BY <3>1
    <3>3. ~(b = a /\ d = n)
      BY <1>1, <1>7, <3>2 DEF t
    <3>4. d \in DOMAIN frames'[b]
      BY <1>1, <1>2, <3>3
    <3> QED
      BY <1>2, <3>2, <3>4 DEF Called
  <2> QED
    BY <1>3, <1>6, <2>1, <2>2, SameMaps
<1>8. CASE g = t
  <2>1. Called(g)
    BY <1>1, <1>8 DEF Called, t
  <2>2. ASSUME Called(g)' PROVE FALSE
    <3>1. PICK b \in Agents : \E d \in DOMAIN frames'[b] :
              frames'[b][d].group = g /\ frames'[b][d].kind = "call"
      BY <2>2 DEF Called
    <3>2. PICK d \in DOMAIN frames'[b] : frames'[b][d].group = g /\ frames'[b][d].kind = "call"
      BY <3>1
    <3>3. d \in DOMAIN frames[b] /\ frames[b][d].group = g /\ frames[b][d].kind = "call"
      BY <1>2, <3>2
    <3>4. b = a /\ d = n
      BY <1>1, <1>8, <3>3, OneCall DEF t
    <3> QED
      BY <1>1, <1>2, <3>4
  <2>3. QueuedEnds(g) = {} /\ RunningEnds(g) = {}
    BY <1>1, <1>8, GroupSets DEF QueuedEnds, RunningEnds, t
  <2> QED
    BY <1>3, <1>6, <2>1, <2>2, <2>3, CloseMaps
<1> QED
  BY <1>7, <1>8

\* The closure that a worker takes leaves the queue and runs.
LEMMA TakeClosureMaps ==
    ASSUME IInv, NEW w \in Workers, TakeClosure(w), NEW g \in Groups, View(g), View(g)'
    PROVE  Group(g)!Next \/ UNCHANGED Group(g)!vars
<1> USE DEF IInv
<1> DEFINE n == Len(_workStack)
           c == _workStack[n]
           f == frames'[w][1]
<1>1. /\ n \in DOMAIN Held(Stack) /\ Held(Stack)[n] = c /\ c.group \in Groups
      /\ DOMAIN frames'[w] = {1} /\ Len(frames'[w]) = 1
      /\ f.group = c.group /\ f.end = c.end /\ f.kind = "closure"
      /\ \A b \in Agents : b # w => frames'[b] = frames[b]
      /\ frames[w] = <<>> /\ DOMAIN frames[w] = {}
      /\ DOMAIN _workStack' = DOMAIN _workStack \ {n} /\ n \in DOMAIN _workStack
      /\ \A i \in DOMAIN _workStack' : _workStack'[i] = _workStack[i]
  BY TakeEffect
<1>2. w \in Agents /\ Stack \in Places /\ Held(Stack) = _workStack
  BY PlaceFacts DEF Held
<1> HIDE DEF n, c, f
<1>3. Called(g)' <=> Called(g)
  BY <1>1 DEF Called, f
<1>4. Idle(w) /\ ~Idle(w)' /\ \A b \in Agents : b # w => (Idle(b)' <=> Idle(b))
  <2>1. frames'[w] # <<>>
    <3>1. Len(frames'[w]) = 1
      BY <1>1
    <3> QED
      BY <3>1
  <2> QED
    BY <1>1, <2>1 DEF Idle
<1>5. \A b \in Running(g) : b # w /\ frames'[b] = frames[b]
  BY <1>1, <1>4, PlaceFacts DEF Running
<1>6. CASE g # c.group
  <2>1. Queued(g)' = Queued(g)
    BY <1>1, <1>6 DEF Queued, c
  <2>2. QueuedEnds(g)' = QueuedEnds(g)
    BY <1>1, <1>6 DEF QueuedEnds, Queued, c
  <2>3. Running(g)' = Running(g)
    BY <1>1, <1>4, <1>6, PlaceFacts DEF Running, f
  <2>4. RunningEnds(g)' = RunningEnds(g)
    BY <1>5, <2>3 DEF RunningEnds
  <2> QED
    BY <1>3, <2>2, <2>4, SameMaps
<1>7. CASE g = c.group
  <2>1. Queued(g)' = Queued(g) \ {n} /\ n \in Queued(g)
    BY <1>1, <1>7 DEF Queued, c
  <2>2. \A i \in Queued(g) \ {n} : _workStack[i].end # c.end
    <3>1. \A i \in Queued(g) : i \in DOMAIN Held(Stack) /\ Held(Stack)[i].group = Held(Stack)[n].group
      BY <1>1, <1>2, <1>7 DEF Queued
    <3> QED
      BY <1>1, <1>2, <2>1, <3>1 DEF EndsDiffer
  <2>3. QueuedEnds(g)' = QueuedEnds(g) \ {c.end} /\ c.end \in QueuedEnds(g)
    <3>1. _workStack[n].end = c.end
      BY DEF c
    <3>2. \A i \in Queued(g) \ {n} : _workStack'[i] = _workStack[i]
      BY <1>1 DEF Queued
    <3> QED
      BY <2>1, <2>2, <3>1, <3>2 DEF QueuedEnds
  <2>4. Running(g)' = Running(g) \cup {w}
    BY <1>1, <1>4, <1>7, PlaceFacts DEF Running, f
  <2>5. RunningEnds(g)' = RunningEnds(g) \cup {c.end}
    <3>1. frames'[w][1].end = c.end
      BY <1>1 DEF f
    <3> QED
      BY <1>5, <2>4, <3>1 DEF RunningEnds
  <2>6. Called(g)
    BY <1>1, <1>2, <1>7, CallIsOpen
  <2>7. c.end \in Ends
    <3>1. c.end \in Nat /\ c.end <= size[g]
      BY <1>1, <1>2, <1>7, HeldTypes DEF RangesFit
    <3>2. 0 \in Ends
      BY ForEachAssumption DEF Ends
    <3> QED
      BY <3>1, <3>2, EndsAreTasks
  <2>8. ASSUME NEW e, e = c.end PROVE Group(g)!Next
    BY <1>3, <2>3, <2>5, <2>6, <2>7, <2>8, StartMaps
  <2> QED
    BY <2>8
<1> QED
  BY <1>6, <1>7

\* parallel_for_each implements the promise of module TaskGroup for the group of
\* writeOutput and for that of each section.
THEOREM ForEachImplementsTaskGroup == Spec => ImplementsTaskGroup
<1>1. Init => \A s \in Sections : Group(s)!Init
  <2> SUFFICES ASSUME Init, NEW s \in Sections PROVE Group(s)!Init
    OBVIOUS
  <2>1. IInv /\ s \in Groups
    BY InitIInv, GroupFacts
  <2>2. frames = [a \in Agents |-> IF a = Main THEN <<CallOf(Outer)>> ELSE <<>>] /\ _workStack = <<>>
    BY DEF Init
  <2>3. CallOf(Outer).group = Outer
    BY DEF CallOf
  <2>4. Queued(s) = {}
    <3>1. DOMAIN _workStack = {}
      BY <2>2
    <3> QED
      BY <3>1 DEF Queued
  <2>5. \A a \in Agents : \A d \in DOMAIN frames[a] : frames[a][d].group # s
    <3>1. /\ DOMAIN frames[Main] = {1} /\ frames[Main][1] = CallOf(Outer)
          /\ \A a \in Agents : a # Main => DOMAIN frames[a] = {}
      BY <2>2, PlaceFacts
    <3> QED
      BY <2>3, <3>1, GroupFacts
  <2>6. ~Called(s)
    BY <2>5 DEF Called
  <2>7. Running(s) = {}
    <3>1. \A w \in Workers : ~Idle(w) => w \in Agents /\ 1 \in DOMAIN frames[w]
      BY <2>1, FrameTypes, PlaceFacts DEF IInv
    <3> QED
      BY <2>5, <3>1 DEF Running
  <2>8. QueuedEnds(s) = {} /\ RunningEnds(s) = {} /\ Called(s) = FALSE
    BY <2>4, <2>6, <2>7 DEF QueuedEnds, RunningEnds, Called
  <2>9. View(s)
    BY <2>1, GroupView
  <2> QED
    BY <2>8, <2>9 DEF Group!Init, View
<1>2. IInv' => (\A g \in Groups : View(g))'
  BY GroupView, PTL
<1>3. IInv /\ IInv' /\ [Next]_vars => [\A g \in Groups : Group(g)!Next \/ UNCHANGED Group(g)!vars]_vars
  <2> SUFFICES ASSUME IInv, IInv', Next, NEW g \in Groups
               PROVE  Group(g)!Next \/ UNCHANGED Group(g)!vars
    OBVIOUS
  <2>1. View(g) /\ View(g)'
    BY <1>2, GroupView
  <2>2. ASSUME NEW a \in Agents, AgentStep(a)
        PROVE  Group(g)!Next \/ UNCHANGED Group(g)!vars
    <3>1. CASE SpawnTask(a)
      BY <2>1, <3>1, SpawnTaskMaps
    <3>2. CASE EndSpawn(a)
      BY <2>1, <3>2, EndSpawnMaps, SameMaps
    <3>3. CASE WriteSection(a)
      BY <2>1, <3>3, WriteSectionMaps
    <3>4. CASE WriteAtom(a)
      BY <2>1, <3>4, WriteAtomMaps, SameMaps
    <3>5. CASE EndCall(a)
      BY <2>1, <3>5, EndCallMaps, SameMaps
    <3>6. CASE EndClosure(a)
      BY <2>1, <3>6, EndClosureMaps
    <3>7. CASE SectionWritten(a)
      <4>1. /\ ~Idle(a) /\ Top(a).at = "sync" /\ _latch[Top(a).group] = 0 /\ Leaves(a)
            /\ _workStack' = _workStack
        BY <3>7 DEF SectionWritten, Synced, At
      <4>2. Top(a).kind = "call"
        BY <4>1, TopFacts
      <4> QED
        BY <2>1, <4>1, <4>2, LeaveCallMaps
    <3>8. CASE FatalError(a)
      BY <2>1, <3>8, FatalErrorMaps, SameMaps
    <3>9. CASE ExitReturns(a)
      <4>1. frames' = frames /\ _workStack' = _workStack
        BY <3>9 DEF ExitReturns
      <4> QED
        BY <4>1 DEF Group!vars, InFrames, InStack
    <3>10. CASE a \in Workers /\ TakeClosure(a)
      BY <2>1, <3>10, TakeClosureMaps
    <3>11. CASE a \in Workers /\ LeaveWork(a)
      <4>1. frames' = frames /\ _workStack' = _workStack
        BY <3>11 DEF LeaveWork
      <4> QED
        BY <4>1 DEF Group!vars, InFrames, InStack
    <3>12. CASE Commit
      <4>1. /\ ~Idle(Main) /\ Top(Main).at = "sync" /\ _latch[Top(Main).group] = 0 /\ Leaves(Main)
            /\ _workStack' = _workStack /\ Main \in Agents
        BY <3>12, PlaceFacts DEF Commit, Synced, At
      <4>2. Top(Main).kind = "call"
        BY <4>1, TopFacts
      <4> QED
        BY <2>1, <4>1, <4>2, LeaveCallMaps
    <3> QED
      BY <2>2, <3>1, <3>2, <3>3, <3>4, <3>5, <3>6, <3>7, <3>8, <3>9, <3>10, <3>11, <3>12
         DEF AgentStep, ForEachStep, WorkerStep
  <2> QED
    BY <2>2 DEF Next
<1> QED
  BY <1>1, <1>3, ForEachInductive, PTL DEF Spec, ImplementsTaskGroup
=============================================================================
