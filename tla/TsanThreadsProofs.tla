------------------------- MODULE TsanThreadsProofs -------------------------
(***************************************************************************)
(* Proofs about TsanThreads, for any number of contexts and sync objects   *)
(* and any sizes of the quarantine and of dirty_tids.                      *)
(*                                                                         *)
(* First what each operation of tsan_clock.cc does to the relations between *)
(* clocks, as facts about the operators of TsanClock; then the registry;   *)
(* then the steps of the program.                                          *)
(***************************************************************************)
EXTENDS TsanThreads, FiniteSetTheorems, TLAPS

LEMMA TidsAreNat == Tids \subseteq Nat /\ \A i \in Tids : i < max_threads
  BY ThreadIdsAssumption DEF Tids

LEMMA ThreadClockFields ==
    ASSUME NEW T \in ThreadClock
    PROVE  /\ T.tid \in Tids /\ T.reused \in Nat /\ T.last_acquire \in Nat
           /\ T.nclk \in Nat /\ T.nclk <= max_threads
           /\ T.clk \in Vector /\ \A i \in Tids : T.clk[i] \in Nat
  BY ThreadIdsAssumption DEF ThreadClock, Vector

LEMMA SyncClockFields ==
    ASSUME NEW S \in SyncClock
    PROVE  /\ S.size \in Nat /\ S.size <= max_threads
           /\ S.epoch \in Vector /\ \A i \in Tids : S.epoch[i] \in Nat
           /\ S.reused \in Vector /\ \A i \in Tids : S.reused[i] \in Nat
           /\ S.dirty \subseteq Tids
           /\ S.release_store_tid \in Tids \cup {kInvalidTid}
           /\ S.release_store_reused \in Nat
  BY ThreadIdsAssumption DEF SyncClock, Vector

\* What a record built from fields of the right type is.
LEMMA MakeSyncClock ==
    ASSUME NEW size \in Nat, size <= max_threads, NEW e \in Vector, NEW r \in Vector,
           NEW d \in SUBSET Tids, NEW st \in Tids \cup {kInvalidTid}, NEW sr \in Nat
    PROVE  [size |-> size, epoch |-> e, reused |-> r, dirty |-> d,
            release_store_tid |-> st, release_store_reused |-> sr] \in SyncClock
  BY ThreadIdsAssumption DEF SyncClock

-----------------------------------------------------------------------------
(* ThreadClock::set                                                        *)

\* The thread's own time moves on to v.
LEMMA SetOwnFields ==
    ASSUME NEW T \in ThreadClock, NEW v \in Nat
    PROVE  /\ SetOwn(T, v) \in ThreadClock
           /\ SetOwn(T, v).tid = T.tid
           /\ SetOwn(T, v).reused = T.reused
           /\ SetOwn(T, v).nclk = T.nclk
           /\ SetOwn(T, v).last_acquire = T.last_acquire
           /\ \A i \in Tids :
                 SetOwn(T, v).clk[i] = IF i = T.tid THEN v ELSE T.clk[i]
  BY DEF SetOwn, ThreadClock, Vector

LEMMA SetOwnOK ==
    ASSUME NEW T \in ThreadClock, NEW v \in Nat, NEW E \in Vector, NEW F \in Vector,
           ThreadOK(T, E), v >= T.clk[T.tid], v <= F[T.tid],
           \A i \in Tids : E[i] <= F[i]
    PROVE  ThreadOK(SetOwn(T, v), F)
  <1> DEFINE U == SetOwn(T, v)
  <1>1. /\ U.tid = T.tid /\ U.reused = T.reused /\ U.nclk = T.nclk
        /\ U.last_acquire = T.last_acquire
        /\ \A i \in Tids : U.clk[i] = IF i = T.tid THEN v ELSE T.clk[i]
    BY SetOwnFields
  <1> HIDE DEF U
  <1>2. \A i \in Tids : E[i] \in Nat /\ F[i] \in Nat
    BY DEF Vector
  <1>3. ThreadOK(U, F)
    BY <1>1, <1>2, ThreadClockFields DEF ThreadOK
  <1>. QED
    BY <1>3 DEF U

LEMMA SetOwnPair ==
    ASSUME NEW T \in ThreadClock, NEW v \in Nat, NEW S \in SyncClock, PairOK(T, S)
    PROVE  PairOK(SetOwn(T, v), S)
  <1> DEFINE U == SetOwn(T, v)
  <1>1. /\ U.tid = T.tid /\ U.reused = T.reused /\ U.nclk = T.nclk
        /\ U.last_acquire = T.last_acquire
        /\ \A i \in Tids \ {T.tid} : U.clk[i] = T.clk[i]
    BY SetOwnFields
  <1> HIDE DEF U
  <1>3. PairOK(U, S)
    BY <1>1 DEF PairOK, Covers, HasAcquired, StoredBy
  <1>. QED
    BY <1>3 DEF U

LEMMA SetOwnCovers ==
    ASSUME NEW T \in ThreadClock, NEW v \in Nat, NEW c \in Vector
    PROVE  Covers(c, T) => Covers(c, SetOwn(T, v))
  <1> DEFINE U == SetOwn(T, v)
  <1>1. /\ U.tid = T.tid /\ U.last_acquire = T.last_acquire
        /\ \A i \in Tids \ {T.tid} : U.clk[i] = T.clk[i]
    BY SetOwnFields
  <1> HIDE DEF U
  <1>3. Covers(c, T) => Covers(c, U)
    BY <1>1 DEF Covers
  <1>. QED
    BY <1>3 DEF U

\* Another thread's component may only grow.
LEMMA SetOwnCoversOther ==
    ASSUME NEW T \in ThreadClock, NEW v \in Nat, NEW X \in ThreadClock,
           X.tid # T.tid, v >= T.clk[T.tid], Covers(T.clk, X)
    PROVE  Covers(SetOwn(T, v).clk, X)
  <1> DEFINE c == SetOwn(T, v).clk
  <1>1. \A i \in Tids : c[i] = IF i = T.tid THEN v ELSE T.clk[i]
    BY SetOwnFields
  <1> HIDE DEF c
  <1>2. Covers(c, X)
    BY <1>1, ThreadClockFields DEF Covers
  <1>. QED
    BY <1>2 DEF c

-----------------------------------------------------------------------------
(* ThreadClock::acquire                                                    *)

LEMMA MaximumIsMax ==
    ASSUME NEW a \in Nat, NEW b \in Nat
    PROVE  /\ Maximum(a, b) \in Nat
           /\ Maximum(a, b) >= a /\ Maximum(a, b) >= b
           /\ Maximum(a, b) = a \/ Maximum(a, b) = b
  BY DEF Maximum

LEMMA AcquireFields ==
    ASSUME NEW T \in ThreadClock, NEW S \in SyncClock
    PROVE  /\ AcquireThread(T, S) \in ThreadClock
           /\ AcquireThread(T, S).tid = T.tid
           /\ AcquireThread(T, S).reused = T.reused
           /\ AcquireThread(T, S).nclk =
                  IF HasAcquired(T, S) THEN T.nclk ELSE Maximum(T.nclk, S.size)
           /\ \A i \in Tids : AcquireThread(T, S).clk[i] =
                  IF i \in ComponentsToAcquire(T, S)
                  THEN Maximum(T.clk[i], S.epoch[i]) ELSE T.clk[i]
           /\ \/ /\ AcquireThread(T, S).clk = T.clk
                 /\ AcquireThread(T, S).last_acquire = T.last_acquire
              \/ AcquireThread(T, S).last_acquire = AcquireThread(T, S).clk[T.tid]
  <1> DEFINE clk == [i \in Tids |-> IF i \in ComponentsToAcquire(T, S)
                                    THEN Maximum(T.clk[i], S.epoch[i]) ELSE T.clk[i]]
             n == IF HasAcquired(T, S) THEN T.nclk ELSE Maximum(T.nclk, S.size)
             la == IF clk = T.clk THEN T.last_acquire ELSE clk[T.tid]
  <1>1. AcquireThread(T, S) = [T EXCEPT !.clk = clk, !.nclk = n, !.last_acquire = la]
    BY DEF AcquireThread
  <1>2. clk \in Vector /\ la \in Nat /\ n \in 0 .. max_threads
    <2>1. \A i \in Tids : Maximum(T.clk[i], S.epoch[i]) \in Nat
      BY ThreadClockFields, SyncClockFields, MaximumIsMax
    <2>2. clk \in Vector
      BY <2>1, ThreadClockFields DEF Vector
    <2>3. n \in Nat /\ n <= max_threads
      BY ThreadClockFields, SyncClockFields, MaximumIsMax
    <2>4. la \in Nat
      BY <2>2, ThreadClockFields DEF Vector
    <2>. QED
      BY <2>2, <2>3, <2>4, ThreadIdsAssumption
  <1>3. \A i \in Tids : clk[i] = IF i \in ComponentsToAcquire(T, S)
                                 THEN Maximum(T.clk[i], S.epoch[i]) ELSE T.clk[i]
    OBVIOUS
  <1>4. (clk = T.clk /\ la = T.last_acquire) \/ la = clk[T.tid]
    OBVIOUS
  <1> HIDE DEF clk, n, la
  <1>5. n = IF HasAcquired(T, S) THEN T.nclk ELSE Maximum(T.nclk, S.size)
    BY DEF n
  <1>. QED
    BY <1>1, <1>2, <1>3, <1>4, <1>5 DEF ThreadClock

\* The shortcut takes nothing away: an acquire is always the full maximum.
LEMMA AcquireIsJoin ==
    ASSUME NEW T \in ThreadClock, NEW S \in SyncClock, NEW E \in Vector,
           ThreadOK(T, E), SyncOK(S, E), PairOK(T, S), T.clk[T.tid] = E[T.tid]
    PROVE  /\ \A i \in Tids :
                 AcquireThread(T, S).clk[i] = Maximum(T.clk[i], S.epoch[i])
           /\ AcquireThread(T, S).clk[T.tid] = T.clk[T.tid]
  <1>1. ASSUME NEW i \in Tids, i \notin ComponentsToAcquire(T, S)
        PROVE  S.epoch[i] <= T.clk[i]
    <2>1. CASE i = T.tid
      BY <2>1 DEF SyncOK
    <2>2. CASE i # T.tid /\ HasAcquired(T, S)
      BY <1>1, <2>2 DEF ComponentsToAcquire, PairOK
    <2>3. CASE ~HasAcquired(T, S)
      <3>1. S.epoch[i] = 0
        BY <1>1, <2>3, TidsAreNat, SyncClockFields DEF ComponentsToAcquire, SyncOK
      <3>. QED
        BY <3>1, ThreadClockFields
    <2>. QED
      BY <2>1, <2>2, <2>3
  <1>2. ASSUME NEW i \in Tids
        PROVE  AcquireThread(T, S).clk[i] = Maximum(T.clk[i], S.epoch[i])
    <2>1. S.epoch[i] <= T.clk[i] => Maximum(T.clk[i], S.epoch[i]) = T.clk[i]
      BY ThreadClockFields, SyncClockFields DEF Maximum
    <2>. QED
      BY <1>1, <2>1, AcquireFields
  <1>3. Maximum(T.clk[T.tid], S.epoch[T.tid]) = T.clk[T.tid]
    BY ThreadClockFields, SyncClockFields DEF Maximum, SyncOK
  <1>. QED
    BY <1>2, <1>3, ThreadClockFields

LEMMA AcquireOK ==
    ASSUME NEW T \in ThreadClock, NEW S \in SyncClock, NEW E \in Vector,
           ThreadOK(T, E), SyncOK(S, E), PairOK(T, S), T.clk[T.tid] = E[T.tid]
    PROVE  ThreadOK(AcquireThread(T, S), E)
  <1> DEFINE A == AcquireThread(T, S)
  <1>1. /\ A \in ThreadClock /\ A.tid = T.tid /\ A.reused = T.reused
        /\ A.nclk = IF HasAcquired(T, S) THEN T.nclk ELSE Maximum(T.nclk, S.size)
        /\ A.last_acquire = T.last_acquire \/ A.last_acquire = A.clk[T.tid]
    BY AcquireFields
  <1>2. /\ \A i \in Tids : A.clk[i] = Maximum(T.clk[i], S.epoch[i])
        /\ A.clk[T.tid] = T.clk[T.tid]
    BY AcquireIsJoin
  <1> HIDE DEF A
  <1>3. A.nclk >= T.nclk /\ (~HasAcquired(T, S) => A.nclk >= S.size)
    <2>1. T.nclk \in Nat /\ S.size \in Nat
      BY ThreadClockFields, SyncClockFields
    <2>. QED
      BY <1>1, <2>1 DEF Maximum
  <1>4. ASSUME NEW i \in Tids
        PROVE  A.clk[i] <= E[i] /\ (A.clk[i] # 0 => i < A.nclk)
    <2>1. /\ i \in Nat /\ T.clk[i] \in Nat /\ S.epoch[i] \in Nat /\ A.nclk \in Nat
          /\ T.nclk \in Nat /\ S.size \in Nat
      BY <1>1, TidsAreNat, ThreadClockFields, SyncClockFields
    <2>2. /\ T.clk[i] <= E[i] /\ (T.clk[i] # 0 => i < T.nclk)
          /\ S.epoch[i] <= E[i] /\ (S.epoch[i] # 0 => i < S.size)
      BY DEF ThreadOK, SyncOK
    <2>3. HasAcquired(T, S) /\ S.epoch[i] # 0 => i < T.nclk
      BY DEF PairOK, ThreadOK
    <2>4. A.clk[i] = T.clk[i] \/ A.clk[i] = S.epoch[i]
      BY <1>2, <2>1, MaximumIsMax
    <2>. QED
      BY <1>3, <2>1, <2>2, <2>3, <2>4
  <1>5. A.tid < A.nclk /\ A.reused # 0 /\ A.last_acquire <= A.clk[A.tid]
    <2>1. /\ T.tid \in Nat /\ T.nclk \in Nat /\ A.nclk \in Nat
          /\ T.clk[T.tid] \in Nat /\ T.last_acquire \in Nat
      BY <1>1, TidsAreNat, ThreadClockFields
    <2>2. T.tid < T.nclk /\ T.reused # 0 /\ T.last_acquire <= T.clk[T.tid]
      BY DEF ThreadOK
    <2>. QED
      BY <1>1, <1>2, <1>3, <2>1, <2>2
  <1>6. ThreadOK(A, E)
    BY <1>4, <1>5 DEF ThreadOK
  <1>. QED
    BY <1>6 DEF A

\* An acquire that brought something counts as the last one: nobody has seen
\* the thread after it.
LEMMA AcquireCovers ==
    ASSUME NEW T \in ThreadClock, NEW S \in SyncClock, NEW E \in Vector,
           ThreadOK(T, E), SyncOK(S, E), PairOK(T, S), T.clk[T.tid] = E[T.tid],
           NEW c \in Vector, c[T.tid] <= E[T.tid], Covers(c, T)
    PROVE  Covers(c, AcquireThread(T, S))
  <1> DEFINE A == AcquireThread(T, S)
  <1>1. /\ A.tid = T.tid
        /\ \/ A.clk = T.clk /\ A.last_acquire = T.last_acquire
           \/ A.last_acquire = A.clk[T.tid]
    BY AcquireFields
  <1>2. A.clk[T.tid] = T.clk[T.tid]
    BY AcquireIsJoin
  <1> HIDE DEF A
  <1>3. c[T.tid] \in Nat /\ E[T.tid] \in Nat
    BY ThreadClockFields DEF Vector
  <1>4. Covers(c, A)
    BY <1>1, <1>2, <1>3 DEF Covers
  <1>. QED
    BY <1>4 DEF A

LEMMA AcquireGrows ==
    ASSUME NEW T \in ThreadClock, NEW S \in SyncClock, NEW E \in Vector,
           ThreadOK(T, E), SyncOK(S, E), PairOK(T, S), T.clk[T.tid] = E[T.tid]
    PROVE  /\ AcquireThread(T, S).nclk >= T.nclk
           /\ \A i \in Tids : /\ AcquireThread(T, S).clk[i] >= T.clk[i]
                              /\ AcquireThread(T, S).clk[i] >= S.epoch[i]
  <1>1. AcquireThread(T, S).nclk >= T.nclk
    <2>1. AcquireThread(T, S).nclk =
              IF HasAcquired(T, S) THEN T.nclk ELSE Maximum(T.nclk, S.size)
      BY AcquireFields
    <2>2. T.nclk \in Nat /\ S.size \in Nat
      BY ThreadClockFields, SyncClockFields
    <2>. QED
      BY <2>1, <2>2 DEF Maximum
  <1>2. ASSUME NEW i \in Tids
        PROVE  /\ AcquireThread(T, S).clk[i] >= T.clk[i]
               /\ AcquireThread(T, S).clk[i] >= S.epoch[i]
    <2>1. AcquireThread(T, S).clk[i] = Maximum(T.clk[i], S.epoch[i])
      BY AcquireIsJoin
    <2>. QED
      BY <2>1, ThreadClockFields, SyncClockFields, MaximumIsMax
  <1>. QED
    BY <1>1, <1>2

LEMMA AcquirePair ==
    ASSUME NEW T \in ThreadClock, NEW S \in SyncClock, NEW E \in Vector,
           ThreadOK(T, E), SyncOK(S, E), PairOK(T, S), T.clk[T.tid] = E[T.tid],
           NEW S2 \in SyncClock, SyncOK(S2, E), PairOK(T, S2)
    PROVE  PairOK(AcquireThread(T, S), S2)
  <1> DEFINE A == AcquireThread(T, S)
  <1>1. /\ A \in ThreadClock /\ A.tid = T.tid /\ A.reused = T.reused
        /\ A.nclk >= T.nclk /\ \A i \in Tids : A.clk[i] >= T.clk[i]
    BY AcquireFields, AcquireGrows
  <1>2. Covers(S2.epoch, A)
    BY AcquireCovers, SyncClockFields, ThreadClockFields DEF PairOK, SyncOK
  <1> HIDE DEF A
  <1>3. HasAcquired(A, S2) = HasAcquired(T, S2) /\ StoredBy(A, S2) = StoredBy(T, S2)
    BY <1>1 DEF HasAcquired, StoredBy
  <1>4. ASSUME NEW i \in Tids
        PROVE  /\ S2.epoch[i] <= T.clk[i] => S2.epoch[i] <= A.clk[i]
               /\ i < T.nclk => i < A.nclk
    BY <1>1, TidsAreNat, ThreadClockFields, SyncClockFields
  <1>5. PairOK(A, S2)
    BY <1>1, <1>2, <1>3, <1>4 DEF PairOK
  <1>. QED
    BY <1>5 DEF A

-----------------------------------------------------------------------------
(* The flag that acquire leaves in the sync clock                          *)

LEMMA AcquireSyncFields ==
    ASSUME NEW T \in ThreadClock, NEW S \in SyncClock
    PROVE  /\ AcquireSync(T, S) \in SyncClock
           /\ AcquireSync(T, S).size = S.size
           /\ AcquireSync(T, S).epoch = S.epoch
           /\ AcquireSync(T, S).dirty = S.dirty
           /\ AcquireSync(T, S).release_store_tid = S.release_store_tid
           /\ AcquireSync(T, S).release_store_reused = S.release_store_reused
           /\ \A i \in Tids : AcquireSync(T, S).reused[i] =
                 IF i = T.tid /\ i < S.size THEN T.reused ELSE S.reused[i]
  <1>1. CASE T.tid < S.size
    <2> DEFINE r == [S.reused EXCEPT ![T.tid] = T.reused]
    <2>1. r \in Vector
      BY ThreadClockFields, SyncClockFields DEF Vector
    <2>2. \A i \in Tids : r[i] = IF i = T.tid THEN T.reused ELSE S.reused[i]
      BY SyncClockFields DEF Vector
    <2>3. AcquireSync(T, S) = [S EXCEPT !.reused = r]
      BY <1>1 DEF AcquireSync
    <2> HIDE DEF r
    <2>. QED
      BY <1>1, <2>1, <2>2, <2>3 DEF SyncClock
  <1>2. CASE ~(T.tid < S.size)
    BY <1>2 DEF AcquireSync
  <1>. QED
    BY <1>1, <1>2

LEMMA AcquireSyncOK ==
    ASSUME NEW T \in ThreadClock, NEW S \in SyncClock, NEW E \in Vector, SyncOK(S, E)
    PROVE  SyncOK(AcquireSync(T, S), E)
  <1> DEFINE A == AcquireSync(T, S)
  <1>1. /\ A.size = S.size /\ A.epoch = S.epoch /\ A.dirty = S.dirty
        /\ \A i \in Tids : A.reused[i] =
                IF i = T.tid /\ i < S.size THEN T.reused ELSE S.reused[i]
    BY AcquireSyncFields
  <1> HIDE DEF A
  <1>2. SyncOK(A, E)
    BY <1>1 DEF SyncOK
  <1>. QED
    BY <1>2 DEF A

\* The acquirer deserves its flag.
LEMMA AcquireSyncPair ==
    ASSUME NEW T \in ThreadClock, NEW S \in SyncClock, NEW E \in Vector,
           ThreadOK(T, E), SyncOK(S, E), PairOK(T, S), T.clk[T.tid] = E[T.tid]
    PROVE  PairOK(AcquireThread(T, S), AcquireSync(T, S))
  <1> DEFINE A == AcquireThread(T, S)
             B == AcquireSync(T, S)
  <1>1. B.epoch = S.epoch /\ B.dirty = S.dirty /\ B.size = S.size
        /\ B.release_store_tid = S.release_store_tid
        /\ B.release_store_reused = S.release_store_reused
    BY AcquireSyncFields
  <1>2. A.tid = T.tid /\ \A i \in Tids : S.epoch[i] <= A.clk[i]
    BY AcquireFields, AcquireGrows, ThreadClockFields, SyncClockFields
  <1>3. PairOK(A, S)
    BY AcquirePair
  <1>4. \A i \in Tids : S.epoch[i] # 0 => i < A.nclk
    <2>1. ThreadOK(A, E) /\ A \in ThreadClock
      BY AcquireOK, AcquireFields
    <2> HIDE DEF A
    <2>. QED
      BY <1>2, <2>1, ThreadClockFields, SyncClockFields DEF ThreadOK
  <1> HIDE DEF A, B
  <1>5. PairOK(A, B)
    BY <1>1, <1>2, <1>3, <1>4 DEF PairOK, Covers, StoredBy
  <1>. QED
    BY <1>5 DEF A, B

LEMMA AcquireSyncPairOther ==
    ASSUME NEW T \in ThreadClock, NEW S \in SyncClock, NEW X \in ThreadClock,
           X.tid # T.tid, PairOK(X, S)
    PROVE  PairOK(X, AcquireSync(T, S))
  <1> DEFINE B == AcquireSync(T, S)
  <1>1. B.epoch = S.epoch /\ B.dirty = S.dirty /\ B.size = S.size
        /\ B.release_store_tid = S.release_store_tid
        /\ B.release_store_reused = S.release_store_reused
        /\ B.reused[X.tid] = S.reused[X.tid]
    BY AcquireSyncFields, ThreadClockFields
  <1> HIDE DEF B
  <1>2. PairOK(X, B)
    BY <1>1 DEF PairOK, Covers, StoredBy, HasAcquired
  <1>. QED
    BY <1>2 DEF B

\* A maximum of two clocks covers what both cover.
LEMMA JoinCovers ==
    ASSUME NEW c \in Vector, NEW d \in Vector, NEW j \in Vector, NEW X \in ThreadClock,
           Covers(c, X), Covers(d, X), \A i \in Tids : j[i] = Maximum(c[i], d[i])
    PROVE  Covers(j, X)
  <1>1. \A i \in Tids : /\ c[i] \in Nat /\ d[i] \in Nat /\ j[i] >= c[i] /\ j[i] >= d[i]
                        /\ j[i] \in Nat /\ (j[i] = c[i] \/ j[i] = d[i])
    BY MaximumIsMax DEF Vector
  <1>2. X.tid \in Tids /\ \A i \in Tids : X.clk[i] \in Nat
    BY ThreadClockFields
  <1>. QED
    BY <1>1, <1>2 DEF Covers

-----------------------------------------------------------------------------
(* SyncClock::Resize                                                       *)

LEMMA ResizeFields ==
    ASSUME NEW S \in SyncClock, NEW n \in Nat, n <= max_threads
    PROVE  /\ Resize(S, n) \in SyncClock
           /\ Resize(S, n).size >= S.size /\ Resize(S, n).size >= n
           /\ Resize(S, n).epoch = S.epoch
           /\ Resize(S, n).reused = S.reused
           /\ Resize(S, n).dirty = S.dirty
           /\ Resize(S, n).release_store_tid = S.release_store_tid
           /\ Resize(S, n).release_store_reused = S.release_store_reused
  <1> DEFINE z == Maximum(S.size, n)
  <1>1. z \in 0 .. max_threads /\ z >= S.size /\ z >= n
    BY SyncClockFields, ThreadIdsAssumption DEF Maximum
  <1>2. Resize(S, n) = [S EXCEPT !.size = z]
    BY DEF Resize
  <1> HIDE DEF z
  <1>. QED
    BY <1>1, <1>2 DEF SyncClock

LEMMA ResizeOK ==
    ASSUME NEW S \in SyncClock, NEW n \in Nat, n <= max_threads, NEW E \in Vector,
           SyncOK(S, E)
    PROVE  SyncOK(Resize(S, n), E)
  <1> DEFINE R == Resize(S, n)
  <1>1. /\ R.size >= S.size /\ R.epoch = S.epoch /\ R.reused = S.reused
        /\ R.dirty = S.dirty /\ R \in SyncClock
    BY ResizeFields
  <1> HIDE DEF R
  <1>2. R.size \in Nat /\ S.size \in Nat /\ Tids \subseteq Nat
    BY <1>1, SyncClockFields, TidsAreNat
  <1>3. \A i \in Tids : i < S.size => i < R.size
    BY <1>1, <1>2
  <1>4. SyncOK(R, E)
    BY <1>1, <1>3 DEF SyncOK
  <1>. QED
    BY <1>4 DEF R

\* No flag appears: one that is set was in range before.
LEMMA ResizePair ==
    ASSUME NEW S \in SyncClock, NEW n \in Nat, n <= max_threads, NEW E \in Vector,
           SyncOK(S, E), NEW X \in ThreadClock, X.reused # 0, PairOK(X, S)
    PROVE  /\ PairOK(X, Resize(S, n))
           /\ HasAcquired(X, Resize(S, n)) => HasAcquired(X, S)
  <1> DEFINE R == Resize(S, n)
  <1>1. /\ R.epoch = S.epoch /\ R.reused = S.reused /\ R.dirty = S.dirty
        /\ R.release_store_tid = S.release_store_tid
        /\ R.release_store_reused = S.release_store_reused
    BY ResizeFields
  <1> HIDE DEF R
  <1>2. X.tid \in Tids
    BY ThreadClockFields
  <1>3. HasAcquired(X, R) => HasAcquired(X, S)
    BY <1>1, <1>2 DEF HasAcquired, SyncOK
  <1>4. StoredBy(X, R) => StoredBy(X, S)
    BY <1>1 DEF StoredBy
  <1>5. PairOK(X, R)
    BY <1>1, <1>3, <1>4 DEF PairOK, Covers
  <1>. QED
    BY <1>3, <1>5 DEF R

-----------------------------------------------------------------------------
(* ThreadClock::release and ReleaseStore: the three ways they change a sync *)
(* clock S, already of the right size, into F                              *)

\* T's own component is all that changes.
FastResult(T, S, F) ==
    /\ F.size = S.size
    /\ \A i \in Tids : F.epoch[i] = IF i = T.tid THEN T.clk[i] ELSE S.epoch[i]
    /\ \/ F.dirty = S.dirty \cup {T.tid} /\ F.reused = S.reused
       \/ F.dirty = {} /\ F.reused = ZeroClock
    /\ \/ F.release_store_tid = kInvalidTid
       \/ /\ StoredBy(T, S)
          /\ F.release_store_tid = T.tid /\ F.release_store_reused = T.reused

\* T's clock is copied.
StoreResult(T, S, F) ==
    /\ F.size = S.size
    /\ \A i \in Tids : F.epoch[i] = T.clk[i]
    /\ F.dirty = {}
    /\ \A i \in Tids : F.reused[i] = IF i = T.tid THEN T.reused ELSE 0
    /\ F.release_store_tid = T.tid /\ F.release_store_reused = T.reused

\* The maximum of every component is taken.
FullResult(T, S, F) ==
    /\ F.size = S.size
    /\ \A i \in Tids : F.epoch[i] = Maximum(S.epoch[i], T.clk[i])
    /\ F.dirty = {}
    /\ \A i \in Tids : F.reused[i] = IF i = T.tid /\ IsAlreadyAcquired(T, S)
                                     THEN T.reused ELSE 0
    /\ F.release_store_tid = kInvalidTid

LEMMA ZeroClockIsVector ==
    ZeroClock \in Vector /\ \A i \in Tids : ZeroClock[i] = 0
  BY DEF ZeroClock, Vector

LEMMA UpdateFields ==
    ASSUME NEW T \in ThreadClock, NEW S \in SyncClock
    PROVE  /\ UpdateCurrentThread(T, S) \in SyncClock
           /\ UpdateCurrentThread(T, S).release_store_tid = S.release_store_tid
           /\ UpdateCurrentThread(T, S).release_store_reused = S.release_store_reused
           /\ UpdateCurrentThread(T, S).size = S.size
           /\ \A i \in Tids : UpdateCurrentThread(T, S).epoch[i] =
                 IF i = T.tid THEN T.clk[i] ELSE S.epoch[i]
           /\ \/ /\ UpdateCurrentThread(T, S).dirty = S.dirty \cup {T.tid}
                 /\ UpdateCurrentThread(T, S).reused = S.reused
              \/ /\ UpdateCurrentThread(T, S).dirty = {}
                 /\ UpdateCurrentThread(T, S).reused = ZeroClock
  <1> DEFINE e == [S.epoch EXCEPT ![T.tid] = T.clk[T.tid]]
  <1>1. e \in Vector /\ \A i \in Tids : e[i] = IF i = T.tid THEN T.clk[i] ELSE S.epoch[i]
    BY ThreadClockFields, SyncClockFields DEF Vector
  <1>2. \/ UpdateCurrentThread(T, S) =
               [S EXCEPT !.epoch = e, !.dirty = S.dirty \cup {T.tid}]
        \/ UpdateCurrentThread(T, S) =
               [S EXCEPT !.epoch = e, !.dirty = {}, !.reused = ZeroClock]
    BY DEF UpdateCurrentThread
  <1> HIDE DEF e
  <1>4. CASE UpdateCurrentThread(T, S) =
               [S EXCEPT !.epoch = e, !.dirty = S.dirty \cup {T.tid}]
    <2> DEFINE d == S.dirty \cup {T.tid}
    <2>1. d \in SUBSET Tids
      BY ThreadClockFields, SyncClockFields
    <2>2. UpdateCurrentThread(T, S) = [S EXCEPT !.epoch = e, !.dirty = d]
      BY <1>4
    <2>3. d = S.dirty \cup {T.tid}
      OBVIOUS
    <2> HIDE DEF d
    <2>. QED
      BY <1>1, <2>1, <2>2, <2>3 DEF SyncClock
  <1>5. CASE UpdateCurrentThread(T, S) =
               [S EXCEPT !.epoch = e, !.dirty = {}, !.reused = ZeroClock]
    BY <1>1, <1>5, ZeroClockIsVector DEF SyncClock
  <1>. QED
    BY <1>2, <1>4, <1>5

LEMMA FastReleaseResult ==
    ASSUME NEW T \in ThreadClock, NEW S \in SyncClock
    PROVE  /\ FastRelease(T, S) \in SyncClock
           /\ FastResult(T, S, FastRelease(T, S))
           /\ StoredBy(T, S) => /\ UpdateCurrentThread(T, S) \in SyncClock
                                /\ FastResult(T, S, UpdateCurrentThread(T, S))
  <1> DEFINE U == UpdateCurrentThread(T, S)
  <1>1. /\ U \in SyncClock /\ U.size = S.size
        /\ U.release_store_tid = S.release_store_tid
        /\ U.release_store_reused = S.release_store_reused
        /\ \A i \in Tids : U.epoch[i] = IF i = T.tid THEN T.clk[i] ELSE S.epoch[i]
        /\ \/ U.dirty = S.dirty \cup {T.tid} /\ U.reused = S.reused
           \/ U.dirty = {} /\ U.reused = ZeroClock
    BY UpdateFields
  <1>2. FastRelease(T, S) = IF StoredBy(T, S) THEN U
                            ELSE [U EXCEPT !.release_store_tid = kInvalidTid]
    BY DEF FastRelease
  <1> HIDE DEF U
  <1>3. StoredBy(T, S) => U \in SyncClock /\ FastResult(T, S, U)
    BY <1>1 DEF FastResult, StoredBy
  <1>4. CASE StoredBy(T, S)
    BY <1>2, <1>3, <1>4 DEF U
  <1>5. CASE ~StoredBy(T, S)
    <2> DEFINE F == [U EXCEPT !.release_store_tid = kInvalidTid]
    <2>1. /\ F \in SyncClock /\ F.size = U.size /\ F.epoch = U.epoch /\ F.dirty = U.dirty
          /\ F.reused = U.reused /\ F.release_store_tid = kInvalidTid
      BY <1>1 DEF SyncClock
    <2>2. FastRelease(T, S) = F
      BY <1>2, <1>5
    <2> HIDE DEF F
    <2>3. FastResult(T, S, F)
      BY <1>1, <2>1 DEF FastResult
    <2>. QED
      BY <1>5, <2>1, <2>2, <2>3
  <1>. QED
    BY <1>4, <1>5

\* Each result keeps every relation, given that the fast one is taken only
\* when there is nothing new.
LEMMA ResultOK ==
    ASSUME NEW T \in ThreadClock, NEW S \in SyncClock, NEW F \in SyncClock,
           NEW E \in Vector, ThreadOK(T, E), SyncOK(S, E), T.nclk <= S.size,
           \/ FastResult(T, S, F) \/ StoreResult(T, S, F) \/ FullResult(T, S, F)
    PROVE  SyncOK(F, E)
  <1> SUFFICES ASSUME NEW i \in Tids
               PROVE  /\ F.epoch[i] <= E[i]
                      /\ F.epoch[i] # 0 \/ F.reused[i] # 0 \/ i \in F.dirty => i < F.size
    BY DEF SyncOK
  <1>1. /\ i \in Nat /\ T.clk[i] \in Nat /\ S.epoch[i] \in Nat /\ T.nclk \in Nat
        /\ T.tid \in Tids /\ T.tid \in Nat /\ S.size \in Nat /\ E[i] \in Nat
    BY TidsAreNat, ThreadClockFields, SyncClockFields DEF Vector
  <1>2. /\ T.tid < T.nclk /\ T.clk[i] <= E[i] /\ (T.clk[i] # 0 => i < T.nclk)
        /\ S.epoch[i] <= E[i]
        /\ S.epoch[i] # 0 \/ S.reused[i] # 0 \/ i \in S.dirty => i < S.size
    BY DEF ThreadOK, SyncOK
  <1>3. i < T.nclk => i < S.size
    BY <1>1
  <1>4. i = T.tid => i < S.size
    BY <1>1, <1>2
  <1>5. CASE FastResult(T, S, F)
    BY <1>2, <1>4, <1>5, ZeroClockIsVector DEF FastResult
  <1>6. CASE StoreResult(T, S, F)
    BY <1>2, <1>3, <1>4, <1>6 DEF StoreResult
  <1>7. CASE FullResult(T, S, F)
    <2>1. F.epoch[i] = S.epoch[i] \/ F.epoch[i] = T.clk[i]
      BY <1>7 DEF FullResult, Maximum
    <2>2. F.size = S.size /\ F.dirty = {} /\ (F.reused[i] # 0 => i = T.tid)
      BY <1>7 DEF FullResult
    <2>. QED
      BY <1>2, <1>3, <1>4, <2>1, <2>2
  <1>. QED
    BY <1>5, <1>6, <1>7

LEMMA FastPair ==
    ASSUME NEW T \in ThreadClock, NEW S \in SyncClock, NEW F \in SyncClock,
           T.reused # 0, PairOK(T, S), NothingNew(T, S), FastResult(T, S, F)
    PROVE  PairOK(T, F)
  <1>1. T.tid \in Tids /\ T.tid # kInvalidTid
    BY ThreadClockFields, TidsAreNat DEF kInvalidTid
  <1>2. \A i \in Tids \ {T.tid} : T.clk[i] <= S.epoch[i] /\ F.epoch[i] = S.epoch[i]
    BY DEF PairOK, Covers, NothingNew, FastResult
  <1>3. HasAcquired(T, F) => HasAcquired(T, S) /\ S.dirty \subseteq F.dirty
    BY <1>1, ZeroClockIsVector DEF HasAcquired, FastResult
  <1>4. StoredBy(T, F) => StoredBy(T, S)
    BY <1>1 DEF StoredBy, FastResult
  <1>. QED
    BY <1>1, <1>2, <1>3, <1>4 DEF PairOK, Covers

LEMMA FastPairOther ==
    ASSUME NEW T \in ThreadClock, NEW S \in SyncClock, NEW F \in SyncClock,
           NothingNew(T, S), FastResult(T, S, F),
           NEW X \in ThreadClock, X.tid # T.tid, X.reused # 0, PairOK(X, S),
           X.clk[T.tid] <= T.clk[T.tid]
    PROVE  PairOK(X, F)
  <1>1. X.tid \in Tids /\ X.tid # kInvalidTid /\ T.tid \in Tids
    BY ThreadClockFields, TidsAreNat DEF kInvalidTid
  <1>2. F.epoch[X.tid] = S.epoch[X.tid] /\ F.epoch[T.tid] = T.clk[T.tid]
        /\ \A i \in Tids \ {T.tid} : F.epoch[i] = S.epoch[i]
    BY <1>1 DEF FastResult
  <1>3. Covers(F.epoch, X)
    BY <1>1, <1>2 DEF PairOK, Covers
  <1>4. HasAcquired(X, F) =>
            HasAcquired(X, S) /\ S.dirty \subseteq F.dirty /\ T.tid \in F.dirty
    BY <1>1, ZeroClockIsVector DEF HasAcquired, FastResult
  <1>5. ~StoredBy(X, F)
    BY <1>1 DEF StoredBy, FastResult
  <1>6. S.epoch[T.tid] # 0
    BY <1>1, ThreadClockFields, SyncClockFields DEF NothingNew
  <1>7. HasAcquired(X, F) => \A i \in Tids \ {X.tid} :
              /\ i \notin F.dirty => F.epoch[i] <= X.clk[i]
              /\ F.epoch[i] # 0 => i < X.nclk
    BY <1>1, <1>2, <1>4, <1>6 DEF PairOK
  <1>. QED
    BY <1>3, <1>5, <1>7 DEF PairOK

LEMMA StorePair ==
    ASSUME NEW T \in ThreadClock, NEW S \in SyncClock, NEW F \in SyncClock,
           NEW E \in Vector, ThreadOK(T, E), StoreResult(T, S, F)
    PROVE  PairOK(T, F)
  <1>1. \A i \in Tids : F.epoch[i] = T.clk[i] /\ T.clk[i] <= T.clk[i]
                        /\ (T.clk[i] # 0 => i < T.nclk)
    BY ThreadClockFields DEF StoreResult, ThreadOK
  <1>. QED
    BY <1>1 DEF PairOK, Covers

LEMMA StorePairOther ==
    ASSUME NEW T \in ThreadClock, NEW S \in SyncClock, NEW F \in SyncClock,
           StoreResult(T, S, F),
           NEW X \in ThreadClock, X.tid # T.tid, X.reused # 0, Covers(T.clk, X)
    PROVE  PairOK(X, F)
  <1>1. X.tid \in Tids
    BY ThreadClockFields
  <1>2. ~HasAcquired(X, F) /\ ~StoredBy(X, F)
    BY <1>1 DEF HasAcquired, StoredBy, StoreResult
  <1>3. Covers(F.epoch, X)
    BY <1>1 DEF Covers, StoreResult
  <1>. QED
    BY <1>2, <1>3 DEF PairOK

LEMMA FullPair ==
    ASSUME NEW T \in ThreadClock, NEW S \in SyncClock, NEW F \in SyncClock,
           NEW E \in Vector, ThreadOK(T, E), SyncOK(S, E), PairOK(T, S),
           FullResult(T, S, F)
    PROVE  PairOK(T, F)
  <1>1. T.tid \in Tids /\ T.tid # kInvalidTid /\ T.reused # 0
    BY ThreadClockFields, TidsAreNat DEF kInvalidTid, ThreadOK
  <1>2. \A i \in Tids : /\ T.clk[i] \in Nat /\ S.epoch[i] \in Nat
                        /\ F.epoch[i] = Maximum(S.epoch[i], T.clk[i])
    BY ThreadClockFields, SyncClockFields DEF FullResult
  <1>3. \A i \in Tids : T.clk[i] <= F.epoch[i]
    BY <1>2 DEF Maximum
  <1>4. ~StoredBy(T, F)
    BY <1>1 DEF StoredBy, FullResult
  <1>5. HasAcquired(T, F) => IsAlreadyAcquired(T, S) /\ HasAcquired(T, S)
    BY <1>1 DEF HasAcquired, FullResult, SyncOK, IsAlreadyAcquired
  <1>6. ASSUME HasAcquired(T, F), NEW i \in Tids \ {T.tid}
        PROVE  F.epoch[i] <= T.clk[i] /\ (F.epoch[i] # 0 => i < T.nclk)
    <2>1. S.epoch[i] <= T.clk[i]
      BY <1>2, <1>5, <1>6 DEF PairOK, IsAlreadyAcquired
    <2>2. F.epoch[i] = T.clk[i]
      BY <1>2, <2>1 DEF Maximum
    <2>. QED
      BY <1>2, <2>2 DEF ThreadOK
  <1>. QED
    BY <1>3, <1>4, <1>6 DEF PairOK, Covers

LEMMA FullPairOther ==
    ASSUME NEW T \in ThreadClock, NEW S \in SyncClock, NEW F \in SyncClock,
           FullResult(T, S, F), NEW X \in ThreadClock, X.tid # T.tid, X.reused # 0,
           PairOK(X, S), Covers(T.clk, X)
    PROVE  PairOK(X, F)
  <1>1. X.tid \in Tids /\ X.tid # kInvalidTid
    BY ThreadClockFields, TidsAreNat DEF kInvalidTid
  <1>2. ~HasAcquired(X, F) /\ ~StoredBy(X, F)
    BY <1>1 DEF HasAcquired, StoredBy, FullResult
  <1>3. /\ F.epoch \in Vector /\ S.epoch \in Vector /\ T.clk \in Vector
        /\ \A i \in Tids : F.epoch[i] = Maximum(S.epoch[i], T.clk[i])
        /\ Covers(S.epoch, X)
    BY ThreadClockFields, SyncClockFields DEF FullResult, PairOK
  <1>4. Covers(F.epoch, X)
    BY <1>3, JoinCovers
  <1>. QED
    BY <1>2, <1>4 DEF PairOK

LEMMA ReleaseStoreResult ==
    ASSUME NEW T \in ThreadClock, NEW S \in SyncClock, NEW E \in Vector, ThreadOK(T, E)
    PROVE  /\ ReleaseStoreSync(T, S) \in SyncClock
           /\ \/ /\ StoredBy(T, Resize(S, T.nclk)) /\ NothingNew(T, Resize(S, T.nclk))
                 /\ FastResult(T, Resize(S, T.nclk), ReleaseStoreSync(T, S))
              \/ /\ ~(StoredBy(T, Resize(S, T.nclk)) /\ NothingNew(T, Resize(S, T.nclk)))
                 /\ StoreResult(T, Resize(S, T.nclk), ReleaseStoreSync(T, S))
  <1> DEFINE R == Resize(S, T.nclk)
             e == [i \in Tids |-> IF i < T.nclk THEN T.clk[i] ELSE 0]
             r == [ZeroClock EXCEPT ![T.tid] = T.reused]
             C == [size |-> R.size, epoch |-> e, reused |-> r, dirty |-> {},
                   release_store_tid |-> T.tid, release_store_reused |-> T.reused]
  <1>1. R \in SyncClock
    BY ResizeFields, ThreadClockFields
  <1>2. ReleaseStoreSync(T, S) = IF StoredBy(T, R) /\ NothingNew(T, R)
                                 THEN UpdateCurrentThread(T, R) ELSE C
    BY DEF ReleaseStoreSync
  <1>3. e \in Vector /\ \A i \in Tids : e[i] = T.clk[i]
    BY ThreadClockFields DEF ThreadOK, Vector
  <1>4. r \in Vector /\ \A i \in Tids : r[i] = IF i = T.tid THEN T.reused ELSE 0
    BY ThreadClockFields, ZeroClockIsVector DEF Vector
  <1>5. CASE StoredBy(T, R) /\ NothingNew(T, R)
    BY <1>1, <1>2, <1>5, FastReleaseResult
  <1>6. CASE ~(StoredBy(T, R) /\ NothingNew(T, R))
    <2> HIDE DEF R, e, r
    <2>1. C \in SyncClock
      BY <1>1, <1>3, <1>4, MakeSyncClock, SyncClockFields, ThreadClockFields
    <2>2. StoreResult(T, R, C)
      BY <1>3, <1>4 DEF StoreResult
    <2>. QED
      BY <1>2, <1>6, <2>1, <2>2 DEF R
  <1>. QED
    BY <1>5, <1>6

LEMMA FullReleaseResult ==
    ASSUME NEW T \in ThreadClock, NEW S \in SyncClock, NEW E \in Vector, ThreadOK(T, E)
    PROVE  FullRelease(T, S) \in SyncClock /\ FullResult(T, S, FullRelease(T, S))
  <1> DEFINE e == [i \in Tids |-> IF i < T.nclk THEN Maximum(S.epoch[i], T.clk[i])
                                                ELSE S.epoch[i]]
             r == IF IsAlreadyAcquired(T, S)
                  THEN [ZeroClock EXCEPT ![T.tid] = T.reused] ELSE ZeroClock
             C == [size |-> S.size, epoch |-> e, reused |-> r, dirty |-> {},
                   release_store_tid |-> kInvalidTid, release_store_reused |-> 0]
  <1>1. FullRelease(T, S) = C
    BY DEF FullRelease
  <1>2. ASSUME NEW i \in Tids
        PROVE  e[i] \in Nat /\ e[i] = Maximum(S.epoch[i], T.clk[i])
    <2>1. /\ T.clk[i] \in Nat /\ S.epoch[i] \in Nat
          /\ ~(i < T.nclk) => T.clk[i] = 0
      BY ThreadClockFields, SyncClockFields DEF ThreadOK
    <2>2. Maximum(S.epoch[i], T.clk[i]) \in Nat
          /\ (T.clk[i] = 0 => Maximum(S.epoch[i], T.clk[i]) = S.epoch[i])
      BY <2>1 DEF Maximum
    <2>. QED
      BY <2>1, <2>2
  <1>3. e \in Vector
    BY <1>2 DEF Vector
  <1>4. \A i \in Tids : r[i] = IF i = T.tid /\ IsAlreadyAcquired(T, S)
                               THEN T.reused ELSE 0
    BY ZeroClockIsVector, ThreadClockFields DEF Vector
  <1>5. r \in Vector
    BY ZeroClockIsVector, ThreadClockFields DEF Vector
  <1> HIDE DEF e, r
  <1>6. C \in SyncClock
    BY <1>3, <1>5, MakeSyncClock, SyncClockFields
  <1>7. FullResult(T, S, C)
    BY <1>2, <1>4 DEF FullResult
  <1>. QED
    BY <1>1, <1>6, <1>7

LEMMA ReleaseResult ==
    ASSUME NEW T \in ThreadClock, NEW S \in SyncClock, NEW E \in Vector,
           ThreadOK(T, E), SyncOK(S, E)
    PROVE  /\ ReleaseSync(T, S) \in SyncClock
           /\ \/ /\ NothingNew(T, Resize(S, T.nclk))
                 /\ FastResult(T, Resize(S, T.nclk), ReleaseSync(T, S))
              \/ S.size = 0 /\ StoreResult(T, Resize(S, T.nclk), ReleaseSync(T, S))
              \/ FullResult(T, Resize(S, T.nclk), ReleaseSync(T, S))
  <1> DEFINE R == Resize(S, T.nclk)
  <1>1. R \in SyncClock
    BY ResizeFields, ThreadClockFields
  <1>2. ReleaseSync(T, S) = IF S.size = 0 THEN ReleaseStoreSync(T, S)
                            ELSE IF NothingNew(T, R) THEN FastRelease(T, R)
                                                     ELSE FullRelease(T, R)
    BY DEF ReleaseSync
  <1>3. CASE S.size = 0
    BY <1>2, <1>3, ReleaseStoreResult
  <1>4. CASE S.size # 0 /\ NothingNew(T, R)
    BY <1>1, <1>2, <1>4, FastReleaseResult
  <1>5. CASE S.size # 0 /\ ~NothingNew(T, R)
    BY <1>1, <1>2, <1>5, FullReleaseResult
  <1>. QED
    BY <1>3, <1>4, <1>5

\* No release sets a flag but T's own.
FlagsKept(T, S, F) ==
    /\ \A i \in Tids : \/ F.reused[i] = 0 \/ F.reused[i] = S.reused[i]
                       \/ i = T.tid /\ F.reused[i] = T.reused
    /\ \/ F.release_store_tid = kInvalidTid
       \/ F.release_store_tid = T.tid /\ F.release_store_reused = T.reused

\* A release is always the full maximum, and it keeps every relation.
LEMMA ReleaseOK ==
    ASSUME NEW T \in ThreadClock, NEW S \in SyncClock, NEW E \in Vector,
           ThreadOK(T, E), SyncOK(S, E), PairOK(T, S), T.clk[T.tid] = E[T.tid]
    PROVE  /\ ReleaseSync(T, S) \in SyncClock
           /\ SyncOK(ReleaseSync(T, S), E)
           /\ PairOK(T, ReleaseSync(T, S))
           /\ FlagsKept(T, S, ReleaseSync(T, S))
           /\ \A i \in Tids :
                 ReleaseSync(T, S).epoch[i] = Maximum(S.epoch[i], T.clk[i])
  <1> DEFINE F == ReleaseSync(T, S)
             R == Resize(S, T.nclk)
  <1>1. /\ F \in SyncClock
        /\ \/ NothingNew(T, R) /\ FastResult(T, R, F)
           \/ S.size = 0 /\ StoreResult(T, R, F)
           \/ FullResult(T, R, F)
    BY ReleaseResult
  <1>2. /\ R \in SyncClock /\ R.epoch = S.epoch /\ R.reused = S.reused /\ T.nclk <= R.size
    BY ResizeFields, ThreadClockFields, SyncClockFields
  <1>3. SyncOK(R, E) /\ PairOK(T, R) /\ T.reused # 0
    BY ResizeOK, ResizePair, ThreadClockFields DEF ThreadOK
  <1> HIDE DEF F, R
  <1>4. SyncOK(F, E)
    BY <1>1, <1>2, <1>3, ResultOK
  <1>5. PairOK(T, F)
    BY <1>1, <1>2, <1>3, FastPair, StorePair, FullPair
  <1>6. FlagsKept(T, S, F)
    BY <1>1, <1>2, ZeroClockIsVector
      DEF FlagsKept, FastResult, StoreResult, FullResult
  <1>7. ASSUME NEW i \in Tids
        PROVE  F.epoch[i] = Maximum(S.epoch[i], T.clk[i])
    <2>1. T.clk[i] \in Nat /\ S.epoch[i] \in Nat
      BY ThreadClockFields, SyncClockFields
    <2>2. CASE NothingNew(T, R) /\ FastResult(T, R, F)
      <3>1. i # T.tid => T.clk[i] <= S.epoch[i]
        BY <1>2, <1>3, <2>2 DEF PairOK, Covers, NothingNew
      <3>2. i = T.tid => S.epoch[i] <= T.clk[i]
        BY DEF SyncOK
      <3>3. F.epoch[i] = IF i = T.tid THEN T.clk[i] ELSE S.epoch[i]
        BY <1>2, <2>2 DEF FastResult
      <3>. QED
        BY <2>1, <3>1, <3>2, <3>3 DEF Maximum
    <2>3. CASE S.size = 0 /\ StoreResult(T, R, F)
      <3>1. S.epoch[i] = 0
        BY <2>3, TidsAreNat DEF SyncOK
      <3>2. F.epoch[i] = T.clk[i]
        BY <2>3 DEF StoreResult
      <3>. QED
        BY <2>1, <3>1, <3>2 DEF Maximum
    <2>4. CASE FullResult(T, R, F)
      BY <1>2, <2>4 DEF FullResult
    <2>. QED
      BY <1>1, <2>2, <2>3, <2>4
  <1>. QED
    BY <1>1, <1>4, <1>5, <1>6, <1>7 DEF F

LEMMA ReleasePairOther ==
    ASSUME NEW T \in ThreadClock, NEW S \in SyncClock, NEW E \in Vector,
           ThreadOK(T, E), SyncOK(S, E),
           NEW X \in ThreadClock, X.tid # T.tid, X.reused # 0, PairOK(X, S),
           Covers(T.clk, X), X.clk[T.tid] <= T.clk[T.tid]
    PROVE  PairOK(X, ReleaseSync(T, S))
  <1> DEFINE F == ReleaseSync(T, S)
             R == Resize(S, T.nclk)
  <1>1. /\ F \in SyncClock
        /\ \/ NothingNew(T, R) /\ FastResult(T, R, F)
           \/ S.size = 0 /\ StoreResult(T, R, F)
           \/ FullResult(T, R, F)
    BY ReleaseResult
  <1>2. R \in SyncClock /\ PairOK(X, R)
    BY ResizeFields, ResizePair, ThreadClockFields
  <1> HIDE DEF F, R
  <1>3. PairOK(X, F)
    BY <1>1, <1>2, FastPairOther, StorePairOther, FullPairOther
  <1>. QED
    BY <1>3 DEF F

\* A release-store always leaves a copy of the thread's clock.
LEMMA ReleaseStoreOK ==
    ASSUME NEW T \in ThreadClock, NEW S \in SyncClock, NEW E \in Vector,
           ThreadOK(T, E), SyncOK(S, E), PairOK(T, S), T.clk[T.tid] = E[T.tid]
    PROVE  /\ ReleaseStoreSync(T, S) \in SyncClock
           /\ SyncOK(ReleaseStoreSync(T, S), E)
           /\ PairOK(T, ReleaseStoreSync(T, S))
           /\ FlagsKept(T, S, ReleaseStoreSync(T, S))
           /\ \A i \in Tids : ReleaseStoreSync(T, S).epoch[i] = T.clk[i]
  <1> DEFINE F == ReleaseStoreSync(T, S)
             R == Resize(S, T.nclk)
  <1>1. /\ F \in SyncClock
        /\ \/ StoredBy(T, R) /\ NothingNew(T, R) /\ FastResult(T, R, F)
           \/ StoreResult(T, R, F)
    BY ReleaseStoreResult
  <1>2. /\ R \in SyncClock /\ R.epoch = S.epoch /\ R.reused = S.reused /\ T.nclk <= R.size
    BY ResizeFields, ThreadClockFields, SyncClockFields
  <1>3. SyncOK(R, E) /\ PairOK(T, R) /\ T.reused # 0
    BY ResizeOK, ResizePair, ThreadClockFields DEF ThreadOK
  <1> HIDE DEF F, R
  <1>4. SyncOK(F, E)
    BY <1>1, <1>2, <1>3, ResultOK
  <1>5. PairOK(T, F)
    BY <1>1, <1>2, <1>3, FastPair, StorePair
  <1>6. FlagsKept(T, S, F)
    BY <1>1, <1>2, ZeroClockIsVector DEF FlagsKept, FastResult, StoreResult
  <1>7. ASSUME NEW i \in Tids
        PROVE  F.epoch[i] = T.clk[i]
    <2>1. T.clk[i] \in Nat /\ S.epoch[i] \in Nat
      BY ThreadClockFields, SyncClockFields
    <2>2. CASE StoredBy(T, R) /\ NothingNew(T, R) /\ FastResult(T, R, F)
      <3>1. i # T.tid => T.clk[i] <= S.epoch[i] /\ S.epoch[i] <= T.clk[i]
        BY <1>2, <1>3, <2>2 DEF PairOK, Covers, NothingNew
      <3>2. F.epoch[i] = IF i = T.tid THEN T.clk[i] ELSE S.epoch[i]
        BY <1>2, <2>2 DEF FastResult
      <3>. QED
        BY <2>1, <3>1, <3>2
    <2>3. CASE StoreResult(T, R, F)
      BY <2>3 DEF StoreResult
    <2>. QED
      BY <1>1, <2>2, <2>3
  <1>. QED
    BY <1>1, <1>4, <1>5, <1>6, <1>7 DEF F

LEMMA ReleaseStorePairOther ==
    ASSUME NEW T \in ThreadClock, NEW S \in SyncClock, NEW E \in Vector,
           ThreadOK(T, E), SyncOK(S, E),
           NEW X \in ThreadClock, X.tid # T.tid, X.reused # 0, PairOK(X, S),
           Covers(T.clk, X), X.clk[T.tid] <= T.clk[T.tid]
    PROVE  PairOK(X, ReleaseStoreSync(T, S))
  <1> DEFINE F == ReleaseStoreSync(T, S)
             R == Resize(S, T.nclk)
  <1>1. /\ F \in SyncClock
        /\ \/ NothingNew(T, R) /\ FastResult(T, R, F)
           \/ StoreResult(T, R, F)
    BY ReleaseStoreResult
  <1>2. R \in SyncClock /\ PairOK(X, R)
    BY ResizeFields, ResizePair, ThreadClockFields
  <1> HIDE DEF F, R
  <1>3. PairOK(X, F)
    BY <1>1, <1>2, FastPairOther, StorePairOther
  <1>. QED
    BY <1>3 DEF F

-----------------------------------------------------------------------------
(* The lists of the registry                                               *)

LEMMA AppendList ==
    ASSUME NEW s \in Seq(Tids), NEW x \in Tids, NoRepeats(s), x \notin InList(s)
    PROVE  /\ Append(s, x) \in Seq(Tids) /\ NoRepeats(Append(s, x))
           /\ InList(Append(s, x)) = InList(s) \cup {x}
           /\ Len(Append(s, x)) = Len(s) + 1
  <1> DEFINE a == Append(s, x)
  <1>1. /\ a \in Seq(Tids) /\ Len(a) = Len(s) + 1 /\ Len(s) \in Nat
        /\ DOMAIN a = 1 .. Len(s) + 1 /\ DOMAIN s = 1 .. Len(s)
        /\ \A i \in 1 .. Len(s) : a[i] = s[i]
        /\ a[Len(s) + 1] = x
    OBVIOUS
  <1> HIDE DEF a
  <1>2. \A i \in DOMAIN a : i \in DOMAIN s \/ i = Len(s) + 1
    BY <1>1
  <1>3. NoRepeats(a)
    BY <1>1, <1>2 DEF NoRepeats, InList
  <1>4. InList(a) = InList(s) \cup {x}
    BY <1>1, <1>2 DEF InList
  <1>. QED
    BY <1>1, <1>3, <1>4 DEF a

LEMMA TailList ==
    ASSUME NEW s \in Seq(Tids), s # <<>>, NoRepeats(s)
    PROVE  /\ Head(s) \in Tids /\ Head(s) \in InList(s)
           /\ Tail(s) \in Seq(Tids) /\ NoRepeats(Tail(s))
           /\ InList(Tail(s)) = InList(s) \ {Head(s)}
           /\ Len(Tail(s)) = Len(s) - 1 /\ Len(s) \in Nat \ {0}
  <1> DEFINE r == Tail(s)
  <1>1. /\ Len(s) \in Nat \ {0} /\ DOMAIN s = 1 .. Len(s)
        /\ Head(s) = s[1] /\ s[1] \in Tids
        /\ r \in Seq(Tids) /\ Len(r) = Len(s) - 1 /\ DOMAIN r = 1 .. Len(s) - 1
        /\ \A i \in 1 .. Len(s) - 1 : r[i] = s[i + 1]
    OBVIOUS
  <1> HIDE DEF r
  <1>2. 1 \in DOMAIN s /\ \A i \in DOMAIN r : i + 1 \in DOMAIN s /\ i + 1 # 1
    BY <1>1
  <1>3. \A j \in DOMAIN s : j = 1 \/ (j - 1 \in DOMAIN r /\ (j - 1) + 1 = j)
    BY <1>1
  <1>4. \A i, j \in DOMAIN r : i + 1 = j + 1 => i = j
    BY <1>1
  <1>5. NoRepeats(r)
    <2>1. \A i \in DOMAIN r : r[i] = s[i + 1]
      BY <1>1
    <2>2. SUFFICES ASSUME NEW i \in DOMAIN r, NEW j \in DOMAIN r, r[i] = r[j]
                   PROVE  i = j
      BY DEF NoRepeats
    <2>3. s[i + 1] = s[j + 1]
      BY <2>1, <2>2
    <2>4. i + 1 = j + 1
      BY <1>2, <2>3 DEF NoRepeats
    <2>. QED
      BY <1>4, <2>4
  <1>6. InList(r) \subseteq InList(s) \ {s[1]}
    <2> SUFFICES ASSUME NEW i \in DOMAIN r
                 PROVE  r[i] \in InList(s) /\ r[i] # s[1]
      BY DEF InList
    <2>1. r[i] = s[i + 1]
      BY <1>1
    <2>. QED
      BY <1>2, <2>1 DEF InList, NoRepeats
  <1>7. InList(s) \ {s[1]} \subseteq InList(r)
    <2> SUFFICES ASSUME NEW j \in DOMAIN s, s[j] # s[1]
                 PROVE  s[j] \in InList(r)
      BY DEF InList
    <2>1. j - 1 \in DOMAIN r /\ (j - 1) + 1 = j
      BY <1>3
    <2>2. r[j - 1] = s[j]
      BY <1>1, <2>1
    <2>. QED
      BY <2>1, <2>2 DEF InList
  <1>8. s[1] \in InList(s)
    BY <1>2 DEF InList
  <1>. QED
    BY <1>1, <1>5, <1>6, <1>7, <1>8 DEF r

\* The oldest dead context, if the quarantine is full, becomes invalid.
LEMMA QuarantineStep ==
    ASSUME RegistryTypeOK, ListsMatchStatus, NEW tid \in Tids,
           status[tid] \in {"Running", "Finished"},
           QuarantinePush(tid, [status EXCEPT ![tid] = "Dead"]),
           n_contexts_' = n_contexts_
    PROVE  /\ status' \in [Tids -> Statuses] /\ reuse_count' \in [Tids -> Nat]
           /\ dead_threads_' \in Seq(Tids) /\ invalid_threads_' \in Seq(Tids)
           /\ ListsMatchStatus'
           /\ status'[tid] \in {"Dead", "Invalid"}
           /\ \A t \in Tids \ {tid} :
                 \/ status'[t] = status[t]
                 \/ status[t] = "Dead" /\ status'[t] = "Invalid"
           /\ \A t \in Tids :
                 IF status[t] # "Invalid" /\ status'[t] = "Invalid"
                 THEN reuse_count'[t] = reuse_count[t] + 1
                 ELSE reuse_count'[t] = reuse_count[t]
  <1> DEFINE d == Append(dead_threads_, tid)
             v == Head(d)
             st == [status EXCEPT ![tid] = "Dead"]
             reuses == reuse_count[v] + 1
  <1>1. /\ n_contexts_ \in Nat /\ status \in [Tids -> Statuses]
        /\ reuse_count \in [Tids -> Nat] /\ dead_threads_ \in Seq(Tids)
        /\ invalid_threads_ \in Seq(Tids) /\ thread_quarantine_size \in Nat
    BY RegistryAssumption, ThreadIdsAssumption DEF RegistryTypeOK
  <1>2. tid \notin InList(dead_threads_)
    BY DEF ListsMatchStatus, WithStatus
  <1>3. /\ d \in Seq(Tids) /\ NoRepeats(d) /\ InList(d) = InList(dead_threads_) \cup {tid}
        /\ Len(d) = Len(dead_threads_) + 1
    BY <1>1, <1>2, AppendList DEF ListsMatchStatus
  <1>4. st \in [Tids -> Statuses] /\ \A t \in Tids : st[t] = IF t = tid THEN "Dead" ELSE status[t]
    BY <1>1 DEF Statuses
  <1>5. IF Len(d) <= thread_quarantine_size
        THEN /\ dead_threads_' = d /\ status' = st
             /\ reuse_count' = reuse_count /\ invalid_threads_' = invalid_threads_
        ELSE /\ dead_threads_' = Tail(d)
             /\ status' = [st EXCEPT ![v] = "Invalid"]
             /\ reuse_count' = [reuse_count EXCEPT ![v] = reuses]
             /\ invalid_threads_' = IF max_reuse > 0 /\ reuses >= max_reuse
                                    THEN invalid_threads_
                                    ELSE Append(invalid_threads_, v)
    BY DEF QuarantinePush
  <1>6. InList(d) = {t \in Tids : st[t] = "Dead"}
    BY <1>1, <1>3, <1>4 DEF ListsMatchStatus, WithStatus
  <1>7. d # <<>>
    BY <1>1, <1>3
  <1>8. /\ NoRepeats(invalid_threads_)
        /\ InList(invalid_threads_) \subseteq {t \in Tids : status[t] = "Invalid"}
        /\ tid < n_contexts_
        /\ \A t \in Tids : t >= n_contexts_ =>
              status[t] = "Invalid" /\ t \notin InList(invalid_threads_)
    BY <1>1, TidsAreNat DEF ListsMatchStatus, WithStatus
  <1> HIDE DEF d, st
  <1>9. CASE Len(d) <= thread_quarantine_size
    <2>1. /\ dead_threads_' = d /\ status' = st /\ reuse_count' = reuse_count
          /\ invalid_threads_' = invalid_threads_
      BY <1>5, <1>9
    <2>2. ListsMatchStatus'
      <3>1. /\ NoRepeats(d) /\ InList(d) = WithStatus({"Dead"})'
            /\ InList(invalid_threads_) \subseteq WithStatus({"Invalid"})'
        BY <1>3, <1>4, <1>6, <1>8, <2>1 DEF WithStatus
      <3>2. \A t \in Tids : t >= n_contexts_ =>
              status'[t] = "Invalid" /\ t \notin InList(invalid_threads_)
        BY <1>1, <1>4, <1>8, <2>1, TidsAreNat
      <3>. QED
        BY <1>8, <1>9, <2>1, <3>1, <3>2 DEF ListsMatchStatus
    <2>. QED
      BY <1>1, <1>3, <1>4, <2>1, <2>2
  <1>10. CASE ~(Len(d) <= thread_quarantine_size)
    <2>1. /\ dead_threads_' = Tail(d)
          /\ status' = [st EXCEPT ![v] = "Invalid"]
          /\ reuse_count' = [reuse_count EXCEPT ![v] = reuses]
          /\ \/ invalid_threads_' = invalid_threads_
             \/ invalid_threads_' = Append(invalid_threads_, v)
      BY <1>5, <1>10
    <2>2. /\ v \in Tids /\ v \in InList(d) /\ Tail(d) \in Seq(Tids) /\ NoRepeats(Tail(d))
          /\ InList(Tail(d)) = InList(d) \ {v} /\ Len(Tail(d)) = Len(d) - 1
      BY <1>3, <1>7, TailList
    <2> HIDE DEF v
    <2>3. st[v] = "Dead" /\ v < n_contexts_ /\ v \notin InList(invalid_threads_)
      BY <1>1, <1>4, <1>6, <1>8, <2>2, TidsAreNat
    <2>4. /\ status' \in [Tids -> Statuses]
          /\ \A t \in Tids : status'[t] = IF t = v THEN "Invalid" ELSE st[t]
      BY <1>4, <2>1, <2>2 DEF Statuses
    <2>5. /\ reuse_count' \in [Tids -> Nat]
          /\ \A t \in Tids : reuse_count'[t] = IF t = v THEN reuse_count[t] + 1
                                               ELSE reuse_count[t]
      BY <1>1, <2>1, <2>2
    <2>6. /\ invalid_threads_' \in Seq(Tids) /\ NoRepeats(invalid_threads_')
          /\ InList(invalid_threads_') \subseteq InList(invalid_threads_) \cup {v}
      <3>1. CASE invalid_threads_' = invalid_threads_
        BY <1>1, <1>8, <3>1
      <3>2. CASE invalid_threads_' = Append(invalid_threads_, v)
        <4>1. /\ Append(invalid_threads_, v) \in Seq(Tids)
              /\ NoRepeats(Append(invalid_threads_, v))
              /\ InList(Append(invalid_threads_, v)) = InList(invalid_threads_) \cup {v}
          BY <1>1, <1>8, <2>2, <2>3, AppendList
        <4>. QED
          BY <3>2, <4>1
      <3>. QED
        BY <2>1, <3>1, <3>2
    <2>7. ListsMatchStatus'
      <3>1. InList(dead_threads_') = WithStatus({"Dead"})'
        BY <1>6, <2>1, <2>2, <2>4 DEF WithStatus
      <3>2. InList(invalid_threads_') \subseteq WithStatus({"Invalid"})'
        BY <1>4, <1>8, <2>2, <2>4, <2>6 DEF WithStatus
      <3>3. Len(dead_threads_') <= thread_quarantine_size
        <4>1. Len(dead_threads_) <= thread_quarantine_size /\ Len(dead_threads_) \in Nat
          BY <1>1 DEF ListsMatchStatus
        <4>. QED
          BY <1>3, <2>1, <2>2, <4>1
      <3>4. \A t \in Tids : t >= n_contexts_ =>
              status'[t] = "Invalid" /\ t \notin InList(invalid_threads_')
        <4>1. \A t \in Tids : t >= n_contexts_ => t # v /\ t # tid
          BY <1>1, <1>8, <2>3, TidsAreNat
        <4>. QED
          BY <1>4, <1>8, <2>4, <2>6, <4>1
      <3>. QED
        BY <2>1, <2>2, <2>6, <3>1, <3>2, <3>3, <3>4 DEF ListsMatchStatus
    <2>8. \A t \in Tids \ {tid} : status'[t] = status[t]
                                  \/ (status[t] = "Dead" /\ status'[t] = "Invalid")
      BY <1>4, <2>3, <2>4
    <2>9. status'[tid] \in {"Dead", "Invalid"}
      BY <1>4, <2>4
    <2>10. \A t \in Tids : IF status[t] # "Invalid" /\ status'[t] = "Invalid"
                           THEN reuse_count'[t] = reuse_count[t] + 1
                           ELSE reuse_count'[t] = reuse_count[t]
      BY <1>4, <2>3, <2>4, <2>5
    <2>. QED
      BY <2>1, <2>2, <2>4, <2>5, <2>6, <2>7, <2>8, <2>9, <2>10
  <1>. QED
    BY <1>9, <1>10

-----------------------------------------------------------------------------
(* The methods of the registry                                             *)

LEMMA StatusFinite ==
    ASSUME NEW S
    PROVE  IsFiniteSet(WithStatus(S)) /\ Cardinality(WithStatus(S)) \in Nat
  <1>1. IsFiniteSet(Tids)
    BY FS_Interval, ThreadIdsAssumption DEF Tids
  <1>2. WithStatus(S) \subseteq Tids
    BY DEF WithStatus
  <1>. QED
    BY <1>1, <1>2, FS_Subset, FS_CardinalityType

RegistryOK == RegistryTypeOK /\ ListsMatchStatus /\ CountersMatchStatus

\* What a method does to the contexts other than its argument.
OthersKeep(tid) ==
    \A t \in Tids \ {tid} :
        /\ \/ status'[t] = status[t]
           \/ status[t] = "Dead" /\ status'[t] = "Invalid"
        /\ Incarnation(t)' = Incarnation(t)

LEMMA CreateStep ==
    ASSUME RegistryOK, NEW tid \in Tids, NEW d \in BOOLEAN, CreateThread(tid, d)
    PROVE  /\ RegistryOK' /\ status[tid] = "Invalid" /\ status'[tid] = "Created"
           /\ OthersKeep(tid) /\ Incarnation(tid)' = Incarnation(tid)
  <1>1. /\ n_contexts_ \in Nat /\ n_contexts_ <= max_threads
        /\ status \in [Tids -> Statuses] /\ detached \in [Tids -> BOOLEAN]
        /\ reuse_count \in [Tids -> Nat]
        /\ dead_threads_ \in Seq(Tids) /\ invalid_threads_ \in Seq(Tids)
        /\ alive_threads_ \in Int /\ running_threads_ \in Int
    BY ThreadIdsAssumption DEF RegistryOK, RegistryTypeOK
  <1>2. /\ NoRepeats(dead_threads_) /\ NoRepeats(invalid_threads_)
        /\ InList(dead_threads_) = WithStatus({"Dead"})
        /\ InList(invalid_threads_) \subseteq WithStatus({"Invalid"})
        /\ Len(dead_threads_) <= thread_quarantine_size
        /\ \A t \in Tids : t >= n_contexts_ =>
              status[t] = "Invalid" /\ t \notin InList(invalid_threads_)
    BY DEF RegistryOK, ListsMatchStatus
  <1>3. /\ alive_threads_' = alive_threads_ + 1
        /\ status' = [status EXCEPT ![tid] = "Created"]
        /\ detached' = [detached EXCEPT ![tid] = d]
        /\ reuse_count' = reuse_count /\ dead_threads_' = dead_threads_
        /\ running_threads_' = running_threads_
    BY DEF CreateThread
  <1>4. /\ status[tid] = "Invalid" /\ tid \notin InList(invalid_threads_')
        /\ invalid_threads_' \in Seq(Tids) /\ NoRepeats(invalid_threads_')
        /\ InList(invalid_threads_') \subseteq InList(invalid_threads_)
        /\ n_contexts_' \in Nat /\ n_contexts_' <= max_threads
        /\ n_contexts_ <= n_contexts_' /\ tid < n_contexts_'
    <2>1. CASE invalid_threads_ # <<>>
      <3>1. /\ tid = Head(invalid_threads_) /\ invalid_threads_' = Tail(invalid_threads_)
            /\ n_contexts_' = n_contexts_
        BY <2>1 DEF CreateThread, NextTid
      <3>2. /\ Head(invalid_threads_) \in InList(invalid_threads_)
            /\ Tail(invalid_threads_) \in Seq(Tids) /\ NoRepeats(Tail(invalid_threads_))
            /\ InList(Tail(invalid_threads_)) =
                  InList(invalid_threads_) \ {Head(invalid_threads_)}
        BY <1>1, <1>2, <2>1, TailList
      <3>3. status[tid] = "Invalid" /\ ~(tid >= n_contexts_)
        BY <1>2, <3>1, <3>2 DEF WithStatus
      <3>. QED
        BY <1>1, <3>1, <3>2, <3>3, TidsAreNat
    <2>2. CASE invalid_threads_ = <<>>
      <3>1. /\ tid = n_contexts_ /\ invalid_threads_' = invalid_threads_
            /\ n_contexts_' = n_contexts_ + 1
        BY <2>2 DEF CreateThread, NextTid
      <3>2. tid >= n_contexts_ /\ tid < max_threads
        BY <1>1, <3>1, TidsAreNat
      <3>. QED
        BY <1>1, <1>2, <3>1, <3>2, ThreadIdsAssumption
    <2>. QED
      BY <2>1, <2>2
  <1>5. \A t \in Tids : status'[t] = IF t = tid THEN "Created" ELSE status[t]
    BY <1>1, <1>3
  <1>6. RegistryTypeOK'
    <2>1. n_contexts_' \in 0 .. max_threads
      BY <1>4, ThreadIdsAssumption
    <2>2. status' \in [Tids -> Statuses] /\ detached' \in [Tids -> BOOLEAN]
      BY <1>1, <1>3 DEF Statuses
    <2>3. reuse_count' \in [Tids -> Nat] /\ alive_threads_' \in Int
      BY <1>1, <1>3
    <2>. QED
      BY <1>1, <1>3, <1>4, <2>1, <2>2, <2>3 DEF RegistryTypeOK
  <1>7. ListsMatchStatus'
    <2>1. WithStatus({"Dead"})' = WithStatus({"Dead"})
      BY <1>4, <1>5 DEF WithStatus
    <2>2. InList(invalid_threads_') \subseteq WithStatus({"Invalid"})'
      BY <1>2, <1>4, <1>5 DEF WithStatus
    <2>3. \A t \in Tids : t >= n_contexts_' =>
              status'[t] = "Invalid" /\ t \notin InList(invalid_threads_')
      <3>1. \A t \in Tids : t >= n_contexts_' => t # tid /\ t >= n_contexts_
        BY <1>1, <1>4, TidsAreNat
      <3>. QED
        BY <1>2, <1>4, <1>5, <3>1
    <2>. QED
      BY <1>2, <1>3, <1>4, <2>1, <2>2, <2>3 DEF ListsMatchStatus
  <1>8. CountersMatchStatus'
    <2>1. WithStatus({"Running"})' = WithStatus({"Running"})
      BY <1>4, <1>5 DEF WithStatus
    <2>2. WithStatus({"Created", "Running"})' = WithStatus({"Created", "Running"}) \cup {tid}
      BY <1>4, <1>5 DEF WithStatus
    <2>3. tid \notin WithStatus({"Created", "Running"})
      BY <1>4 DEF WithStatus
    <2>4. Cardinality(WithStatus({"Created", "Running"})') =
              Cardinality(WithStatus({"Created", "Running"})) + 1
      BY <2>2, <2>3, StatusFinite, FS_AddElement
    <2>. QED
      BY <1>3, <2>1, <2>4 DEF RegistryOK, CountersMatchStatus
  <1>9. \A t \in Tids : Incarnation(t)' = Incarnation(t)
    BY <1>3, <1>4, <1>5 DEF Incarnation
  <1>10. \A t \in Tids \ {tid} : status'[t] = status[t]
    BY <1>5
  <1>. QED
    BY <1>4, <1>5, <1>6, <1>7, <1>8, <1>9, <1>10 DEF RegistryOK, OthersKeep

LEMMA StartStep ==
    ASSUME RegistryOK, NEW tid \in Tids, StartThread(tid)
    PROVE  /\ RegistryOK' /\ status[tid] = "Created" /\ status'[tid] = "Running"
           /\ OthersKeep(tid) /\ Incarnation(tid)' = Incarnation(tid) + 1
           /\ Incarnation(tid)' = reuse_count[tid] + 1
  <1>1. /\ n_contexts_' = n_contexts_ /\ detached' = detached /\ reuse_count' = reuse_count
        /\ dead_threads_' = dead_threads_ /\ invalid_threads_' = invalid_threads_
        /\ alive_threads_' = alive_threads_ /\ running_threads_' = running_threads_ + 1
        /\ status' = [status EXCEPT ![tid] = "Running"] /\ status[tid] = "Created"
    BY DEF StartThread
  <1>2. /\ \A t \in Tids : status'[t] = IF t = tid THEN "Running" ELSE status[t]
        /\ status' \in [Tids -> Statuses]
    BY <1>1 DEF RegistryOK, RegistryTypeOK, Statuses
  <1>3. RegistryTypeOK'
    <2>1. running_threads_' \in Int
      BY <1>1 DEF RegistryOK, RegistryTypeOK
    <2>. QED
      BY <1>1, <1>2, <2>1 DEF RegistryOK, RegistryTypeOK
  <1>4. ListsMatchStatus'
    <2>1. /\ WithStatus({"Dead"})' = WithStatus({"Dead"})
          /\ WithStatus({"Invalid"})' = WithStatus({"Invalid"})
      BY <1>1, <1>2 DEF WithStatus
    <2>2. \A t \in Tids : status[t] = "Invalid" => status'[t] = "Invalid"
      BY <1>1, <1>2
    <2>. QED
      BY <1>1, <2>1, <2>2 DEF RegistryOK, ListsMatchStatus
  <1>5. CountersMatchStatus'
    <2>1. WithStatus({"Created", "Running"})' = WithStatus({"Created", "Running"})
      BY <1>1, <1>2 DEF WithStatus
    <2>2. WithStatus({"Running"})' = WithStatus({"Running"}) \cup {tid}
      BY <1>1, <1>2 DEF WithStatus
    <2>3. tid \notin WithStatus({"Running"})
      BY <1>1 DEF WithStatus
    <2>4. Cardinality(WithStatus({"Running"})') = Cardinality(WithStatus({"Running"})) + 1
      BY <2>2, <2>3, StatusFinite, FS_AddElement
    <2>. QED
      BY <1>1, <2>1, <2>4 DEF RegistryOK, CountersMatchStatus
  <1>6. reuse_count[tid] \in Nat
    BY DEF RegistryOK, RegistryTypeOK
  <1>7. Incarnation(tid) = reuse_count[tid] /\ Incarnation(tid)' = reuse_count[tid] + 1
    BY <1>1, <1>2, <1>6 DEF Incarnation
  <1>8. \A t \in Tids \ {tid} : status'[t] = status[t] /\ Incarnation(t)' = Incarnation(t)
    BY <1>1, <1>2 DEF Incarnation
  <1>. QED
    BY <1>1, <1>2, <1>3, <1>4, <1>5, <1>7, <1>8 DEF RegistryOK, OthersKeep

\* A push into the quarantine changes nobody's incarnation.
LEMMA QuarantineKeeps ==
    ASSUME RegistryOK, NEW tid \in Tids, status[tid] \in {"Running", "Finished"},
           QuarantinePush(tid, [status EXCEPT ![tid] = "Dead"]),
           n_contexts_' = n_contexts_
    PROVE  /\ OthersKeep(tid) /\ Incarnation(tid)' = Incarnation(tid)
           /\ WithStatus({"Running"})' = WithStatus({"Running"}) \ {tid}
           /\ WithStatus({"Created", "Running"})' =
                 WithStatus({"Created", "Running"}) \ {tid}
  <1>1. /\ status'[tid] \in {"Dead", "Invalid"}
        /\ \A t \in Tids \ {tid} : \/ status'[t] = status[t]
                                   \/ status[t] = "Dead" /\ status'[t] = "Invalid"
        /\ \A t \in Tids : IF status[t] # "Invalid" /\ status'[t] = "Invalid"
                           THEN reuse_count'[t] = reuse_count[t] + 1
                           ELSE reuse_count'[t] = reuse_count[t]
        /\ \A t \in Tids : reuse_count[t] \in Nat
    BY QuarantineStep DEF RegistryOK, RegistryTypeOK
  <1>2. \A t \in Tids \ {tid} : Incarnation(t)' = Incarnation(t)
    BY <1>1 DEF Incarnation
  <1>3. Incarnation(tid)' = Incarnation(tid)
    BY <1>1 DEF Incarnation
  <1>. QED
    BY <1>1, <1>2, <1>3 DEF OthersKeep, WithStatus

LEMMA FinishStep ==
    ASSUME RegistryOK, NEW tid \in Tids, FinishThread(tid)
    PROVE  /\ RegistryOK' /\ status[tid] = "Running" /\ status'[tid] # "Running"
           /\ OthersKeep(tid) /\ Incarnation(tid)' = Incarnation(tid)
           /\ ~detached[tid] => status'[tid] = "Finished"
  <1>1. /\ n_contexts_' = n_contexts_ /\ detached' = detached /\ status[tid] = "Running"
        /\ alive_threads_' = alive_threads_ - 1 /\ running_threads_' = running_threads_ - 1
    BY DEF FinishThread
  <1>2. alive_threads_' \in Int /\ running_threads_' \in Int
    BY <1>1 DEF RegistryOK, RegistryTypeOK
  <1>3. ASSUME WithStatus({"Running"})' = WithStatus({"Running"}) \ {tid},
               WithStatus({"Created", "Running"})' =
                   WithStatus({"Created", "Running"}) \ {tid}
        PROVE  CountersMatchStatus'
    <2>1. tid \in WithStatus({"Running"}) /\ tid \in WithStatus({"Created", "Running"})
      BY <1>1 DEF WithStatus
    <2>2. /\ Cardinality(WithStatus({"Running"})') = Cardinality(WithStatus({"Running"})) - 1
          /\ Cardinality(WithStatus({"Created", "Running"})') =
                Cardinality(WithStatus({"Created", "Running"})) - 1
      BY <1>3, <2>1, StatusFinite, FS_RemoveElement
    <2>. QED
      BY <1>1, <2>2 DEF RegistryOK, CountersMatchStatus
  <1>4. CASE detached[tid]
    <2>1. QuarantinePush(tid, [status EXCEPT ![tid] = "Dead"])
      BY <1>4 DEF FinishThread
    <2>2. /\ status' \in [Tids -> Statuses] /\ reuse_count' \in [Tids -> Nat]
          /\ dead_threads_' \in Seq(Tids) /\ invalid_threads_' \in Seq(Tids)
          /\ ListsMatchStatus' /\ status'[tid] \in {"Dead", "Invalid"}
      BY <1>1, <2>1, QuarantineStep DEF RegistryOK
    <2>3. RegistryTypeOK'
      BY <1>1, <1>2, <2>2 DEF RegistryOK, RegistryTypeOK
    <2>4. /\ OthersKeep(tid) /\ Incarnation(tid)' = Incarnation(tid)
          /\ WithStatus({"Running"})' = WithStatus({"Running"}) \ {tid}
          /\ WithStatus({"Created", "Running"})' =
                WithStatus({"Created", "Running"}) \ {tid}
      BY <1>1, <2>1, QuarantineKeeps
    <2>. QED
      BY <1>1, <1>3, <1>4, <2>2, <2>3, <2>4 DEF RegistryOK
  <1>5. CASE ~detached[tid]
    <2>1. /\ status' = [status EXCEPT ![tid] = "Finished"] /\ reuse_count' = reuse_count
          /\ dead_threads_' = dead_threads_ /\ invalid_threads_' = invalid_threads_
      BY <1>5 DEF FinishThread
    <2>2. /\ \A t \in Tids : status'[t] = IF t = tid THEN "Finished" ELSE status[t]
          /\ status' \in [Tids -> Statuses]
      BY <2>1 DEF RegistryOK, RegistryTypeOK, Statuses
    <2>3. RegistryTypeOK'
      BY <1>1, <1>2, <2>1, <2>2 DEF RegistryOK, RegistryTypeOK
    <2>4. ListsMatchStatus'
      <3>1. /\ WithStatus({"Dead"})' = WithStatus({"Dead"})
            /\ WithStatus({"Invalid"})' = WithStatus({"Invalid"})
        BY <1>1, <2>2 DEF WithStatus
      <3>2. \A t \in Tids : status[t] = "Invalid" => status'[t] = "Invalid"
        BY <1>1, <2>2
      <3>. QED
        BY <1>1, <2>1, <3>1, <3>2 DEF RegistryOK, ListsMatchStatus
    <2>5. /\ WithStatus({"Running"})' = WithStatus({"Running"}) \ {tid}
          /\ WithStatus({"Created", "Running"})' =
                WithStatus({"Created", "Running"}) \ {tid}
      BY <1>1, <2>2 DEF WithStatus
    <2>6. \A t \in Tids : Incarnation(t)' = Incarnation(t)
      BY <1>1, <2>1, <2>2 DEF Incarnation
    <2>. QED
      BY <1>1, <1>3, <2>2, <2>3, <2>4, <2>5, <2>6 DEF RegistryOK, OthersKeep
  <1>. QED
    BY <1>4, <1>5

LEMMA RegistryUnchanged ==
    ASSUME RegistryOK, UNCHANGED registryVars
    PROVE  RegistryOK'
  <1>1. \A S : WithStatus(S)' = WithStatus(S)
    BY DEF registryVars, WithStatus
  <1>. QED
    BY <1>1 DEF RegistryOK, RegistryTypeOK, ListsMatchStatus, CountersMatchStatus,
                registryVars

\* A finished thread that is joined or detached dies.
LEMMA ReapStep ==
    ASSUME RegistryOK, NEW tid \in Tids, status[tid] = "Finished",
           QuarantinePush(tid, [status EXCEPT ![tid] = "Dead"]),
           UNCHANGED <<n_contexts_, detached, alive_threads_, running_threads_>>
    PROVE  /\ RegistryOK' /\ status'[tid] \in {"Dead", "Invalid"}
           /\ OthersKeep(tid) /\ Incarnation(tid)' = Incarnation(tid)
  <1>1. /\ status' \in [Tids -> Statuses] /\ reuse_count' \in [Tids -> Nat]
        /\ dead_threads_' \in Seq(Tids) /\ invalid_threads_' \in Seq(Tids)
        /\ ListsMatchStatus' /\ status'[tid] \in {"Dead", "Invalid"}
    BY QuarantineStep DEF RegistryOK
  <1>2. RegistryTypeOK'
    BY <1>1 DEF RegistryOK, RegistryTypeOK
  <1>3. /\ OthersKeep(tid) /\ Incarnation(tid)' = Incarnation(tid)
        /\ WithStatus({"Running"})' = WithStatus({"Running"}) \ {tid}
        /\ WithStatus({"Created", "Running"})' =
              WithStatus({"Created", "Running"}) \ {tid}
    BY QuarantineKeeps
  <1>4. /\ WithStatus({"Running"}) \ {tid} = WithStatus({"Running"})
        /\ WithStatus({"Created", "Running"}) \ {tid} = WithStatus({"Created", "Running"})
    BY DEF WithStatus
  <1>5. CountersMatchStatus'
    BY <1>3, <1>4 DEF RegistryOK, CountersMatchStatus
  <1>. QED
    BY <1>1, <1>2, <1>3, <1>5 DEF RegistryOK

\* A join of a context that is not in use changes nothing.
LEMMA JoinStep ==
    ASSUME RegistryOK, NEW tid \in Tids, JoinThread(tid)
    PROVE  RegistryOK'
  <1>1. CASE UNCHANGED registryVars
    BY <1>1, RegistryUnchanged
  <1>2. CASE status[tid] = "Finished"
             /\ QuarantinePush(tid, [status EXCEPT ![tid] = "Dead"])
             /\ UNCHANGED <<n_contexts_, detached, alive_threads_, running_threads_>>
    BY <1>2, ReapStep
  <1>. QED
    BY <1>1, <1>2 DEF JoinThread

\* Detaching changes no status, or lets a finished thread die.
LEMMA DetachStep ==
    ASSUME RegistryOK, NEW tid \in Tids, DetachThread(tid)
    PROVE  /\ RegistryOK'
           /\ \/ status'[tid] = status[tid]
              \/ status[tid] = "Finished" /\ status'[tid] \in {"Dead", "Invalid"}
           /\ OthersKeep(tid) /\ Incarnation(tid)' = Incarnation(tid)
  <1>1. CASE status[tid] = "Finished"
    <2>1. /\ QuarantinePush(tid, [status EXCEPT ![tid] = "Dead"])
          /\ UNCHANGED <<n_contexts_, detached, alive_threads_, running_threads_>>
      BY <1>1 DEF DetachThread
    <2>. QED
      BY <1>1, <2>1, ReapStep
  <1>2. CASE status[tid] = "Invalid"
    <2>1. UNCHANGED registryVars
      BY <1>2 DEF DetachThread
    <2>2. \A t \in Tids : status'[t] = status[t] /\ Incarnation(t)' = Incarnation(t)
      BY <2>1 DEF registryVars, Incarnation
    <2>. QED
      BY <2>1, <2>2, RegistryUnchanged DEF OthersKeep
  <1>3. CASE status[tid] \notin {"Finished", "Invalid"}
    <2>1. /\ detached' = [detached EXCEPT ![tid] = TRUE]
          /\ status' = status /\ reuse_count' = reuse_count
          /\ dead_threads_' = dead_threads_ /\ invalid_threads_' = invalid_threads_
          /\ n_contexts_' = n_contexts_ /\ alive_threads_' = alive_threads_
          /\ running_threads_' = running_threads_
      BY <1>3 DEF DetachThread
    <2>2. detached' \in [Tids -> BOOLEAN]
      BY <2>1 DEF RegistryOK, RegistryTypeOK
    <2>3. RegistryTypeOK'
      BY <2>1, <2>2 DEF RegistryOK, RegistryTypeOK
    <2>4. ListsMatchStatus' /\ CountersMatchStatus'
      <3>1. \A S : WithStatus(S)' = WithStatus(S)
        BY <2>1 DEF WithStatus
      <3>. QED
        BY <2>1, <3>1 DEF RegistryOK, ListsMatchStatus, CountersMatchStatus
    <2>5. \A t \in Tids : status'[t] = status[t] /\ Incarnation(t)' = Incarnation(t)
      BY <2>1 DEF Incarnation
    <2>. QED
      BY <2>1, <2>3, <2>4, <2>5 DEF RegistryOK, OthersKeep
  <1>. QED
    BY <1>1, <1>2, <1>3

-----------------------------------------------------------------------------
(* The registry alone                                                      *)

LEMMA RegistryInitOK == RegistryInit => RegistryOK
  <1> SUFFICES ASSUME RegistryInit PROVE RegistryOK
    OBVIOUS
  <1>2. /\ \A t \in Tids : status[t] = IF t = 0 THEN "Running" ELSE "Invalid"
        /\ status \in [Tids -> Statuses] /\ detached \in [Tids -> BOOLEAN]
        /\ reuse_count \in [Tids -> Nat]
        /\ dead_threads_ = <<>> /\ invalid_threads_ = <<>>
        /\ n_contexts_ = 1 /\ alive_threads_ = 1 /\ running_threads_ = 1
    BY DEF RegistryInit, Statuses
  <1>3. 0 \in Tids
    BY ThreadIdsAssumption DEF Tids
  <1>4. RegistryTypeOK
    <2>1. 1 \in 0 .. max_threads /\ 1 \in Int /\ <<>> \in Seq(Tids)
      BY ThreadIdsAssumption
    <2>. QED
      BY <1>2, <2>1 DEF RegistryTypeOK
  <1>5. ListsMatchStatus
    <2>1. InList(<<>>) = {} /\ NoRepeats(<<>>) /\ Len(<<>>) = 0
      BY DEF InList, NoRepeats
    <2>2. WithStatus({"Dead"}) = {}
      BY <1>2 DEF WithStatus
    <2>3. 0 <= thread_quarantine_size
      BY RegistryAssumption
    <2>4. \A t \in Tids : t >= 1 => t # 0
      BY TidsAreNat
    <2>. QED
      BY <1>2, <2>1, <2>2, <2>3, <2>4 DEF ListsMatchStatus
  <1>6. CountersMatchStatus
    <2>1. WithStatus({"Running"}) = {0} /\ WithStatus({"Created", "Running"}) = {0}
      BY <1>2, <1>3 DEF WithStatus
    <2>2. Cardinality({0}) = 1
      BY FS_Singleton
    <2>. QED
      BY <1>2, <2>1, <2>2 DEF CountersMatchStatus
  <1>. QED
    BY <1>4, <1>5, <1>6 DEF RegistryOK

LEMMA RegistryInvariance == RegistrySpec => []RegistryOK
  <1>1. RegistryOK /\ [RegistryNext]_registryVars => RegistryOK'
    <2> SUFFICES ASSUME RegistryOK, [RegistryNext]_registryVars PROVE RegistryOK'
      OBVIOUS
    <2>1. CASE UNCHANGED registryVars
      BY <2>1, RegistryUnchanged
    <2>2. ASSUME NEW tid \in Tids, NEW d \in BOOLEAN, CreateThread(tid, d)
          PROVE  RegistryOK'
      BY <2>2, CreateStep
    <2>3. ASSUME NEW tid \in Tids,
                 \/ StartThread(tid) \/ FinishThread(tid)
                 \/ JoinThread(tid) \/ DetachThread(tid)
          PROVE  RegistryOK'
      BY <2>3, StartStep, FinishStep, JoinStep, DetachStep
    <2>. QED
      BY <2>1, <2>2, <2>3 DEF RegistryNext
  <1>. QED
    BY <1>1, RegistryInitOK, PTL DEF RegistrySpec

\* Whatever a tool does with the registry, quarantine and free list hold each
\* context at most once and exactly the dead and the reusable ones.
THEOREM RegistryAloneLists == RegistrySpec => []ListsMatchStatus
  <1>1. RegistryOK => ListsMatchStatus
    BY DEF RegistryOK
  <1>. QED
    BY <1>1, RegistryInvariance, PTL

\* Whatever a tool does with the registry, alive_threads_ and running_threads_
\* count the contexts in those states, so the CHECK_GTs of FinishThread hold.
THEOREM RegistryAloneCounters == RegistrySpec => []CountersMatchStatus
  <1>1. RegistryOK => CountersMatchStatus
    BY DEF RegistryOK
  <1>. QED
    BY <1>1, RegistryInvariance, PTL

-----------------------------------------------------------------------------
(* A step of thread t: its clock becomes A, the sync clock of o becomes F,  *)
(* and the times become E                                                  *)

LEMMA Types ==
    ASSUME TypeOK
    PROVE  /\ epoch \in Vector /\ \A t \in Tids : epoch[t] \in Nat /\ epoch[t] <= MaxEpoch
           /\ clock \in [Tids -> ThreadClock] /\ sync \in [Objects -> SyncClock]
           /\ \A t \in Tids : clock[t] \in ThreadClock /\ clock[t].tid = t
           /\ \A o \in Objects : sync[o] \in SyncClock
           /\ Running \subseteq Tids
  <1>1. epoch \in [Tids -> 0 .. MaxEpoch] /\ MaxEpoch \in Nat
    BY TsanAssumption DEF TypeOK
  <1>2. epoch \in Vector /\ \A t \in Tids : epoch[t] \in Nat /\ epoch[t] <= MaxEpoch
    BY <1>1 DEF Vector
  <1>. QED
    BY <1>2 DEF TypeOK, Running

\* Everything but t's own clock under the new times.
OthersOK(t, E) ==
    /\ E \in Vector /\ \A i \in Tids : epoch[i] <= E[i]
    /\ \A o \in Objects : SyncOK(sync[o], E)
    /\ \A x \in Running \ {t} : ThreadOK(clock[x], E) /\ clock[x].clk[t] <= E[t]

\* A may be the clock of thread t ...
FitClock(A, t, E) ==
    /\ A \in ThreadClock /\ A.tid = t
    /\ ThreadOK(A, E)
    /\ \A o \in Objects : PairOK(A, sync[o])
    /\ \A x \in Running \ {t} : Covers(A.clk, clock[x]) /\ Covers(clock[x].clk, A)

\* ... and has the present time of t.
GoodClock(A, t, E) == FitClock(A, t, E) /\ A.clk[t] = E[t]

LEMMA TimesGrow ==
    ASSUME TypeOK, ClocksOK, NEW t \in Tids, NEW e \in Nat, e >= epoch[t],
           NEW E, E = [epoch EXCEPT ![t] = e]
    PROVE  OthersOK(t, E) /\ E[t] = e
  <1>1. epoch \in Vector /\ \A i \in Tids : epoch[i] \in Nat
    BY Types
  <1>2. /\ E \in Vector /\ \A i \in Tids : E[i] = IF i = t THEN e ELSE epoch[i]
    BY <1>1 DEF Vector
  <1>3. \A i \in Tids : epoch[i] <= E[i] /\ E[i] \in Nat
    BY <1>1, <1>2
  <1>4. ASSUME NEW o \in Objects
        PROVE  SyncOK(sync[o], E)
    <2>1. \A i \in Tids : sync[o].epoch[i] \in Nat /\ sync[o].epoch[i] <= epoch[i]
      BY Types, SyncClockFields DEF ClocksOK, SyncOK
    <2>2. \A i \in Tids : sync[o].epoch[i] <= E[i]
      BY <1>1, <1>3, <2>1
    <2>. QED
      BY <2>2 DEF ClocksOK, SyncOK
  <1>5. ASSUME NEW x \in Running \ {t}
        PROVE  ThreadOK(clock[x], E) /\ clock[x].clk[t] <= E[t]
    <2>1. \A i \in Tids : clock[x].clk[i] \in Nat /\ clock[x].clk[i] <= epoch[i]
      BY Types, ThreadClockFields DEF ClocksOK, ThreadOK
    <2>2. \A i \in Tids : clock[x].clk[i] <= E[i]
      BY <1>1, <1>3, <2>1
    <2>. QED
      BY <2>2 DEF ClocksOK, ThreadOK
  <1>. QED
    BY <1>2, <1>3, <1>4, <1>5 DEF OthersOK

\* The clock as it is, under later times.
LEMMA SameClockFits ==
    ASSUME TypeOK, ClocksOK, NEW t \in Running, NEW E, OthersOK(t, E)
    PROVE  FitClock(clock[t], t, E)
  <1>1. t \in Tids /\ clock[t] \in ThreadClock /\ clock[t].tid = t
    BY Types
  <1>2. ThreadOK(clock[t], E)
    <2>1. \A i \in Tids : /\ clock[t].clk[i] \in Nat /\ clock[t].clk[i] <= epoch[i]
                          /\ epoch[i] \in Nat /\ E[i] \in Nat /\ epoch[i] <= E[i]
      BY <1>1, Types, ThreadClockFields DEF ClocksOK, OthersOK, Vector
    <2>2. \A i \in Tids : clock[t].clk[i] <= E[i]
      BY <2>1
    <2>. QED
      BY <2>2 DEF ClocksOK, ThreadOK
  <1>. QED
    BY <1>1, <1>2 DEF FitClock, ClocksOK

LEMMA OwnTimeGood ==
    ASSUME TypeOK, ClocksOK, NEW t \in Running, NEW e \in Nat, e >= epoch[t],
           NEW E, E = [epoch EXCEPT ![t] = e]
    PROVE  /\ GoodClock(SetOwn(clock[t], e), t, E)
           /\ SetOwn(clock[t], e).reused = clock[t].reused
  <1>1. /\ t \in Tids /\ clock[t] \in ThreadClock /\ clock[t].tid = t
        /\ epoch \in Vector /\ epoch[t] \in Nat
        /\ \A o \in Objects : sync[o] \in SyncClock
        /\ \A x \in Running : x \in Tids /\ clock[x] \in ThreadClock /\ clock[x].tid = x
    BY Types
  <1>2. /\ OthersOK(t, E) /\ E[t] = e
    BY <1>1, TimesGrow
  <1>3. clock[t].clk[t] \in Nat /\ clock[t].clk[t] <= e
    <2>1. clock[t].clk[t] <= epoch[t] /\ clock[t].clk[t] \in Nat
      BY <1>1, ThreadClockFields DEF ClocksOK
    <2>. QED
      BY <1>1, <2>1
  <1> DEFINE T == SetOwn(clock[t], e)
  <1>4. T \in ThreadClock /\ T.tid = t /\ T.clk[t] = e /\ T.reused = clock[t].reused
    BY <1>1, SetOwnFields
  <1>5. ThreadOK(T, E)
    <2>1. ThreadOK(clock[t], epoch) /\ e >= clock[t].clk[clock[t].tid]
      BY <1>1, <1>3 DEF ClocksOK
    <2>2. E \in Vector /\ e <= E[clock[t].tid] /\ \A i \in Tids : epoch[i] <= E[i]
      BY <1>1, <1>2 DEF OthersOK
    <2>. QED
      BY <1>1, <2>1, <2>2, SetOwnOK
  <1>6. \A o \in Objects : PairOK(T, sync[o])
    BY <1>1, SetOwnPair DEF ClocksOK
  <1>7. ASSUME NEW x \in Running \ {t}
        PROVE  Covers(T.clk, clock[x]) /\ Covers(clock[x].clk, T)
    <2>1. Covers(clock[t].clk, clock[x]) /\ Covers(clock[x].clk, clock[t])
      BY DEF ClocksOK
    <2>2. e >= clock[t].clk[clock[t].tid] /\ clock[x].tid # clock[t].tid
          /\ clock[x].clk \in Vector
      BY <1>1, <1>3, ThreadClockFields
    <2>3. Covers(T.clk, clock[x])
      BY <1>1, <2>1, <2>2, SetOwnCoversOther
    <2>4. Covers(clock[x].clk, T)
      BY <1>1, <2>1, <2>2, SetOwnCovers
    <2>. QED
      BY <2>3, <2>4
  <1> HIDE DEF T
  <1>8. GoodClock(T, t, E)
    BY <1>2, <1>4, <1>5, <1>6, <1>7 DEF GoodClock, FitClock
  <1>. QED
    BY <1>4, <1>8 DEF T

\* After an acquire the clock is still good.
LEMMA AcquiredGood ==
    ASSUME TypeOK, ClocksOK, NEW t \in Tids, NEW E, OthersOK(t, E),
           NEW T, GoodClock(T, t, E), NEW o \in Objects
    PROVE  /\ GoodClock(AcquireThread(T, sync[o]), t, E)
           /\ AcquireThread(T, sync[o]).reused = T.reused
  <1>1. /\ \A p \in Objects : sync[p] \in SyncClock
        /\ \A x \in Running : x \in Tids /\ clock[x] \in ThreadClock /\ clock[x].tid = x
    BY Types
  <1>2. /\ T \in ThreadClock /\ T.tid = t /\ T.clk[T.tid] = E[T.tid] /\ ThreadOK(T, E)
        /\ E \in Vector /\ SyncOK(sync[o], E) /\ PairOK(T, sync[o])
    BY DEF GoodClock, FitClock, OthersOK
  <1> DEFINE A == AcquireThread(T, sync[o])
  <1>3. A \in ThreadClock /\ A.tid = t /\ A.reused = T.reused
    BY <1>1, <1>2, AcquireFields
  <1>4. /\ \A i \in Tids : A.clk[i] = Maximum(T.clk[i], sync[o].epoch[i])
        /\ A.clk[t] = E[t]
    BY <1>1, <1>2, AcquireIsJoin
  <1>5. ThreadOK(A, E)
    BY <1>1, <1>2, AcquireOK
  <1>6. \A p \in Objects : PairOK(A, sync[p])
    BY <1>1, <1>2, AcquirePair DEF GoodClock, FitClock, OthersOK
  <1>7. ASSUME NEW x \in Running \ {t}
        PROVE  Covers(A.clk, clock[x]) /\ Covers(clock[x].clk, A)
    <2>1. /\ Covers(T.clk, clock[x]) /\ Covers(clock[x].clk, T)
          /\ clock[x].clk[T.tid] <= E[T.tid] /\ clock[x].clk \in Vector
      BY <1>1, <1>2, ThreadClockFields DEF GoodClock, FitClock, OthersOK
    <2>2. Covers(clock[x].clk, A)
      BY <1>1, <1>2, <2>1, AcquireCovers
    <2>3. Covers(sync[o].epoch, clock[x])
      BY DEF ClocksOK, PairOK
    <2>4. T.clk \in Vector /\ sync[o].epoch \in Vector /\ A.clk \in Vector
      BY <1>1, <1>2, <1>3, ThreadClockFields, SyncClockFields
    <2>5. Covers(A.clk, clock[x])
      BY <1>1, <1>4, <2>1, <2>3, <2>4, JoinCovers
    <2>. QED
      BY <2>2, <2>5
  <1> HIDE DEF A
  <1>8. GoodClock(A, t, E)
    BY <1>3, <1>4, <1>5, <1>6, <1>7 DEF GoodClock, FitClock
  <1>. QED
    BY <1>3, <1>8 DEF A

\* F may be the sync clock of an object after t's step.
GoodSync(F, A, t, E) ==
    /\ F \in SyncClock /\ SyncOK(F, E) /\ PairOK(A, F)
    /\ \A x \in Running \ {t} : PairOK(clock[x], F)

LEMMA Install ==
    ASSUME TypeOK, ClocksOK, NEW t \in Tids, NEW o \in Objects, NEW E, NEW A, NEW F,
           OthersOK(t, E), FitClock(A, t, E), GoodSync(F, A, t, E),
           epoch' = E, clock' = [clock EXCEPT ![t] = A], sync' = [sync EXCEPT ![o] = F],
           Running' \subseteq Running \cup {t}
    PROVE  /\ ClocksOK'
           /\ clock' \in [Tids -> ThreadClock] /\ sync' \in [Objects -> SyncClock]
           /\ \A x \in Tids : clock'[x].tid = x
  <1>1. /\ clock \in [Tids -> ThreadClock] /\ sync \in [Objects -> SyncClock]
        /\ \A x \in Tids : clock[x] \in ThreadClock /\ clock[x].tid = x
        /\ Running \subseteq Tids /\ epoch \in Vector
    BY Types
  <1>2. \A x \in Tids : clock'[x] = IF x = t THEN A ELSE clock[x]
    BY <1>1
  <1>3. \A p \in Objects : sync'[p] = IF p = o THEN F ELSE sync[p]
    BY <1>1
  <1>4. /\ clock' \in [Tids -> ThreadClock] /\ sync' \in [Objects -> SyncClock]
        /\ \A x \in Tids : clock'[x].tid = x
    BY <1>1, <1>2 DEF FitClock, GoodSync
  <1>5. \A x \in Tids, i \in Tids : clock'[x].clk[i] <= epoch'[i]
    <2> SUFFICES ASSUME NEW x \in Tids, NEW i \in Tids
                 PROVE  clock'[x].clk[i] <= E[i]
      OBVIOUS
    <2>1. CASE x = t
      BY <1>2, <2>1 DEF FitClock, ThreadOK
    <2>2. CASE x # t
      <3>1. clock[x].clk[i] \in Nat /\ epoch[i] \in Nat /\ E[i] \in Nat
        BY <1>1, ThreadClockFields DEF Vector, OthersOK
      <3>2. clock[x].clk[i] <= epoch[i] /\ epoch[i] <= E[i]
        BY DEF ClocksOK, OthersOK
      <3>. QED
        BY <1>2, <2>2, <3>1, <3>2
    <2>. QED
      BY <2>1, <2>2
  <1>6. \A x \in Running' : ThreadOK(clock'[x], epoch')
    <2> SUFFICES ASSUME NEW x \in Running'
                 PROVE  ThreadOK(clock'[x], E)
      OBVIOUS
    <2>1. CASE x = t
      BY <1>2, <2>1 DEF FitClock
    <2>2. CASE x # t
      BY <1>1, <1>2, <2>2 DEF OthersOK
    <2>. QED
      BY <2>1, <2>2
  <1>7. \A p \in Objects : SyncOK(sync'[p], epoch')
    BY <1>3 DEF OthersOK, GoodSync
  <1>8. ASSUME NEW x \in Running', NEW p \in Objects
        PROVE  PairOK(clock'[x], sync'[p])
    <2>1. CASE x = t
      BY <1>2, <1>3, <2>1 DEF FitClock, GoodSync
    <2>2. CASE x # t
      <3>1. x \in Running \ {t} /\ clock'[x] = clock[x]
        BY <1>1, <1>2, <2>2
      <3>. QED
        BY <1>3, <3>1 DEF ClocksOK, GoodSync
    <2>. QED
      BY <2>1, <2>2
  <1>9. ASSUME NEW x \in Running', NEW u \in Running', x # u
        PROVE  Covers(clock'[u].clk, clock'[x])
    <2>1. /\ x # t => x \in Running \ {t} /\ clock'[x] = clock[x]
          /\ u # t => u \in Running \ {t} /\ clock'[u] = clock[u]
          /\ x = t => clock'[x] = A
          /\ u = t => clock'[u] = A
      BY <1>1, <1>2
    <2>2. CASE x = t
      BY <1>9, <2>1, <2>2 DEF FitClock
    <2>3. CASE u = t
      BY <1>9, <2>1, <2>3 DEF FitClock
    <2>4. CASE x # t /\ u # t
      BY <1>9, <2>1, <2>4 DEF ClocksOK
    <2>. QED
      BY <2>2, <2>3, <2>4
  <1>10. ClocksOK'
    BY <1>5, <1>6, <1>7, <1>8, <1>9 DEF ClocksOK
  <1>. QED
    BY <1>4, <1>10

LEMMA AcquiredSyncGood ==
    ASSUME TypeOK, ClocksOK, NEW t \in Tids, NEW E, OthersOK(t, E),
           NEW T, GoodClock(T, t, E), NEW o \in Objects
    PROVE  GoodSync(AcquireSync(T, sync[o]), AcquireThread(T, sync[o]), t, E)
  <1>1. /\ sync[o] \in SyncClock
        /\ \A x \in Running : x \in Tids /\ clock[x] \in ThreadClock /\ clock[x].tid = x
    BY Types
  <1>2. /\ T \in ThreadClock /\ T.tid = t /\ T.clk[T.tid] = E[T.tid] /\ ThreadOK(T, E)
        /\ E \in Vector /\ SyncOK(sync[o], E) /\ PairOK(T, sync[o])
    BY DEF GoodClock, FitClock, OthersOK
  <1>3. /\ AcquireSync(T, sync[o]) \in SyncClock /\ SyncOK(AcquireSync(T, sync[o]), E)
    BY <1>1, <1>2, AcquireSyncFields, AcquireSyncOK
  <1>4. PairOK(AcquireThread(T, sync[o]), AcquireSync(T, sync[o]))
    BY <1>1, <1>2, AcquireSyncPair
  <1>5. \A x \in Running \ {t} : PairOK(clock[x], AcquireSync(T, sync[o]))
    BY <1>1, <1>2, AcquireSyncPairOther DEF ClocksOK
  <1>. QED
    BY <1>3, <1>4, <1>5 DEF GoodSync

\* A release by t of a good clock T into a good sync clock S.
LEMMA ReleasedGood ==
    ASSUME TypeOK, ClocksOK, NEW t \in Tids, NEW E, OthersOK(t, E),
           NEW T, GoodClock(T, t, E), NEW S, GoodSync(S, T, t, E)
    PROVE  /\ GoodSync(ReleaseSync(T, S), T, t, E)
           /\ GoodSync(ReleaseStoreSync(T, S), T, t, E)
           /\ FlagsKept(T, S, ReleaseSync(T, S))
           /\ FlagsKept(T, S, ReleaseStoreSync(T, S))
  <1>1. \A x \in Running : x \in Tids /\ clock[x] \in ThreadClock /\ clock[x].tid = x
    BY Types
  <1>2. /\ T \in ThreadClock /\ T.tid = t /\ T.clk[T.tid] = E[T.tid] /\ ThreadOK(T, E)
        /\ E \in Vector /\ S \in SyncClock /\ SyncOK(S, E) /\ PairOK(T, S)
    BY DEF GoodClock, FitClock, GoodSync, OthersOK
  <1>3. /\ ReleaseSync(T, S) \in SyncClock /\ SyncOK(ReleaseSync(T, S), E)
        /\ PairOK(T, ReleaseSync(T, S)) /\ FlagsKept(T, S, ReleaseSync(T, S))
    BY <1>2, ReleaseOK
  <1>4. /\ ReleaseStoreSync(T, S) \in SyncClock /\ SyncOK(ReleaseStoreSync(T, S), E)
        /\ PairOK(T, ReleaseStoreSync(T, S)) /\ FlagsKept(T, S, ReleaseStoreSync(T, S))
    BY <1>2, ReleaseStoreOK
  <1>5. ASSUME NEW x \in Running \ {t}
        PROVE  PairOK(clock[x], ReleaseSync(T, S)) /\ PairOK(clock[x], ReleaseStoreSync(T, S))
    <2>1. /\ clock[x] \in ThreadClock /\ clock[x].tid # T.tid /\ clock[x].reused # 0
          /\ PairOK(clock[x], S) /\ Covers(T.clk, clock[x])
          /\ clock[x].clk[T.tid] <= T.clk[T.tid]
      BY <1>1, <1>2 DEF GoodClock, FitClock, GoodSync, OthersOK, ThreadOK
    <2>. QED
      BY <1>2, <2>1, ReleasePairOther, ReleaseStorePairOther
  <1>. QED
    BY <1>3, <1>4, <1>5 DEF GoodSync

LEMMA EmptyGood ==
    ASSUME TypeOK, ClocksOK, NEW t \in Tids, NEW E, OthersOK(t, E),
           NEW T, FitClock(T, t, E)
    PROVE  GoodSync(EmptySyncClock, T, t, E)
  <1>1. /\ EmptySyncClock \in SyncClock /\ EmptySyncClock.size = 0
        /\ EmptySyncClock.dirty = {} /\ EmptySyncClock.release_store_tid = kInvalidTid
        /\ \A i \in Tids : EmptySyncClock.epoch[i] = 0 /\ EmptySyncClock.reused[i] = 0
    BY ZeroClockIsVector, ThreadIdsAssumption DEF EmptySyncClock, SyncClock
  <1>2. \A i \in Tids : E[i] \in Nat
    BY DEF OthersOK, Vector
  <1>3. SyncOK(EmptySyncClock, E)
    BY <1>1, <1>2 DEF SyncOK
  <1>4. ASSUME NEW X \in ThreadClock, X.reused # 0
        PROVE  PairOK(X, EmptySyncClock)
    <2>1. X.tid \in Tids /\ X.tid \in Nat /\ X.last_acquire \in Nat
      BY ThreadClockFields, TidsAreNat
    <2>2. ~HasAcquired(X, EmptySyncClock)
      BY <1>1, <1>4, <2>1 DEF HasAcquired
    <2>3. ~StoredBy(X, EmptySyncClock)
      BY <1>1, <2>1 DEF StoredBy, kInvalidTid
    <2>4. ~(EmptySyncClock.epoch[X.tid] > X.last_acquire)
      BY <1>1, <2>1
    <2>. QED
      BY <2>2, <2>3, <2>4 DEF PairOK, Covers
  <1>5. \A x \in Running \ {t} : clock[x] \in ThreadClock /\ clock[x].reused # 0
    BY Types DEF ThreadOK, OthersOK
  <1>6. T \in ThreadClock /\ T.reused # 0
    BY DEF FitClock, ThreadOK
  <1>. QED
    BY <1>1, <1>3, <1>4, <1>5, <1>6 DEF GoodSync

\* No flag of S is from the future.
FlagsOK(S) ==
    \A i \in Tids : /\ S.reused[i] <= Incarnation(i)
                    /\ S.release_store_tid = i => S.release_store_reused <= Incarnation(i)

LEMMA IncarnationIsNat ==
    ASSUME RegistryOK
    PROVE  \A i \in Tids : Incarnation(i) \in Nat
  BY DEF RegistryOK, RegistryTypeOK, Incarnation

LEMMA AcquireFlags ==
    ASSUME RegistryOK, NEW T \in ThreadClock, NEW S \in SyncClock,
           FlagsOK(S), T.reused = Incarnation(T.tid)
    PROVE  FlagsOK(AcquireSync(T, S))
  <1>1. /\ AcquireSync(T, S).release_store_tid = S.release_store_tid
        /\ AcquireSync(T, S).release_store_reused = S.release_store_reused
        /\ \A i \in Tids : AcquireSync(T, S).reused[i] =
               IF i = T.tid /\ i < S.size THEN T.reused ELSE S.reused[i]
    BY AcquireSyncFields
  <1>2. T.tid \in Tids /\ Incarnation(T.tid) \in Nat
    BY IncarnationIsNat, ThreadClockFields
  <1>3. T.reused <= Incarnation(T.tid)
    BY <1>2
  <1>. QED
    BY <1>1, <1>3 DEF FlagsOK

LEMMA ReleaseFlags ==
    ASSUME RegistryOK, NEW T \in ThreadClock, NEW S, NEW F,
           FlagsOK(S), FlagsKept(T, S, F), T.reused = Incarnation(T.tid)
    PROVE  FlagsOK(F)
  <1>1. \A i \in Tids : Incarnation(i) \in Nat /\ 0 <= Incarnation(i) /\ i # kInvalidTid
    BY IncarnationIsNat, TidsAreNat DEF kInvalidTid
  <1>2. T.tid \in Tids /\ T.reused <= Incarnation(T.tid)
    BY <1>1, ThreadClockFields
  <1>3. \A i \in Tids : F.reused[i] <= Incarnation(i)
    BY <1>1, <1>2 DEF FlagsOK, FlagsKept
  <1>4. \A i \in Tids : F.release_store_tid = i => F.release_store_reused <= Incarnation(i)
    BY <1>1, <1>2 DEF FlagsKept
  <1>. QED
    BY <1>3, <1>4 DEF FlagsOK

LEMMA EmptyFlags ==
    ASSUME RegistryOK
    PROVE  FlagsOK(EmptySyncClock) /\ EmptySyncClock.size = 0
           /\ EmptySyncClock \in SyncClock /\ EmptySyncClock.epoch = ZeroClock
  <1>1. \A i \in Tids : 0 <= Incarnation(i) /\ i # kInvalidTid
    BY IncarnationIsNat, TidsAreNat DEF kInvalidTid
  <1>2. EmptySyncClock \in SyncClock
    BY ZeroClockIsVector, ThreadIdsAssumption DEF EmptySyncClock, SyncClock
  <1>. QED
    BY <1>1, <1>2, ZeroClockIsVector DEF FlagsOK, EmptySyncClock

\* The parts of the invariant put together again after a step.
LEMMA StepKeepsInvariant ==
    ASSUME IInv, NEW t \in Tids, NEW o \in Objects, NEW E, NEW A, NEW F,
           OthersOK(t, E), FitClock(A, t, E), GoodSync(F, A, t, E), FlagsOK(F),
           E \in [Tids -> 0 .. MaxEpoch], epoch' = E,
           clock' = [clock EXCEPT ![t] = A], sync' = [sync EXCEPT ![o] = F],
           RegistryOK', Running' \subseteq Running \cup {t}, global' = global,
           t \in Running' => A.reused = Incarnation(t)',
           \A x \in Tids : Incarnation(x)' >= Incarnation(x),
           \A x \in Running' \ {t} : Incarnation(x)' = Incarnation(x),
           \A x \in Tids : status'[x] \notin {"Created", "Finished"} =>
               \/ x = o /\ F.size = 0
               \/ x # o /\ status[x] \notin {"Created", "Finished"}
    PROVE  IInv'
  <1>1. /\ TypeOK /\ ClocksOK /\ ReuseOK /\ ContextSyncEmpty /\ RegistryOK
        /\ global = NoGlobal
    BY DEF IInv, RegistryOK, TypeOK
  <1>2. /\ ClocksOK' /\ clock' \in [Tids -> ThreadClock] /\ sync' \in [Objects -> SyncClock]
        /\ \A x \in Tids : clock'[x].tid = x
    BY <1>1, Install
  <1>3. /\ \A x \in Tids : clock'[x] = IF x = t THEN A ELSE clock[x]
        /\ \A p \in Objects : sync'[p] = IF p = o THEN F ELSE sync[p]
        /\ \A p \in Objects : sync[p] \in SyncClock
        /\ Tids \subseteq Objects
    BY <1>1, Types DEF Objects
  <1>4. TypeOK'
    BY <1>1, <1>2 DEF TypeOK, RegistryOK
  <1>5. ReuseOK'
    <2>1. \A x \in Tids : Incarnation(x) \in Nat /\ Incarnation(x)' \in Nat
      <3>1. \A x \in Tids : Incarnation(x)' \in Nat
        BY DEF RegistryOK, RegistryTypeOK, Incarnation
      <3>. QED
        BY <1>1, <3>1, IncarnationIsNat
    <2>2. ASSUME NEW x \in Running'
          PROVE  clock'[x].reused = Incarnation(x)'
      <3>1. x \in Tids /\ (x # t => x \in Running)
        BY Types, <1>1
      <3>2. CASE x = t
        BY <1>3, <2>2, <3>2
      <3>3. CASE x # t
        BY <1>1, <1>3, <3>1, <3>3 DEF ReuseOK
      <3>. QED
        BY <3>2, <3>3
    <2>3. ASSUME NEW p \in Objects, NEW x \in Tids
          PROVE  /\ sync'[p].reused[x] <= Incarnation(x)'
                 /\ sync'[p].release_store_tid = x =>
                       sync'[p].release_store_reused <= Incarnation(x)'
      <3>1. /\ sync'[p] \in SyncClock
        BY <1>2
      <3>2. /\ sync'[p].reused[x] <= Incarnation(x)
            /\ sync'[p].release_store_tid = x =>
                  sync'[p].release_store_reused <= Incarnation(x)
        BY <1>1, <1>3 DEF ReuseOK, FlagsOK
      <3>3. sync'[p].reused[x] \in Nat /\ sync'[p].release_store_reused \in Nat
        BY <3>1, SyncClockFields
      <3>4. Incarnation(x) <= Incarnation(x)'
        BY <2>1
      <3>. QED
        BY <2>1, <3>2, <3>3, <3>4
    <2>. QED
      BY <2>2, <2>3 DEF ReuseOK
  <1>6. ContextSyncEmpty'
    BY <1>1, <1>3 DEF ContextSyncEmpty
  <1>. QED
    BY <1>1, <1>2, <1>4, <1>5, <1>6 DEF IInv, RegistryOK

-----------------------------------------------------------------------------
(* The steps of the program                                                *)

LEMMA InvariantParts ==
    ASSUME IInv
    PROVE  /\ TypeOK /\ ClocksOK /\ ReuseOK /\ ContextSyncEmpty /\ RegistryOK
           /\ global = NoGlobal
           /\ Tids \subseteq Objects /\ Syncs \subseteq Objects
           /\ \A o \in Objects : sync[o] \in SyncClock /\ FlagsOK(sync[o])
           /\ \A t \in Running : clock[t].reused = Incarnation(t)
  <1>1. /\ TypeOK /\ ClocksOK /\ ReuseOK /\ ContextSyncEmpty /\ RegistryOK
        /\ global = NoGlobal
    BY DEF IInv, RegistryOK, TypeOK
  <1>. QED
    BY <1>1, Types DEF Objects, ReuseOK, FlagsOK

LEMMA MoreEpoch ==
    ASSUME TypeOK, NEW t \in Tids, IncrementEpoch(t)
    PROVE  /\ epoch[t] \in Nat /\ epoch[t] + 1 \in Nat /\ epoch[t] + 1 >= epoch[t]
           /\ epoch' = [epoch EXCEPT ![t] = epoch[t] + 1]
           /\ epoch' \in [Tids -> 0 .. MaxEpoch]
  BY TsanAssumption DEF TypeOK, IncrementEpoch

LEMMA SameEpoch ==
    ASSUME TypeOK, NEW t \in Tids, epoch' = epoch
    PROVE  /\ epoch[t] \in Nat /\ epoch[t] >= epoch[t]
           /\ epoch' = [epoch EXCEPT ![t] = epoch[t]]
           /\ epoch' \in [Tids -> 0 .. MaxEpoch]
  BY TsanAssumption DEF TypeOK

\* A sync clock that is left alone.
LEMMA SameSyncGood ==
    ASSUME TypeOK, ClocksOK, NEW t \in Tids, NEW E, OthersOK(t, E),
           NEW A, FitClock(A, t, E), NEW o \in Objects
    PROVE  GoodSync(sync[o], A, t, E)
  BY Types DEF GoodSync, FitClock, OthersOK, ClocksOK

\* A step that does not involve the registry.
LEMMA ProgramStep ==
    ASSUME IInv, NEW t \in Running, NEW o \in Objects, NEW A, NEW F,
           OthersOK(t, epoch'), FitClock(A, t, epoch'), GoodSync(F, A, t, epoch'),
           FlagsOK(F), epoch' \in [Tids -> 0 .. MaxEpoch],
           clock' = [clock EXCEPT ![t] = A], sync' = [sync EXCEPT ![o] = F],
           UNCHANGED registryVars, global' = global, A.reused = clock[t].reused,
           o \in Syncs \/ F = sync[o]
    PROVE  IInv'
  <1>1. status' = status /\ reuse_count' = reuse_count /\ RegistryOK'
    <2>1. RegistryOK /\ UNCHANGED registryVars
      BY InvariantParts
    <2>. QED
      BY <2>1, RegistryUnchanged DEF registryVars
  <1>2. /\ Running' = Running /\ \A x \in Tids : Incarnation(x)' = Incarnation(x)
    BY <1>1 DEF Running, Incarnation
  <1>3. \A x \in Tids : Incarnation(x)' >= Incarnation(x)
    BY <1>2, InvariantParts, IncarnationIsNat
  <1>4. ASSUME NEW x \in Tids, status'[x] \notin {"Created", "Finished"}
        PROVE  \/ x = o /\ F.size = 0
               \/ x # o /\ status[x] \notin {"Created", "Finished"}
    <2>1. x = o => F = sync[x]
      BY TsanAssumption
    <2>. QED
      BY <1>1, <1>4, <2>1, InvariantParts DEF ContextSyncEmpty
  <1>5. A.reused = Incarnation(t)' /\ t \in Tids
    BY <1>2, InvariantParts, Types
  <1>6. /\ Running' \subseteq Running \cup {t}
        /\ \A x \in Running' \ {t} : Incarnation(x)' = Incarnation(x)
    BY <1>2, InvariantParts, Types
  <1> DEFINE E == epoch'
  <1>7. /\ OthersOK(t, E) /\ FitClock(A, t, E) /\ GoodSync(F, A, t, E)
        /\ E \in [Tids -> 0 .. MaxEpoch] /\ epoch' = E
    OBVIOUS
  <1> HIDE DEF E
  <1>. QED
    BY <1>1, <1>3, <1>4, <1>5, <1>6, <1>7, StepKeepsInvariant

\* The time of a running thread moves to e (maybe not at all) and its own
\* component follows.
LEMMA RunnerReady ==
    ASSUME IInv, NEW t \in Running, NEW e \in Nat, e >= epoch[t],
           epoch' = [epoch EXCEPT ![t] = e]
    PROVE  /\ OthersOK(t, epoch') /\ GoodClock(SetOwn(clock[t], e), t, epoch')
           /\ FitClock(SetOwn(clock[t], e), t, epoch')
           /\ SetOwn(clock[t], e) \in ThreadClock /\ SetOwn(clock[t], e).tid = t
           /\ SetOwn(clock[t], e).reused = clock[t].reused
           /\ clock[t].reused = Incarnation(t)
           /\ \A o \in Objects : GoodSync(sync[o], SetOwn(clock[t], e), t, epoch')
           /\ FitClock(clock[t], t, epoch')
  <1> DEFINE E == epoch'
  <1>1. TypeOK /\ ClocksOK /\ t \in Tids /\ clock[t].reused = Incarnation(t)
    BY InvariantParts, Types
  <1>2. E = [epoch EXCEPT ![t] = e]
    OBVIOUS
  <1> HIDE DEF E
  <1>3. OthersOK(t, E)
    BY <1>1, <1>2, TimesGrow
  <1>4. /\ GoodClock(SetOwn(clock[t], e), t, E)
        /\ SetOwn(clock[t], e).reused = clock[t].reused
    BY <1>1, <1>2, OwnTimeGood
  <1>5. FitClock(SetOwn(clock[t], e), t, E)
    BY <1>4 DEF GoodClock
  <1>6. \A o \in Objects : GoodSync(sync[o], SetOwn(clock[t], e), t, E)
    BY <1>1, <1>3, <1>5, SameSyncGood
  <1>7. FitClock(clock[t], t, E)
    BY <1>1, <1>3, SameClockFits
  <1>8. SetOwn(clock[t], e) \in ThreadClock /\ SetOwn(clock[t], e).tid = t
    BY <1>5 DEF FitClock
  <1>. QED
    BY <1>1, <1>3, <1>4, <1>5, <1>6, <1>7, <1>8 DEF E

LEMMA AccessKeeps ==
    ASSUME IInv, NEW t \in Tids, Access(t)
    PROVE  IInv'
  <1>1. /\ t \in Running /\ IncrementEpoch(t) /\ UNCHANGED registryVars
        /\ clock' = clock /\ sync' = sync /\ global' = global
    BY DEF Access, MayRun
  <1>2. /\ epoch[t] + 1 \in Nat /\ epoch[t] + 1 >= epoch[t]
        /\ epoch' = [epoch EXCEPT ![t] = epoch[t] + 1]
        /\ epoch' \in [Tids -> 0 .. MaxEpoch]
    BY <1>1, MoreEpoch, InvariantParts
  <1>3. OthersOK(t, epoch') /\ FitClock(clock[t], t, epoch')
    BY <1>1, <1>2, RunnerReady
  <1>4. GoodSync(sync[t], clock[t], t, epoch')
    BY <1>3, SameSyncGood, InvariantParts
  <1>5. clock' = [clock EXCEPT ![t] = clock[t]] /\ sync' = [sync EXCEPT ![t] = sync[t]]
    BY <1>1, InvariantParts, Types
  <1>6. t \in Objects /\ FlagsOK(sync[t])
    BY InvariantParts
  <1>. QED
    BY <1>1, <1>2, <1>3, <1>4, <1>5, <1>6, ProgramStep

LEMMA AcquireKeeps ==
    ASSUME IInv, NEW t \in Tids, NEW s \in Syncs, Acquire(t, s)
    PROVE  IInv'
  <1> DEFINE T == SetOwn(clock[t], epoch[t])
             A == AcquireThread(T, sync[s])
             F == AcquireSync(T, sync[s])
  <1>1. /\ t \in Running /\ UNCHANGED registryVars /\ global' = global /\ epoch' = epoch
        /\ clock' = [clock EXCEPT ![t] = A] /\ sync' = [sync EXCEPT ![s] = F]
    BY DEF Acquire, AcquireImpl, MayRun
  <1>2. /\ epoch[t] \in Nat /\ epoch[t] >= epoch[t]
        /\ epoch' = [epoch EXCEPT ![t] = epoch[t]]
        /\ epoch' \in [Tids -> 0 .. MaxEpoch]
    BY <1>1, SameEpoch, InvariantParts
  <1>3. /\ OthersOK(t, epoch') /\ GoodClock(T, t, epoch') /\ T \in ThreadClock /\ T.tid = t
        /\ T.reused = clock[t].reused /\ clock[t].reused = Incarnation(t)
    BY <1>1, <1>2, RunnerReady
  <1>4. s \in Objects /\ sync[s] \in SyncClock /\ FlagsOK(sync[s]) /\ RegistryOK
        /\ TypeOK /\ ClocksOK
    BY InvariantParts
  <1> HIDE DEF T
  <1>5. FitClock(A, t, epoch') /\ A.reused = clock[t].reused
    BY <1>3, <1>4, AcquiredGood DEF GoodClock
  <1>6. GoodSync(F, A, t, epoch')
    BY <1>3, <1>4, AcquiredSyncGood
  <1>7. FlagsOK(F)
    BY <1>3, <1>4, AcquireFlags
  <1> HIDE DEF A, F
  <1>. QED
    BY <1>1, <1>2, <1>3, <1>4, <1>5, <1>6, <1>7, ProgramStep

LEMMA ReleaseKeeps ==
    ASSUME IInv, NEW t \in Tids, NEW s \in Syncs, Release(t, s) \/ ReleaseStore(t, s)
    PROVE  IInv'
  <1> DEFINE T == SetOwn(clock[t], epoch[t] + 1)
  <1>1. /\ t \in Running /\ IncrementEpoch(t) /\ UNCHANGED registryVars /\ global' = global
        /\ clock' = [clock EXCEPT ![t] = T]
        /\ \/ sync' = [sync EXCEPT ![s] = ReleaseSync(T, sync[s])]
           \/ sync' = [sync EXCEPT ![s] = ReleaseStoreSync(T, sync[s])]
    BY DEF Release, ReleaseStore, ReleaseImpl, ReleaseStoreImpl, MayRun
  <1>2. /\ epoch[t] + 1 \in Nat /\ epoch[t] + 1 >= epoch[t]
        /\ epoch' = [epoch EXCEPT ![t] = epoch[t] + 1]
        /\ epoch' \in [Tids -> 0 .. MaxEpoch]
    BY <1>1, MoreEpoch, InvariantParts
  <1>3. /\ OthersOK(t, epoch') /\ GoodClock(T, t, epoch') /\ FitClock(T, t, epoch')
        /\ T \in ThreadClock /\ T.tid = t
        /\ T.reused = clock[t].reused /\ clock[t].reused = Incarnation(t)
        /\ \A o \in Objects : GoodSync(sync[o], T, t, epoch')
    BY <1>1, <1>2, RunnerReady
  <1>4. s \in Objects /\ FlagsOK(sync[s]) /\ RegistryOK /\ TypeOK /\ ClocksOK
    BY InvariantParts
  <1> HIDE DEF T
  <1>5. PICK F : /\ sync' = [sync EXCEPT ![s] = F]
                 /\ F = ReleaseSync(T, sync[s]) \/ F = ReleaseStoreSync(T, sync[s])
    BY <1>1
  <1>6. GoodSync(F, T, t, epoch') /\ FlagsKept(T, sync[s], F)
    BY <1>3, <1>4, <1>5, ReleasedGood
  <1>7. FlagsOK(F)
    BY <1>3, <1>4, <1>6, ReleaseFlags
  <1>. QED
    BY <1>1, <1>2, <1>3, <1>4, <1>5, <1>6, <1>7, ProgramStep

LEMMA AcquireReleaseKeeps ==
    ASSUME IInv, NEW t \in Tids, NEW s \in Syncs, AcquireRelease(t, s)
    PROVE  IInv'
  <1> DEFINE T == SetOwn(clock[t], epoch[t] + 1)
             A == AcquireThread(T, sync[s])
             S == AcquireSync(T, sync[s])
             F == ReleaseStoreSync(A, S)
  <1>1. /\ t \in Running /\ IncrementEpoch(t) /\ UNCHANGED registryVars /\ global' = global
        /\ clock' = [clock EXCEPT ![t] = A] /\ sync' = [sync EXCEPT ![s] = F]
    BY DEF AcquireRelease, AcquireReleaseImpl, MayRun
  <1>2. /\ epoch[t] + 1 \in Nat /\ epoch[t] + 1 >= epoch[t]
        /\ epoch' = [epoch EXCEPT ![t] = epoch[t] + 1]
        /\ epoch' \in [Tids -> 0 .. MaxEpoch]
    BY <1>1, MoreEpoch, InvariantParts
  <1>3. /\ OthersOK(t, epoch') /\ GoodClock(T, t, epoch') /\ T \in ThreadClock /\ T.tid = t
        /\ T.reused = clock[t].reused /\ clock[t].reused = Incarnation(t)
    BY <1>1, <1>2, RunnerReady
  <1>4. s \in Objects /\ sync[s] \in SyncClock /\ FlagsOK(sync[s]) /\ RegistryOK
        /\ TypeOK /\ ClocksOK
    BY InvariantParts
  <1> HIDE DEF T
  <1>5. GoodClock(A, t, epoch') /\ A.reused = clock[t].reused
    BY <1>3, <1>4, AcquiredGood
  <1>6. FitClock(A, t, epoch') /\ A \in ThreadClock /\ A.tid = t
    BY <1>5 DEF GoodClock, FitClock
  <1>7. GoodSync(S, A, t, epoch')
    BY <1>3, <1>4, AcquiredSyncGood
  <1>8. FlagsOK(S)
    BY <1>3, <1>4, AcquireFlags
  <1> HIDE DEF A, S
  <1>9. GoodSync(F, A, t, epoch') /\ FlagsKept(A, S, F)
    BY <1>3, <1>4, <1>5, <1>7, ReleasedGood
  <1>10. FlagsOK(F)
    BY <1>3, <1>4, <1>5, <1>6, <1>8, <1>9, ReleaseFlags
  <1> HIDE DEF F
  <1>. QED
    BY <1>1, <1>2, <1>3, <1>4, <1>5, <1>6, <1>9, <1>10, ProgramStep

LEMMA SyncResetKeeps ==
    ASSUME IInv, NEW t \in Tids, NEW s \in Syncs, SyncReset(t, s)
    PROVE  IInv'
  <1>1. /\ t \in Running /\ UNCHANGED registryVars /\ global' = global /\ epoch' = epoch
        /\ clock' = clock /\ sync' = [sync EXCEPT ![s] = EmptySyncClock]
    BY DEF SyncReset, MayRun
  <1>2. /\ epoch[t] \in Nat /\ epoch[t] >= epoch[t]
        /\ epoch' = [epoch EXCEPT ![t] = epoch[t]]
        /\ epoch' \in [Tids -> 0 .. MaxEpoch]
    BY <1>1, SameEpoch, InvariantParts
  <1>3. OthersOK(t, epoch') /\ FitClock(clock[t], t, epoch')
    BY <1>1, <1>2, RunnerReady
  <1>4. s \in Objects /\ RegistryOK /\ TypeOK /\ ClocksOK
        /\ clock' = [clock EXCEPT ![t] = clock[t]]
    BY <1>1, InvariantParts, Types
  <1>5. GoodSync(EmptySyncClock, clock[t], t, epoch')
    BY <1>3, <1>4, EmptyGood
  <1>6. FlagsOK(EmptySyncClock)
    BY <1>4, EmptyFlags
  <1>. QED
    BY <1>1, <1>2, <1>3, <1>4, <1>5, <1>6, ProgramStep

-----------------------------------------------------------------------------
(* Creating, starting, finishing, joining and detaching threads            *)

\* A method of the registry on tid, called by t.
LEMMA RegistryStep ==
    ASSUME IInv, NEW t \in Tids, NEW tid \in Tids, NEW A, NEW F,
           OthersOK(t, epoch'), FitClock(A, t, epoch'), GoodSync(F, A, t, epoch'),
           FlagsOK(F), epoch' \in [Tids -> 0 .. MaxEpoch],
           clock' = [clock EXCEPT ![t] = A], sync' = [sync EXCEPT ![tid] = F],
           global' = global, RegistryOK', OthersKeep(tid),
           t # tid => t \in Running,
           status[tid] # "Running" /\ t # tid => status'[tid] # "Running",
           Incarnation(tid)' >= Incarnation(tid),
           tid # t => Incarnation(tid)' = Incarnation(tid),
           t \in Running' => A.reused = Incarnation(t)',
           status'[tid] \notin {"Created", "Finished"} => F.size = 0
    PROVE  IInv'
  <1>1. tid \in Objects /\ RegistryOK
    BY InvariantParts
  <1>2. \A x \in Tids \ {tid} : status'[x] = "Running" => status[x] = "Running"
    BY DEF OthersKeep
  <1>3. Running' \subseteq Running \cup {t}
    BY <1>2 DEF Running
  <1>4. \A x \in Tids : Incarnation(x)' >= Incarnation(x)
    BY <1>1, IncarnationIsNat DEF OthersKeep
  <1>5. \A x \in Running' \ {t} : Incarnation(x)' = Incarnation(x)
    BY DEF Running, OthersKeep
  <1>6. ASSUME NEW x \in Tids, status'[x] \notin {"Created", "Finished"}
        PROVE  \/ x = tid /\ F.size = 0
               \/ x # tid /\ status[x] \notin {"Created", "Finished"}
    BY <1>6 DEF OthersKeep
  <1> DEFINE E == epoch'
  <1>7. /\ OthersOK(t, E) /\ FitClock(A, t, E) /\ GoodSync(F, A, t, E)
        /\ E \in [Tids -> 0 .. MaxEpoch] /\ epoch' = E
    OBVIOUS
  <1> HIDE DEF E
  <1>. QED
    BY <1>1, <1>3, <1>4, <1>5, <1>6, <1>7, StepKeepsInvariant

LEMMA ThreadCreateKeeps ==
    ASSUME IInv, NEW t \in Tids, NEW tid \in Tids, ThreadCreate(t, tid)
    PROVE  IInv'
  <1> DEFINE T == SetOwn(clock[t], epoch[t] + 1)
             F == ReleaseSync(T, sync[tid])
  <1>1. PICK d \in BOOLEAN : CreateThread(tid, d)
    BY DEF ThreadCreate
  <1>2. /\ t \in Running /\ IncrementEpoch(t) /\ global' = global
        /\ clock' = [clock EXCEPT ![t] = T] /\ sync' = [sync EXCEPT ![tid] = F]
    BY DEF ThreadCreate, ReleaseImpl, MayRun
  <1>3. /\ tid \in Objects /\ FlagsOK(sync[tid]) /\ RegistryOK /\ TypeOK /\ ClocksOK
    BY InvariantParts
  <1>4. /\ RegistryOK' /\ status[tid] = "Invalid" /\ status'[tid] = "Created"
        /\ OthersKeep(tid) /\ Incarnation(tid)' = Incarnation(tid)
    BY <1>1, <1>3, CreateStep
  <1>5. t # tid /\ Incarnation(t)' = Incarnation(t) /\ Incarnation(tid)' >= Incarnation(tid)
    BY <1>2, <1>3, <1>4, IncarnationIsNat DEF Running, OthersKeep
  <1>6. /\ epoch[t] + 1 \in Nat /\ epoch[t] + 1 >= epoch[t]
        /\ epoch' = [epoch EXCEPT ![t] = epoch[t] + 1]
        /\ epoch' \in [Tids -> 0 .. MaxEpoch]
    BY <1>2, <1>3, MoreEpoch
  <1>7. /\ OthersOK(t, epoch') /\ GoodClock(T, t, epoch') /\ FitClock(T, t, epoch')
        /\ T \in ThreadClock /\ T.tid = t
        /\ T.reused = clock[t].reused /\ clock[t].reused = Incarnation(t)
        /\ \A o \in Objects : GoodSync(sync[o], T, t, epoch')
    BY <1>2, <1>6, RunnerReady
  <1> HIDE DEF T
  <1>8. GoodSync(F, T, t, epoch') /\ FlagsKept(T, sync[tid], F)
    BY <1>3, <1>7, ReleasedGood
  <1>9. FlagsOK(F)
    BY <1>3, <1>7, <1>8, ReleaseFlags
  <1> HIDE DEF F
  <1>. QED
    BY <1>2, <1>4, <1>5, <1>6, <1>7, <1>8, <1>9, RegistryStep

LEMMA Remainder ==
    ASSUME NEW e \in Nat, NEW k \in Nat, k > 0
    PROVE  e % k \in Nat /\ e % k < k
  BY SMT

LEMMA FirstEpochIsLater ==
    ASSUME NEW e \in Nat
    PROVE  FirstEpoch(e) \in Nat /\ FirstEpoch(e) > e
  <1> DEFINE m == e % kTracePartSize
  <1>1. kTracePartSize \in Nat /\ kTracePartSize > 0
    BY TsanAssumption
  <1>2. m \in Nat /\ m < kTracePartSize
    BY <1>1, Remainder
  <1>3. FirstEpoch(e) = e + kTracePartSize - m
    BY DEF FirstEpoch
  <1> HIDE DEF m
  <1>. QED
    BY <1>1, <1>2, <1>3

\* The clock of a thread that is about to start knows nothing, and no flag is
\* left from an earlier owner of its tid.
LEMMA NewClockGood ==
    ASSUME IInv, NEW tid \in Tids, status[tid] = "Created",
           NEW e \in Nat, e > epoch[tid], NEW E, E = [epoch EXCEPT ![tid] = e]
    PROVE  /\ OthersOK(tid, E)
           /\ GoodClock(SetOwn(NewThreadClock(tid, reuse_count[tid]), e), tid, E)
           /\ SetOwn(NewThreadClock(tid, reuse_count[tid]), e).reused =
                 reuse_count[tid] + 1
           /\ \A i \in Tids \ {tid} :
                 SetOwn(NewThreadClock(tid, reuse_count[tid]), e).clk[i] = 0
  <1> DEFINE N == NewThreadClock(tid, reuse_count[tid])
             T == SetOwn(N, e)
  <1>1. /\ TypeOK /\ ClocksOK /\ RegistryOK /\ tid \in Nat /\ tid < max_threads
        /\ epoch[tid] \in Nat /\ reuse_count[tid] \in Nat
        /\ \A o \in Objects : sync[o] \in SyncClock /\ FlagsOK(sync[o])
    BY InvariantParts, Types, TidsAreNat DEF RegistryOK, RegistryTypeOK
  <1>2. OthersOK(tid, E) /\ E[tid] = e
    <2>1. e >= epoch[tid]
      BY <1>1
    <2>. QED
      BY <1>1, <2>1, TimesGrow
  <1>3. /\ N.tid = tid /\ N.reused = reuse_count[tid] + 1 /\ N.nclk = tid + 1
        /\ N.last_acquire = 0 /\ N.clk = ZeroClock
    BY DEF NewThreadClock
  <1>4. N \in ThreadClock
    <2>1. tid + 1 \in 0 .. max_threads /\ reuse_count[tid] + 1 \in Nat /\ 0 \in Nat
      BY <1>1, ThreadIdsAssumption
    <2>. QED
      BY <2>1, ZeroClockIsVector DEF NewThreadClock, ThreadClock
  <1> HIDE DEF N
  <1>5. /\ T \in ThreadClock /\ T.tid = tid /\ T.reused = reuse_count[tid] + 1
        /\ T.nclk = tid + 1 /\ T.last_acquire = 0
        /\ \A i \in Tids : T.clk[i] = IF i = tid THEN e ELSE 0
    BY <1>3, <1>4, SetOwnFields, ZeroClockIsVector
  <1> HIDE DEF T
  <1>6. ThreadOK(T, E)
    <2>1. \A i \in Tids : E[i] \in Nat
      BY <1>2 DEF OthersOK, Vector
    <2>. QED
      BY <1>1, <1>2, <1>5, <2>1 DEF ThreadOK
  <1>7. ASSUME NEW o \in Objects
        PROVE  PairOK(T, sync[o])
    <2>1. Incarnation(tid) = reuse_count[tid]
      BY <1>1 DEF Incarnation
    <2>2. /\ sync[o].reused[tid] \in Nat /\ sync[o].reused[tid] <= reuse_count[tid]
          /\ sync[o].release_store_reused \in Nat
          /\ sync[o].release_store_tid = tid =>
                sync[o].release_store_reused <= reuse_count[tid]
      BY <1>1, <2>1, SyncClockFields DEF FlagsOK
    <2>3. ~HasAcquired(T, sync[o]) /\ ~StoredBy(T, sync[o])
      BY <1>1, <1>5, <2>2 DEF HasAcquired, StoredBy
    <2>4. \A i \in Tids \ {tid} : T.clk[i] <= sync[o].epoch[i]
      BY <1>1, <1>5, SyncClockFields
    <2>. QED
      BY <1>5, <2>3, <2>4 DEF PairOK, Covers
  <1>8. ASSUME NEW x \in Running \ {tid}
        PROVE  Covers(T.clk, clock[x]) /\ Covers(clock[x].clk, T)
    <2>1. x \in Tids /\ clock[x] \in ThreadClock /\ clock[x].tid = x
      BY <1>1, Types
    <2>2. clock[x].last_acquire \in Nat /\ \A i \in Tids : clock[x].clk[i] \in Nat
      BY <2>1, ThreadClockFields
    <2>3. ~(T.clk[clock[x].tid] > clock[x].last_acquire)
      BY <1>5, <2>1, <2>2
    <2>4. \A i \in Tids \ {tid} : T.clk[i] <= clock[x].clk[i]
      BY <1>5, <2>2
    <2>. QED
      BY <1>5, <2>3, <2>4 DEF Covers
  <1>9. GoodClock(T, tid, E)
    BY <1>2, <1>5, <1>6, <1>7, <1>8 DEF GoodClock, FitClock
  <1>. QED
    BY <1>2, <1>5, <1>9 DEF T, N

LEMMA ThreadStartKeeps ==
    ASSUME IInv, NEW tid \in Tids, ThreadStart(tid)
    PROVE  IInv'
  <1> DEFINE e == FirstEpoch(epoch[tid])
             T == SetOwn(NewThreadClock(tid, reuse_count[tid]), e)
             A == AcquireThread(T, sync[tid])
  <1>1. /\ StartThread(tid) /\ global' = global /\ e <= MaxEpoch
        /\ epoch' = [epoch EXCEPT ![tid] = e]
        /\ clock' = [clock EXCEPT ![tid] = A]
        /\ sync' = [sync EXCEPT ![tid] = EmptySyncClock]
    BY DEF ThreadStart
  <1>2. tid \in Objects /\ RegistryOK /\ TypeOK /\ ClocksOK /\ epoch[tid] \in Nat
    BY InvariantParts, Types
  <1>3. e \in Nat /\ e > epoch[tid]
    BY <1>2, FirstEpochIsLater
  <1>4. epoch' \in [Tids -> 0 .. MaxEpoch]
    <2>1. epoch \in [Tids -> 0 .. MaxEpoch] /\ MaxEpoch \in Nat
      BY <1>2, TsanAssumption DEF TypeOK
    <2>2. e \in 0 .. MaxEpoch
      BY <1>1, <1>3, <2>1
    <2> HIDE DEF e
    <2>. QED
      BY <1>1, <2>1, <2>2
  <1>5. /\ RegistryOK' /\ status[tid] = "Created" /\ status'[tid] = "Running"
        /\ OthersKeep(tid) /\ Incarnation(tid)' = Incarnation(tid) + 1
        /\ Incarnation(tid)' = reuse_count[tid] + 1
    BY <1>1, <1>2, StartStep
  <1>6. Incarnation(tid)' >= Incarnation(tid)
    BY <1>2, <1>5, IncarnationIsNat
  <1> HIDE DEF e
  <1>7. /\ OthersOK(tid, epoch') /\ GoodClock(T, tid, epoch')
        /\ T.reused = reuse_count[tid] + 1
    BY <1>1, <1>3, <1>5, NewClockGood
  <1> HIDE DEF T
  <1>8. GoodClock(A, tid, epoch') /\ A.reused = reuse_count[tid] + 1
    BY <1>2, <1>7, AcquiredGood
  <1> HIDE DEF A
  <1>9. FitClock(A, tid, epoch')
    BY <1>8 DEF GoodClock
  <1>10. GoodSync(EmptySyncClock, A, tid, epoch')
    BY <1>2, <1>7, <1>9, EmptyGood
  <1>11. FlagsOK(EmptySyncClock) /\ EmptySyncClock.size = 0
    BY <1>2, EmptyFlags
  <1>. QED
    BY <1>1, <1>4, <1>5, <1>6, <1>7, <1>8, <1>9, <1>10, <1>11, RegistryStep

LEMMA ThreadFinishKeeps ==
    ASSUME IInv, NEW tid \in Tids, ThreadFinish(tid)
    PROVE  IInv'
  <1>1. FinishThread(tid) /\ global' = global /\ tid \in Running
    BY DEF ThreadFinish, MayRun
  <1>2. /\ tid \in Objects /\ FlagsOK(sync[tid]) /\ RegistryOK /\ TypeOK /\ ClocksOK
    BY InvariantParts
  <1>3. /\ RegistryOK' /\ status[tid] = "Running" /\ status'[tid] # "Running"
        /\ OthersKeep(tid) /\ Incarnation(tid)' = Incarnation(tid)
        /\ ~detached[tid] => status'[tid] = "Finished"
    BY <1>1, <1>2, FinishStep
  <1>4. /\ Incarnation(tid)' >= Incarnation(tid) /\ tid \notin Running'
    BY <1>2, <1>3, IncarnationIsNat DEF Running
  <1>5. CASE detached[tid]
    <2>1. epoch' = epoch /\ clock' = clock /\ sync' = sync
      BY <1>5 DEF ThreadFinish, clockVars
    <2>2. /\ epoch[tid] \in Nat /\ epoch[tid] >= epoch[tid]
          /\ epoch' = [epoch EXCEPT ![tid] = epoch[tid]]
          /\ epoch' \in [Tids -> 0 .. MaxEpoch]
      BY <1>2, <2>1, SameEpoch
    <2>3. OthersOK(tid, epoch') /\ FitClock(clock[tid], tid, epoch')
      BY <1>1, <2>2, RunnerReady
    <2>4. GoodSync(sync[tid], clock[tid], tid, epoch')
      BY <1>2, <2>3, SameSyncGood
    <2>5. /\ clock' = [clock EXCEPT ![tid] = clock[tid]]
          /\ sync' = [sync EXCEPT ![tid] = sync[tid]]
      BY <1>2, <2>1, Types
    <2>6. sync[tid].size = 0
      BY <1>3, InvariantParts DEF ContextSyncEmpty
    <2>. QED
      BY <1>1, <1>2, <1>3, <1>4, <2>2, <2>3, <2>4, <2>5, <2>6, RegistryStep
  <1>6. CASE ~detached[tid]
    <2> DEFINE T == SetOwn(clock[tid], epoch[tid] + 1)
               F == ReleaseSync(T, sync[tid])
    <2>1. /\ IncrementEpoch(tid) /\ clock' = [clock EXCEPT ![tid] = T]
          /\ sync' = [sync EXCEPT ![tid] = F]
      BY <1>6 DEF ThreadFinish, ReleaseImpl
    <2>2. /\ epoch[tid] + 1 \in Nat /\ epoch[tid] + 1 >= epoch[tid]
          /\ epoch' = [epoch EXCEPT ![tid] = epoch[tid] + 1]
          /\ epoch' \in [Tids -> 0 .. MaxEpoch]
      BY <1>2, <2>1, MoreEpoch
    <2>3. /\ OthersOK(tid, epoch') /\ GoodClock(T, tid, epoch') /\ FitClock(T, tid, epoch')
          /\ T \in ThreadClock /\ T.tid = tid
          /\ T.reused = clock[tid].reused /\ clock[tid].reused = Incarnation(tid)
          /\ \A o \in Objects : GoodSync(sync[o], T, tid, epoch')
      BY <1>1, <2>2, RunnerReady
    <2> HIDE DEF T
    <2>4. GoodSync(F, T, tid, epoch') /\ FlagsKept(T, sync[tid], F)
      BY <1>2, <2>3, ReleasedGood
    <2>5. FlagsOK(F)
      BY <1>2, <2>3, <2>4, ReleaseFlags
    <2> HIDE DEF F
    <2>6. status'[tid] = "Finished"
      BY <1>3, <1>6
    <2>. QED
      BY <1>1, <1>3, <1>4, <2>1, <2>2, <2>3, <2>4, <2>5, <2>6, RegistryStep
  <1>. QED
    BY <1>5, <1>6

LEMMA ThreadJoinKeeps ==
    ASSUME IInv, NEW t \in Tids, NEW tid \in Tids, ThreadJoin(t, tid)
    PROVE  IInv'
  <1> DEFINE T == SetOwn(clock[t], epoch[t])
             A == AcquireThread(T, sync[tid])
  <1>1. /\ t \in Running /\ JoinThread(tid) /\ global' = global /\ epoch' = epoch
        /\ status[tid] # "Invalid"
        /\ clock' = [clock EXCEPT ![t] = A]
        /\ sync' = [sync EXCEPT ![tid] = EmptySyncClock]
    BY DEF ThreadJoin, MayRun
  <1>2. tid \in Objects /\ RegistryOK /\ TypeOK /\ ClocksOK
    BY InvariantParts
  <1>3. /\ status[tid] = "Finished" /\ QuarantinePush(tid, [status EXCEPT ![tid] = "Dead"])
        /\ UNCHANGED <<n_contexts_, detached, alive_threads_, running_threads_>>
    BY <1>1 DEF JoinThread
  <1>4. /\ RegistryOK' /\ status'[tid] \in {"Dead", "Invalid"}
        /\ OthersKeep(tid) /\ Incarnation(tid)' = Incarnation(tid)
    BY <1>2, <1>3, ReapStep
  <1>5. t # tid /\ Incarnation(t)' = Incarnation(t) /\ Incarnation(tid)' >= Incarnation(tid)
    BY <1>1, <1>2, <1>3, <1>4, IncarnationIsNat DEF Running, OthersKeep
  <1>6. /\ epoch[t] \in Nat /\ epoch[t] >= epoch[t]
        /\ epoch' = [epoch EXCEPT ![t] = epoch[t]]
        /\ epoch' \in [Tids -> 0 .. MaxEpoch]
    BY <1>1, <1>2, SameEpoch
  <1>7. /\ OthersOK(t, epoch') /\ GoodClock(T, t, epoch')
        /\ T.reused = clock[t].reused /\ clock[t].reused = Incarnation(t)
    BY <1>1, <1>6, RunnerReady
  <1> HIDE DEF T
  <1>8. GoodClock(A, t, epoch') /\ A.reused = clock[t].reused
    BY <1>2, <1>7, AcquiredGood
  <1> HIDE DEF A
  <1>9. FitClock(A, t, epoch')
    BY <1>8 DEF GoodClock
  <1>10. GoodSync(EmptySyncClock, A, t, epoch')
    BY <1>2, <1>7, <1>9, EmptyGood
  <1>11. FlagsOK(EmptySyncClock) /\ EmptySyncClock.size = 0
    BY <1>2, EmptyFlags
  <1>. QED
    BY <1>1, <1>4, <1>5, <1>6, <1>7, <1>8, <1>9, <1>10, <1>11, RegistryStep

LEMMA ThreadDetachKeeps ==
    ASSUME IInv, NEW t \in Tids, NEW tid \in Tids, ThreadDetach(t, tid)
    PROVE  IInv'
  <1>1. /\ t \in Running /\ DetachThread(tid) /\ global' = global /\ epoch' = epoch
        /\ clock' = clock /\ sync' = [sync EXCEPT ![tid] = EmptySyncClock]
    BY DEF ThreadDetach, MayRun
  <1>2. /\ tid \in Objects /\ RegistryOK /\ TypeOK /\ ClocksOK
        /\ clock[t].reused = Incarnation(t) /\ clock' = [clock EXCEPT ![t] = clock[t]]
    BY <1>1, InvariantParts, Types
  <1>3. /\ RegistryOK' /\ OthersKeep(tid) /\ Incarnation(tid)' = Incarnation(tid)
        /\ status[tid] # "Running" => status'[tid] # "Running"
    BY <1>1, <1>2, DetachStep
  <1>4. Incarnation(t)' = Incarnation(t) /\ Incarnation(tid)' >= Incarnation(tid)
    BY <1>2, <1>3, IncarnationIsNat DEF OthersKeep
  <1>5. /\ epoch[t] \in Nat /\ epoch[t] >= epoch[t]
        /\ epoch' = [epoch EXCEPT ![t] = epoch[t]]
        /\ epoch' \in [Tids -> 0 .. MaxEpoch]
    BY <1>1, <1>2, SameEpoch
  <1>6. OthersOK(t, epoch') /\ FitClock(clock[t], t, epoch')
    BY <1>1, <1>5, RunnerReady
  <1>7. GoodSync(EmptySyncClock, clock[t], t, epoch')
    BY <1>2, <1>6, EmptyGood
  <1>8. FlagsOK(EmptySyncClock) /\ EmptySyncClock.size = 0
    BY <1>2, EmptyFlags
  <1>. QED
    BY <1>1, <1>2, <1>3, <1>4, <1>5, <1>6, <1>7, <1>8, RegistryStep

-----------------------------------------------------------------------------
(* The invariant                                                           *)

LEMMA InitialClocks ==
    ASSUME Init
    PROVE  /\ FirstEpoch(0) \in 1 .. MaxEpoch
           /\ \A t \in Tids : epoch[t] = IF t = 0 THEN FirstEpoch(0) ELSE 0
           /\ \A t \in Tids : /\ clock[t] \in ThreadClock /\ clock[t].tid = t
                              /\ clock[t].reused = 1 /\ clock[t].nclk = t + 1
                              /\ clock[t].last_acquire = 0
                              /\ \A i \in Tids : clock[t].clk[i] =
                                    IF i = 0 /\ t = 0 THEN FirstEpoch(0) ELSE 0
           /\ 0 \in Tids
  <1>1. FirstEpoch(0) \in 1 .. MaxEpoch
    <2> DEFINE m == 0 % kTracePartSize
    <2>1. kTracePartSize \in Nat /\ kTracePartSize > 0 /\ 0 \in Nat
      BY TsanAssumption
    <2>2. m \in Nat /\ m < kTracePartSize
      BY <2>1, Remainder
    <2>3. FirstEpoch(0) = 0 + kTracePartSize - m
      BY DEF FirstEpoch
    <2> HIDE DEF m
    <2>. QED
      BY <2>1, <2>2, <2>3, TsanAssumption
  <1>2. 0 \in Tids
    BY ThreadIdsAssumption DEF Tids
  <1>3. ASSUME NEW t \in Tids
        PROVE  /\ NewThreadClock(t, 0) \in ThreadClock
               /\ NewThreadClock(t, 0).tid = t /\ NewThreadClock(t, 0).reused = 1
               /\ NewThreadClock(t, 0).nclk = t + 1
               /\ NewThreadClock(t, 0).last_acquire = 0
               /\ \A i \in Tids : NewThreadClock(t, 0).clk[i] = 0
    <2>1. t + 1 \in 0 .. max_threads /\ 0 + 1 \in Nat /\ 0 + 1 = 1
      BY ThreadIdsAssumption, TidsAreNat
    <2>. QED
      BY <2>1, ZeroClockIsVector DEF NewThreadClock, ThreadClock
  <1> DEFINE N == NewThreadClock(0, 0)
             T == SetOwn(N, FirstEpoch(0))
  <1>4. FirstEpoch(0) \in Nat
    BY <1>1
  <1>5. /\ T \in ThreadClock /\ T.tid = N.tid /\ T.reused = N.reused /\ T.nclk = N.nclk
        /\ T.last_acquire = N.last_acquire
        /\ \A i \in Tids : T.clk[i] = IF i = N.tid THEN FirstEpoch(0) ELSE N.clk[i]
    BY <1>2, <1>3, <1>4, SetOwnFields
  <1>6. /\ \A t \in Tids : epoch[t] = IF t = 0 THEN FirstEpoch(0) ELSE 0
        /\ \A t \in Tids : clock[t] = IF t = 0 THEN T ELSE NewThreadClock(t, 0)
    BY DEF Init
  <1>7. \A t \in Tids : t # 0 => clock[t] = NewThreadClock(t, 0)
    BY <1>6
  <1>8. clock[0] = T
    BY <1>2, <1>6
  <1> HIDE DEF T
  <1>9. ASSUME NEW t \in Tids
        PROVE  /\ clock[t] \in ThreadClock /\ clock[t].tid = t
               /\ clock[t].reused = 1 /\ clock[t].nclk = t + 1
               /\ clock[t].last_acquire = 0
               /\ \A i \in Tids : clock[t].clk[i] =
                     IF i = 0 /\ t = 0 THEN FirstEpoch(0) ELSE 0
    <2>1. CASE t = 0
      BY <1>2, <1>3, <1>5, <1>8, <2>1
    <2>2. CASE t # 0
      BY <1>3, <1>7, <2>2
    <2>. QED
      BY <2>1, <2>2
  <1>. QED
    BY <1>1, <1>2, <1>6, <1>9

LEMMA InitialInvariant == Init => IInv
  <1> SUFFICES ASSUME Init PROVE IInv
    OBVIOUS
  <1>1. RegistryInit /\ sync = [o \in Objects |-> EmptySyncClock] /\ global = NoGlobal
    BY DEF Init
  <1>2. /\ \A t \in Tids : status[t] = IF t = 0 THEN "Running" ELSE "Invalid"
        /\ status \in [Tids -> Statuses] /\ detached \in [Tids -> BOOLEAN]
        /\ reuse_count \in [Tids -> Nat] /\ \A t \in Tids : reuse_count[t] = 0
        /\ dead_threads_ = <<>> /\ invalid_threads_ = <<>>
        /\ n_contexts_ = 1 /\ alive_threads_ = 1 /\ running_threads_ = 1
    BY <1>1 DEF RegistryInit, Statuses
  <1>3. /\ FirstEpoch(0) \in Nat /\ FirstEpoch(0) <= MaxEpoch /\ FirstEpoch(0) > 0
        /\ \A t \in Tids : epoch[t] = IF t = 0 THEN FirstEpoch(0) ELSE 0
        /\ \A t \in Tids : /\ clock[t] \in ThreadClock /\ clock[t].tid = t
                           /\ clock[t].reused = 1 /\ clock[t].nclk = t + 1
                           /\ clock[t].last_acquire = 0
                           /\ \A i \in Tids : clock[t].clk[i] =
                                 IF i = 0 /\ t = 0 THEN FirstEpoch(0) ELSE 0
        /\ 0 \in Tids
    BY InitialClocks, TsanAssumption
  <1>7. RegistryOK
    BY <1>1, RegistryInitOK
  <1>8. /\ FlagsOK(EmptySyncClock) /\ EmptySyncClock.size = 0 /\ EmptySyncClock \in SyncClock
        /\ \A o \in Objects : sync[o] = EmptySyncClock
    BY <1>1, <1>7, EmptyFlags
  <1>9. TypeOK
    <2>1. epoch \in [Tids -> 0 .. MaxEpoch]
      <3>1. epoch = [t \in Tids |-> IF t = 0 THEN FirstEpoch(0) ELSE 0]
        BY DEF Init
      <3>2. FirstEpoch(0) \in 0 .. MaxEpoch /\ 0 \in 0 .. MaxEpoch
        BY <1>3, TsanAssumption
      <3>. QED
        BY <3>1, <3>2
    <2>2. clock \in [Tids -> ThreadClock]
      <3>1. clock = [t \in Tids |-> clock[t]]
        BY DEF Init
      <3>. QED
        BY <1>3, <3>1
    <2>3. sync \in [Objects -> SyncClock]
      BY <1>1, <1>8
    <2>4. global \in [tid : Tids \cup {kInvalidTid}, next : Tids]
      BY <1>1, <1>3 DEF NoGlobal
    <2>. QED
      BY <1>3, <1>7, <2>1, <2>2, <2>3, <2>4 DEF TypeOK, RegistryOK
  <1>10. Running = {0}
    BY <1>2, <1>3 DEF Running
  <1>11. ThreadOK(clock[0], epoch)
    <2>1. \A i \in Tids : clock[0].clk[i] <= epoch[i] /\ (clock[0].clk[i] # 0 => i = 0)
      BY <1>3
    <2>. QED
      BY <1>3, <2>1 DEF ThreadOK
  <1>12. SyncOK(EmptySyncClock, epoch) /\ PairOK(clock[0], EmptySyncClock)
    <2>1. /\ EmptySyncClock.dirty = {} /\ EmptySyncClock.release_store_tid = kInvalidTid
          /\ \A i \in Tids : EmptySyncClock.epoch[i] = 0 /\ EmptySyncClock.reused[i] = 0
      BY ZeroClockIsVector DEF EmptySyncClock
    <2>2. SyncOK(EmptySyncClock, epoch)
      BY <1>3, <1>8, <2>1 DEF SyncOK
    <2>3. ~HasAcquired(clock[0], EmptySyncClock) /\ ~StoredBy(clock[0], EmptySyncClock)
      BY <1>3, <1>8, <2>1 DEF HasAcquired, StoredBy, kInvalidTid
    <2>4. ~(EmptySyncClock.epoch[clock[0].tid] > clock[0].last_acquire)
      BY <1>3, <2>1
    <2>. QED
      BY <2>2, <2>3, <2>4 DEF PairOK, Covers
  <1>13. ClocksOK
    <2>1. \A t \in Tids, i \in Tids : clock[t].clk[i] <= epoch[i]
      BY <1>3
    <2>. QED
      BY <1>8, <1>10, <1>11, <1>12, <2>1 DEF ClocksOK
  <1>14. ReuseOK
    <2>1. Incarnation(0) = 1
      <3>1. status[0] = "Running" /\ reuse_count[0] = 0
        BY <1>2, <1>3
      <3>. QED
        BY <3>1 DEF Incarnation
    <2>. QED
      BY <1>3, <1>8, <1>10, <2>1 DEF ReuseOK, FlagsOK
  <1>15. ContextSyncEmpty
    BY <1>8 DEF ContextSyncEmpty, Objects
  <1>. QED
    BY <1>1, <1>7, <1>9, <1>13, <1>14, <1>15 DEF IInv, RegistryOK

LEMMA StutterKeeps ==
    ASSUME IInv, UNCHANGED vars
    PROVE  IInv'
  <1>1. /\ UNCHANGED registryVars /\ epoch' = epoch /\ clock' = clock /\ sync' = sync
        /\ global' = global
    BY DEF vars, clockVars
  <1>2. /\ status' = status /\ reuse_count' = reuse_count
        /\ \A S : WithStatus(S)' = WithStatus(S)
    BY <1>1 DEF registryVars, WithStatus
  <1>3. ListsMatchStatus' /\ CountersMatchStatus' /\ RegistryTypeOK'
    BY <1>1, <1>2 DEF IInv, TypeOK, ListsMatchStatus, CountersMatchStatus, RegistryTypeOK,
                      registryVars
  <1>4. TypeOK'
    BY <1>1, <1>3 DEF IInv, TypeOK
  <1>5. Running' = Running /\ \A t \in Tids : Incarnation(t)' = Incarnation(t)
    BY <1>2 DEF Running, Incarnation
  <1>6. ClocksOK'
    BY <1>1, <1>5 DEF IInv, ClocksOK
  <1>7. ReuseOK'
    BY <1>1, <1>5, Types DEF IInv, ReuseOK
  <1>8. ContextSyncEmpty'
    BY <1>1, <1>2 DEF IInv, ContextSyncEmpty
  <1>. QED
    BY <1>1, <1>3, <1>4, <1>6, <1>7, <1>8 DEF IInv

LEMMA NextKeeps == IInv /\ [Next]_vars => IInv'
  <1> SUFFICES ASSUME IInv, [Next]_vars PROVE IInv'
    OBVIOUS
  <1>1. CASE UNCHANGED vars
    BY <1>1, StutterKeeps
  <1>2. ASSUME NEW t \in Tids, Access(t) \/ ThreadStart(t) \/ ThreadFinish(t)
        PROVE  IInv'
    BY <1>2, AccessKeeps, ThreadStartKeeps, ThreadFinishKeeps
  <1>3. ASSUME NEW t \in Tids, NEW tid \in Tids,
               ThreadCreate(t, tid) \/ ThreadJoin(t, tid) \/ ThreadDetach(t, tid)
        PROVE  IInv'
    BY <1>3, ThreadCreateKeeps, ThreadJoinKeeps, ThreadDetachKeeps
  <1>4. ASSUME NEW t \in Tids, NEW s \in Syncs,
               \/ Acquire(t, s) \/ Release(t, s) \/ ReleaseStore(t, s)
               \/ AcquireRelease(t, s) \/ SyncReset(t, s)
        PROVE  IInv'
    BY <1>4, AcquireKeeps, ReleaseKeeps, AcquireReleaseKeeps, SyncResetKeeps
  <1>. QED
    BY <1>1, <1>2, <1>3, <1>4 DEF Next

\* What the program does under ThreadSanitizer never leaves the invariant.
THEOREM Invariance == Spec => []IInv
  BY InitialInvariant, NextKeeps, PTL DEF Spec

\* Types of the registry and of every clock; in particular no clock grows past
\* the number of contexts.
THEOREM TypeCorrect == Spec => []TypeOK
  <1>1. IInv => TypeOK
    BY DEF IInv
  <1>. QED
    BY <1>1, Invariance, PTL

\* The quarantine and the list of contexts for reuse are what the statuses say.
THEOREM RegistryLists == Spec => []ListsMatchStatus
  <1>1. IInv => ListsMatchStatus
    BY DEF IInv
  <1>. QED
    BY <1>1, Invariance, PTL

\* The registry's counters are exact.
THEOREM RegistryCounters == Spec => []CountersMatchStatus
  <1>1. IInv => CountersMatchStatus
    BY DEF IInv
  <1>. QED
    BY <1>1, Invariance, PTL

\* The O(1) path of release leaves nothing out.
THEOREM FastPathIsSound == Spec => []FastReleaseSound
  <1>1. IInv => FastReleaseSound
    <2> SUFFICES ASSUME IInv, NEW t \in Running, NEW o \in Syncs,
                        NothingNew(clock[t], sync[o]), NEW i \in Tids \ {t}
                 PROVE  clock[t].clk[i] <= sync[o].epoch[i]
      BY DEF FastReleaseSound
    <2>1. o \in Objects /\ PairOK(clock[t], sync[o]) /\ clock[t].tid = t
      BY InvariantParts, Types DEF ClocksOK
    <2>. QED
      BY <2>1 DEF PairOK, Covers, NothingNew
  <1>. QED
    BY <1>1, Invariance, PTL

\* A flag in a sync clock never lets a thread skip what it has not acquired.
THEOREM FlagsAreSound == Spec => []FlagSound
  <1>1. IInv => FlagSound
    <2> SUFFICES ASSUME IInv, NEW t \in Running, NEW o \in Syncs,
                        HasAcquired(clock[t], sync[o]),
                        NEW i \in Tids \ (sync[o].dirty \cup {t})
                 PROVE  sync[o].epoch[i] <= clock[t].clk[i]
      BY DEF FlagSound
    <2>1. o \in Objects /\ PairOK(clock[t], sync[o]) /\ clock[t].tid = t
      BY InvariantParts, Types DEF ClocksOK
    <2>. QED
      BY <2>1 DEF PairOK
  <1>. QED
    BY <1>1, Invariance, PTL

\* The effective sizes bound all that is not zero.
THEOREM SizesAreEnough == Spec => []SizesCover
  <1>1. IInv => SizesCover
    BY InvariantParts DEF SizesCover, ClocksOK, ThreadOK, SyncOK
  <1>. QED
    BY <1>1, Invariance, PTL

\* A dead or unused context keeps no sync clock.
THEOREM ContextSyncIsEmpty == Spec => []ContextSyncEmpty
  <1>1. IInv => ContextSyncEmpty
    BY DEF IInv
  <1>. QED
    BY <1>1, Invariance, PTL

-----------------------------------------------------------------------------
(* The operations implement those of the simple model                      *)

LEMMA FunctionUpdate ==
    ASSUME NEW D, NEW f, f = [x \in D |-> f[x]], NEW g, g = [x \in D |-> g[x]],
           NEW d \in D, NEW v, \A x \in D : g[x] = IF x = d THEN v ELSE f[x]
    PROVE  g = [f EXCEPT ![d] = v]
  OBVIOUS

\* The clocks as the simple model sees them.
ThreadTimes == [t \in Tids |-> clock[t].clk]
ObjectTimes == [o \in Objects |-> sync[o].epoch]

LEMMA ClockBecomes ==
    ASSUME TypeOK, NEW t \in Tids, NEW A \in ThreadClock, clock' = [clock EXCEPT ![t] = A]
    PROVE  ThreadTimes'[t] = A.clk /\ ThreadTimes' = [ThreadTimes EXCEPT ![t] = A.clk]
  <1> DEFINE tc == ThreadTimes
             tn == ThreadTimes'
  <1>1. \A x \in Tids : clock'[x] = IF x = t THEN A ELSE clock[x]
    BY Types
  <1>2. /\ \A x \in Tids : tn[x] = clock'[x].clk /\ tc[x] = clock[x].clk
        /\ tn = [x \in Tids |-> tn[x]] /\ tc = [x \in Tids |-> tc[x]]
    BY DEF ThreadTimes
  <1> HIDE DEF tn, tc
  <1>3. \A x \in Tids : tn[x] = IF x = t THEN A.clk ELSE tc[x]
    BY <1>1, <1>2
  <1>4. tn = [tc EXCEPT ![t] = A.clk]
    BY <1>2, <1>3, FunctionUpdate
  <1>. QED
    BY <1>3, <1>4 DEF tn, tc

LEMMA AllButOwn ==
    ASSUME NEW a \in Vector, NEW c \in Vector, NEW t \in Tids,
           \A i \in Tids \ {t} : a[i] = c[i]
    PROVE  a = [c EXCEPT ![t] = a[t]]
  BY DEF Vector

LEMMA SyncStores ==
    ASSUME TypeOK, NEW o \in Objects, NEW F \in SyncClock, sync' = [sync EXCEPT ![o] = F],
           NEW c, F.epoch = c
    PROVE  ObjectTimes' = [ObjectTimes EXCEPT ![o] = c]
  <1> DEFINE sc == ObjectTimes
             sn == ObjectTimes'
  <1>1. \A x \in Objects : sync'[x] = IF x = o THEN F ELSE sync[x]
    BY Types
  <1>2. /\ \A x \in Objects : sn[x] = sync'[x].epoch /\ sc[x] = sync[x].epoch
        /\ sn = [x \in Objects |-> sn[x]] /\ sc = [x \in Objects |-> sc[x]]
    BY DEF ObjectTimes
  <1> HIDE DEF sn, sc
  <1>3. \A x \in Objects : sn[x] = IF x = o THEN c ELSE sc[x]
    BY <1>1, <1>2
  <1>4. sn = [sc EXCEPT ![o] = c]
    BY <1>2, <1>3, FunctionUpdate
  <1>. QED
    BY <1>4 DEF sn, sc

LEMMA SameEpochs ==
    ASSUME NEW F \in SyncClock, NEW c \in Vector, \A i \in Tids : F.epoch[i] = c[i]
    PROVE  F.epoch = c
  BY SyncClockFields DEF Vector

\* The maximum that both modules take.
LEMMA SameMaximum ==
    ASSUME NEW c \in Vector, NEW d \in Vector
    PROVE  /\ HB!Join(c, d) \in Vector
           /\ \A i \in Tids : HB!Join(c, d)[i] = Maximum(c[i], d[i])
  BY DEF HB!Join, HB!Larger, HB!Tids, Tids, Maximum, Vector

\* t's clock after it acquired o.
LEMMA AcquiredBecomes ==
    ASSUME IInv, NEW t \in Running, NEW o \in Objects, NEW e \in Nat, e >= epoch[t],
           epoch' = [epoch EXCEPT ![t] = e]
    PROVE  LET A == AcquireThread(SetOwn(clock[t], e), sync[o])
               c == HB!Join(clock[t].clk, sync[o].epoch)
           IN  /\ A \in ThreadClock /\ c \in Vector
               /\ A.clk[t] >= c[t] /\ A.clk = [c EXCEPT ![t] = A.clk[t]]
               /\ \A i \in Tids : sync[o].epoch[i] <= A.clk[i]
  <1> DEFINE T == SetOwn(clock[t], e)
             A == AcquireThread(T, sync[o])
             c == HB!Join(clock[t].clk, sync[o].epoch)
  <1>1. /\ TypeOK /\ ClocksOK /\ t \in Tids /\ sync[o] \in SyncClock
        /\ clock[t] \in ThreadClock /\ clock[t].tid = t /\ epoch[t] \in Nat
    BY InvariantParts, Types
  <1>2. /\ clock[t].clk \in Vector /\ sync[o].epoch \in Vector
        /\ clock[t].clk[t] \in Nat /\ sync[o].epoch[t] \in Nat
    BY <1>1, ThreadClockFields, SyncClockFields
  <1>3. /\ c \in Vector /\ \A i \in Tids : c[i] = Maximum(clock[t].clk[i], sync[o].epoch[i])
    BY <1>2, SameMaximum
  <1>4. /\ OthersOK(t, epoch') /\ GoodClock(T, t, epoch') /\ T \in ThreadClock /\ T.tid = t
    BY RunnerReady
  <1>5. \A i \in Tids \ {t} : T.clk[i] = clock[t].clk[i]
    BY <1>1, SetOwnFields
  <1>6. epoch'[t] = e
    BY <1>1 DEF Vector, TypeOK
  <1> HIDE DEF T
  <1>7. GoodClock(A, t, epoch')
    BY <1>1, <1>4, AcquiredGood
  <1>8. \A i \in Tids : /\ A.clk[i] = Maximum(T.clk[i], sync[o].epoch[i])
                        /\ A.clk[i] >= sync[o].epoch[i]
    <2> DEFINE E == epoch'
    <2>1. /\ E \in Vector /\ ThreadOK(T, E) /\ SyncOK(sync[o], E) /\ PairOK(T, sync[o])
          /\ T.clk[T.tid] = E[T.tid]
      BY <1>4 DEF OthersOK, GoodClock, FitClock
    <2> HIDE DEF E
    <2>. QED
      BY <1>1, <1>4, <2>1, AcquireIsJoin, AcquireGrows
  <1> HIDE DEF A, c
  <1>9. A \in ThreadClock /\ A.clk[t] = e /\ A.clk \in Vector
    BY <1>6, <1>7, ThreadClockFields DEF GoodClock, FitClock
  <1>10. A.clk[t] >= c[t]
    <2>1. clock[t].clk[t] <= epoch[t] /\ sync[o].epoch[t] <= epoch[t]
      BY <1>1 DEF ClocksOK, SyncOK
    <2>. QED
      BY <1>1, <1>2, <1>3, <1>9, <2>1 DEF Maximum
  <1>11. \A i \in Tids \ {t} : A.clk[i] = c[i]
    BY <1>3, <1>5, <1>8
  <1>12. A.clk = [c EXCEPT ![t] = A.clk[t]]
    BY <1>1, <1>3, <1>9, <1>11, AllButOwn
  <1>13. \A i \in Tids : sync[o].epoch[i] <= A.clk[i]
    BY <1>1, <1>8, <1>9, SyncClockFields, ThreadClockFields
  <1>. QED
    BY <1>3, <1>9, <1>10, <1>12, <1>13 DEF c, A, T

\* t's clock after its own time went on.
LEMMA OwnTimeBecomes ==
    ASSUME IInv, NEW t \in Running, NEW e \in Nat, e >= epoch[t]
    PROVE  LET T == SetOwn(clock[t], e)
           IN  /\ T \in ThreadClock /\ T.clk[t] >= clock[t].clk[t]
               /\ T.clk = [clock[t].clk EXCEPT ![t] = T.clk[t]]
  <1> DEFINE T == SetOwn(clock[t], e)
  <1>1. /\ TypeOK /\ ClocksOK /\ t \in Tids /\ clock[t] \in ThreadClock /\ clock[t].tid = t
        /\ epoch[t] \in Nat
    BY InvariantParts, Types
  <1>2. clock[t].clk \in Vector /\ clock[t].clk[t] \in Nat /\ clock[t].clk[t] <= epoch[t]
    BY <1>1, ThreadClockFields DEF ClocksOK
  <1>3. /\ T \in ThreadClock
        /\ \A i \in Tids : T.clk[i] = IF i = t THEN e ELSE clock[t].clk[i]
    BY <1>1, SetOwnFields
  <1> HIDE DEF T
  <1>4. T.clk[t] >= clock[t].clk[t]
    BY <1>1, <1>2, <1>3
  <1>5. T.clk \in Vector /\ \A i \in Tids \ {t} : T.clk[i] = clock[t].clk[i]
    BY <1>3, ThreadClockFields
  <1>6. T.clk = [clock[t].clk EXCEPT ![t] = T.clk[t]]
    BY <1>1, <1>2, <1>5, AllButOwn
  <1>. QED
    BY <1>3, <1>4, <1>6 DEF T

LEMMA TimesAt ==
    /\ \A t \in Tids : ThreadTimes[t] = clock[t].clk
    /\ \A o \in Objects : ObjectTimes[o] = sync[o].epoch
  BY DEF ThreadTimes, ObjectTimes

LEMMA AcquireConforms ==
    ASSUME IInv, NEW t \in Tids, NEW s \in Syncs, Acquire(t, s)
    PROVE  HB!Acquire(t, s)
  <1> DEFINE T == SetOwn(clock[t], epoch[t])
             A == AcquireThread(T, sync[s])
             F == AcquireSync(T, sync[s])
             c == HB!Join(clock[t].clk, sync[s].epoch)
  <1>1. /\ t \in Running /\ epoch' = epoch
        /\ clock' = [clock EXCEPT ![t] = A] /\ sync' = [sync EXCEPT ![s] = F]
    BY DEF Acquire, AcquireImpl, MayRun
  <1>2. TypeOK /\ s \in Objects /\ sync[s] \in SyncClock
    BY InvariantParts
  <1>3. /\ epoch[t] \in Nat /\ epoch[t] >= epoch[t]
        /\ epoch' = [epoch EXCEPT ![t] = epoch[t]]
    BY <1>1, <1>2, SameEpoch
  <1>4. T \in ThreadClock
    BY <1>1, <1>3, RunnerReady
  <1>5. /\ A \in ThreadClock /\ c \in Vector
        /\ A.clk[t] >= c[t] /\ A.clk = [c EXCEPT ![t] = A.clk[t]]
    BY <1>1, <1>2, <1>3, AcquiredBecomes
  <1> HIDE DEF T
  <1>6. F \in SyncClock /\ F.epoch = sync[s].epoch /\ sync[s].epoch \in Vector
    BY <1>2, <1>4, AcquireSyncFields, SyncClockFields
  <1>7. c = HB!Join(ThreadTimes[t], ObjectTimes[s]) /\ ObjectTimes[s] = sync[s].epoch
    BY <1>2, TimesAt
  <1> HIDE DEF A, F, c
  <1>8. ThreadTimes'[t] = A.clk /\ ThreadTimes' = [ThreadTimes EXCEPT ![t] = A.clk]
    BY <1>1, <1>2, <1>5, ClockBecomes
  <1>9. ObjectTimes' = ObjectTimes
    <2> DEFINE v == sync[s].epoch
    <2>1. F.epoch = v
      BY <1>6
    <2>2. ObjectTimes[s] = v
      BY <1>7
    <2> HIDE DEF v
    <2>3. ObjectTimes' = [ObjectTimes EXCEPT ![s] = v]
      BY <1>1, <1>2, <1>6, <2>1, SyncStores
    <2>. QED
      BY <2>2, <2>3 DEF ObjectTimes
  <1>10. /\ ThreadTimes'[t][t] >= c[t]
         /\ ThreadTimes' = [ThreadTimes EXCEPT ![t] = [c EXCEPT ![t] = ThreadTimes'[t][t]]]
    BY <1>5, <1>8
  <1>. QED
    BY <1>7, <1>9, <1>10 DEF HB!Acquire, HB!Becomes, ThreadTimes, ObjectTimes

\* What t's releases leave in o.
LEMMA ReleasedTimes ==
    ASSUME IInv, NEW t \in Running, NEW o \in Objects, IncrementEpoch(t)
    PROVE  LET T == SetOwn(clock[t], epoch[t] + 1)
               R == ReleaseSync(T, sync[o])
               F == ReleaseStoreSync(T, sync[o])
           IN  /\ T \in ThreadClock /\ T.clk \in Vector /\ T.clk[t] >= clock[t].clk[t]
               /\ T.clk = [clock[t].clk EXCEPT ![t] = T.clk[t]]
               /\ R \in SyncClock /\ F \in SyncClock
               /\ \A i \in Tids : R.epoch[i] = Maximum(sync[o].epoch[i], T.clk[i])
               /\ \A i \in Tids : F.epoch[i] = T.clk[i]
  <1> DEFINE T == SetOwn(clock[t], epoch[t] + 1)
             E == epoch'
  <1>1. TypeOK /\ ClocksOK /\ t \in Tids /\ sync[o] \in SyncClock
    BY InvariantParts, Types
  <1>2. /\ epoch[t] + 1 \in Nat /\ epoch[t] + 1 >= epoch[t]
        /\ epoch' = [epoch EXCEPT ![t] = epoch[t] + 1]
    BY <1>1, MoreEpoch
  <1>3. /\ OthersOK(t, E) /\ GoodClock(T, t, E) /\ T \in ThreadClock /\ T.tid = t
    BY <1>2, RunnerReady
  <1>4. /\ T.clk[t] >= clock[t].clk[t] /\ T.clk = [clock[t].clk EXCEPT ![t] = T.clk[t]]
    BY <1>2, OwnTimeBecomes
  <1> HIDE DEF T, E
  <1>5. /\ E \in Vector /\ ThreadOK(T, E) /\ SyncOK(sync[o], E) /\ PairOK(T, sync[o])
        /\ T.clk[T.tid] = E[T.tid]
    BY <1>3 DEF OthersOK, GoodClock, FitClock
  <1>6. /\ ReleaseSync(T, sync[o]) \in SyncClock
        /\ \A i \in Tids :
              ReleaseSync(T, sync[o]).epoch[i] = Maximum(sync[o].epoch[i], T.clk[i])
    BY <1>1, <1>3, <1>5, ReleaseOK
  <1>7. /\ ReleaseStoreSync(T, sync[o]) \in SyncClock
        /\ \A i \in Tids : ReleaseStoreSync(T, sync[o]).epoch[i] = T.clk[i]
    BY <1>1, <1>3, <1>5, ReleaseStoreOK
  <1>8. T.clk \in Vector
    BY <1>3, ThreadClockFields
  <1>. QED
    BY <1>3, <1>4, <1>6, <1>7, <1>8 DEF T

LEMMA ReleaseConforms ==
    ASSUME IInv, NEW t \in Tids, NEW s \in Syncs, Release(t, s)
    PROVE  HB!Release(t, s)
  <1> DEFINE T == SetOwn(clock[t], epoch[t] + 1)
             F == ReleaseSync(T, sync[s])
             c == clock[t].clk
             d == HB!Join(sync[s].epoch, T.clk)
  <1>1. /\ t \in Running /\ IncrementEpoch(t)
        /\ clock' = [clock EXCEPT ![t] = T] /\ sync' = [sync EXCEPT ![s] = F]
    BY DEF Release, ReleaseImpl, MayRun
  <1>2. TypeOK /\ s \in Objects /\ sync[s].epoch \in Vector
    BY InvariantParts, SyncClockFields
  <1>3. /\ T \in ThreadClock /\ T.clk \in Vector
        /\ T.clk[t] >= c[t] /\ T.clk = [c EXCEPT ![t] = T.clk[t]]
        /\ F \in SyncClock
        /\ \A i \in Tids : F.epoch[i] = Maximum(sync[s].epoch[i], T.clk[i])
    BY <1>1, <1>2, ReleasedTimes
  <1>4. F.epoch = d
    <2>1. d \in Vector /\ \A i \in Tids : F.epoch[i] = d[i]
      BY <1>2, <1>3, SameMaximum
    <2> HIDE DEF d, F
    <2>. QED
      BY <1>3, <2>1, SameEpochs
  <1>5. c = ThreadTimes[t] /\ d = HB!Join(ObjectTimes[s], T.clk)
    BY <1>2, TimesAt
  <1> HIDE DEF T, F, c, d
  <1>6. ThreadTimes'[t] = T.clk /\ ThreadTimes' = [ThreadTimes EXCEPT ![t] = T.clk]
    BY <1>1, <1>2, <1>3, ClockBecomes
  <1>7. ObjectTimes' = [ObjectTimes EXCEPT ![s] = d]
    BY <1>1, <1>2, <1>3, <1>4, SyncStores
  <1>8. /\ ThreadTimes'[t][t] >= c[t]
        /\ ThreadTimes' = [ThreadTimes EXCEPT ![t] = [c EXCEPT ![t] = ThreadTimes'[t][t]]]
    BY <1>3, <1>6
  <1>9. d = HB!Join(ObjectTimes[s], ThreadTimes'[t])
    BY <1>5, <1>6
  <1>. QED
    BY <1>5, <1>7, <1>8, <1>9 DEF HB!Release, HB!Becomes, HB!Stores, ThreadTimes, ObjectTimes

\* A step in which t's time goes on and o gets a copy of t's clock d.
LEMMA StoreStep ==
    ASSUME NEW t \in Tids, NEW o \in Objects, NEW d,
           ThreadTimes'[t] = d, ThreadTimes' = [ThreadTimes EXCEPT ![t] = d],
           d[t] >= clock[t].clk[t], d = [clock[t].clk EXCEPT ![t] = d[t]],
           ObjectTimes' = [ObjectTimes EXCEPT ![o] = d]
    PROVE  HB!ReleaseStore(t, o)
  <1> DEFINE c == clock[t].clk
  <1>1. c = ThreadTimes[t] /\ d[t] >= c[t] /\ d = [c EXCEPT ![t] = d[t]]
    BY TimesAt
  <1> HIDE DEF c
  <1>2. /\ ThreadTimes'[t][t] >= c[t]
        /\ ThreadTimes' = [ThreadTimes EXCEPT ![t] = [c EXCEPT ![t] = ThreadTimes'[t][t]]]
        /\ ObjectTimes' = [ObjectTimes EXCEPT ![o] = ThreadTimes'[t]]
    BY <1>1
  <1>. QED
    BY <1>1, <1>2 DEF HB!ReleaseStore, HB!Becomes, HB!Stores, ThreadTimes, ObjectTimes

LEMMA ReleaseStoreConforms ==
    ASSUME IInv, NEW t \in Tids, NEW s \in Syncs, ReleaseStore(t, s)
    PROVE  HB!ReleaseStore(t, s)
  <1> DEFINE T == SetOwn(clock[t], epoch[t] + 1)
             F == ReleaseStoreSync(T, sync[s])
  <1>1. /\ t \in Running /\ IncrementEpoch(t)
        /\ clock' = [clock EXCEPT ![t] = T] /\ sync' = [sync EXCEPT ![s] = F]
    BY DEF ReleaseStore, ReleaseStoreImpl, MayRun
  <1>2. TypeOK /\ s \in Objects
    BY InvariantParts
  <1>3. /\ T \in ThreadClock /\ T.clk \in Vector
        /\ T.clk[t] >= clock[t].clk[t] /\ T.clk = [clock[t].clk EXCEPT ![t] = T.clk[t]]
        /\ F \in SyncClock /\ \A i \in Tids : F.epoch[i] = T.clk[i]
    BY <1>1, <1>2, ReleasedTimes
  <1> HIDE DEF T, F
  <1>4. F.epoch = T.clk
    BY <1>3, SameEpochs
  <1>5. ThreadTimes'[t] = T.clk /\ ThreadTimes' = [ThreadTimes EXCEPT ![t] = T.clk]
    BY <1>1, <1>2, <1>3, ClockBecomes
  <1>6. ObjectTimes' = [ObjectTimes EXCEPT ![s] = T.clk]
    <2>1. F \in SyncClock /\ sync' = [sync EXCEPT ![s] = F]
      BY <1>1, <1>3
    <2>. QED
      BY <1>2, <1>4, <2>1, SyncStores
  <1>. QED
    BY <1>2, <1>3, <1>5, <1>6, StoreStep

LEMMA AcquireReleaseConforms ==
    ASSUME IInv, NEW t \in Tids, NEW s \in Syncs, AcquireRelease(t, s)
    PROVE  HB!AcquireRelease(t, s)
  <1> DEFINE T == SetOwn(clock[t], epoch[t] + 1)
             A == AcquireThread(T, sync[s])
             S == AcquireSync(T, sync[s])
             F == ReleaseStoreSync(A, S)
             c == HB!Join(clock[t].clk, sync[s].epoch)
             d == HB!Join(sync[s].epoch, A.clk)
             E == epoch'
  <1>1. /\ t \in Running /\ IncrementEpoch(t)
        /\ clock' = [clock EXCEPT ![t] = A] /\ sync' = [sync EXCEPT ![s] = F]
    BY DEF AcquireRelease, AcquireReleaseImpl, MayRun
  <1>2. /\ TypeOK /\ ClocksOK /\ s \in Objects
        /\ sync[s] \in SyncClock /\ sync[s].epoch \in Vector
    BY InvariantParts, SyncClockFields
  <1>3. /\ epoch[t] + 1 \in Nat /\ epoch[t] + 1 >= epoch[t]
        /\ epoch' = [epoch EXCEPT ![t] = epoch[t] + 1]
    BY <1>1, <1>2, MoreEpoch
  <1>4. /\ OthersOK(t, E) /\ GoodClock(T, t, E) /\ T \in ThreadClock /\ T.tid = t
    BY <1>1, <1>3, RunnerReady
  <1>5. /\ A \in ThreadClock /\ c \in Vector
        /\ A.clk[t] >= c[t] /\ A.clk = [c EXCEPT ![t] = A.clk[t]]
        /\ \A i \in Tids : sync[s].epoch[i] <= A.clk[i]
    BY <1>1, <1>2, <1>3, AcquiredBecomes
  <1> HIDE DEF T, E
  <1>6. GoodClock(A, t, E) /\ GoodSync(S, A, t, E)
    BY <1>2, <1>4, AcquiredGood, AcquiredSyncGood
  <1> HIDE DEF A, S
  <1>7. F \in SyncClock /\ \A i \in Tids : F.epoch[i] = A.clk[i]
    <2>1. /\ E \in Vector /\ ThreadOK(A, E) /\ S \in SyncClock /\ SyncOK(S, E) /\ PairOK(A, S)
          /\ A.clk[A.tid] = E[A.tid]
      BY <1>4, <1>6 DEF OthersOK, GoodClock, FitClock, GoodSync
    <2>. QED
      BY <1>5, <2>1, ReleaseStoreOK
  <1>8. A.clk \in Vector
    BY <1>5, ThreadClockFields
  <1>9. F.epoch = d
    <2>1. d \in Vector /\ \A i \in Tids : d[i] = Maximum(sync[s].epoch[i], A.clk[i])
      BY <1>2, <1>8, SameMaximum
    <2>2. \A i \in Tids : sync[s].epoch[i] \in Nat /\ A.clk[i] \in Nat
      BY <1>2, <1>8 DEF Vector
    <2> HIDE DEF d, F
    <2>3. \A i \in Tids : F.epoch[i] = d[i]
      BY <1>5, <1>7, <2>1, <2>2 DEF Maximum
    <2>. QED
      BY <1>7, <2>1, <2>3, SameEpochs
  <1>10. c = HB!Join(ThreadTimes[t], ObjectTimes[s]) /\ d = HB!Join(ObjectTimes[s], A.clk)
    BY <1>2, TimesAt
  <1> HIDE DEF F, c, d
  <1>11. ThreadTimes'[t] = A.clk /\ ThreadTimes' = [ThreadTimes EXCEPT ![t] = A.clk]
    BY <1>1, <1>2, <1>5, ClockBecomes
  <1>12. ObjectTimes' = [ObjectTimes EXCEPT ![s] = d]
    BY <1>1, <1>2, <1>7, <1>9, SyncStores
  <1>13. /\ ThreadTimes'[t][t] >= c[t]
         /\ ThreadTimes' = [ThreadTimes EXCEPT ![t] = [c EXCEPT ![t] = ThreadTimes'[t][t]]]
         /\ d = HB!Join(ObjectTimes[s], ThreadTimes'[t])
    BY <1>5, <1>10, <1>11
  <1>. QED
    BY <1>10, <1>12, <1>13
    DEF HB!AcquireRelease, HB!Becomes, HB!Stores, ThreadTimes, ObjectTimes

\* An empty sync clock has no time in it.
LEMMA EmptyTimes ==
    ASSUME NEW S \in SyncClock, NEW E, SyncOK(S, E), S.size = 0
    PROVE  \A i \in Tids : S.epoch[i] = 0
  <1>1. \A i \in Tids : i \in Nat /\ S.epoch[i] \in Nat
    BY TidsAreNat, SyncClockFields
  <1>. QED
    BY <1>1 DEF SyncOK

\* A release into an empty context is a release-store.
LEMMA ContextReleaseConforms ==
    ASSUME IInv, NEW t \in Running, NEW tid \in Tids, IncrementEpoch(t),
           sync[tid].size = 0, ReleaseImpl(t, tid, epoch[t] + 1)
    PROVE  HB!ReleaseStore(t, tid)
  <1> DEFINE T == SetOwn(clock[t], epoch[t] + 1)
             F == ReleaseSync(T, sync[tid])
             d == T.clk
  <1>1. clock' = [clock EXCEPT ![t] = T] /\ sync' = [sync EXCEPT ![tid] = F]
    BY DEF ReleaseImpl
  <1>2. /\ TypeOK /\ ClocksOK /\ t \in Tids /\ tid \in Objects
        /\ sync[tid] \in SyncClock /\ SyncOK(sync[tid], epoch)
    BY InvariantParts, Types DEF ClocksOK
  <1>3. \A i \in Tids : sync[tid].epoch[i] = 0
    BY <1>2, EmptyTimes
  <1>4. /\ T \in ThreadClock /\ d \in Vector /\ T.clk = d
        /\ d[t] >= clock[t].clk[t] /\ d = [clock[t].clk EXCEPT ![t] = d[t]]
        /\ F \in SyncClock
        /\ \A i \in Tids : F.epoch[i] = Maximum(sync[tid].epoch[i], d[i])
    BY <1>2, ReleasedTimes
  <1> HIDE DEF T, F, d
  <1>5. \A i \in Tids : F.epoch[i] = d[i]
    <2>1. \A i \in Tids : d[i] \in Nat
      BY <1>4 DEF Vector
    <2>. QED
      BY <1>3, <1>4, <2>1 DEF Maximum
  <1>6. F.epoch = d
    BY <1>4, <1>5, SameEpochs
  <1>7. ThreadTimes'[t] = d /\ ThreadTimes' = [ThreadTimes EXCEPT ![t] = d]
    BY <1>1, <1>2, <1>4, ClockBecomes
  <1>8. ObjectTimes' = [ObjectTimes EXCEPT ![tid] = d]
    <2>1. F \in SyncClock /\ sync' = [sync EXCEPT ![tid] = F] /\ TypeOK /\ tid \in Objects
      BY <1>1, <1>2, <1>4
    <2>. QED
      BY <1>6, <2>1, SyncStores
  <1>. QED
    BY <1>2, <1>4, <1>7, <1>8, StoreStep

LEMMA CreateConforms ==
    ASSUME IInv, NEW t \in Tids, NEW tid \in Tids, ThreadCreate(t, tid)
    PROVE  HB!ReleaseStore(t, tid)
  <1>1. PICK d \in BOOLEAN : CreateThread(tid, d)
    BY DEF ThreadCreate
  <1>2. /\ t \in Running /\ IncrementEpoch(t) /\ ReleaseImpl(t, tid, epoch[t] + 1)
    BY DEF ThreadCreate, MayRun
  <1>3. status[tid] = "Invalid"
    BY <1>1, InvariantParts, CreateStep
  <1>4. sync[tid].size = 0
    BY <1>3, InvariantParts DEF ContextSyncEmpty
  <1>. QED
    BY <1>2, <1>4, ContextReleaseConforms

LEMMA FinishConforms ==
    ASSUME IInv, NEW t \in Tids, ThreadFinish(t), ~detached[t]
    PROVE  HB!ReleaseStore(t, t)
  <1>1. /\ t \in Running /\ IncrementEpoch(t) /\ ReleaseImpl(t, t, epoch[t] + 1)
    BY DEF ThreadFinish, MayRun
  <1>2. status[t] = "Running"
    BY <1>1 DEF Running
  <1>3. sync[t].size = 0
    BY <1>2, InvariantParts DEF ContextSyncEmpty
  <1>. QED
    BY <1>1, <1>3, ContextReleaseConforms

LEMMA EmptyStores ==
    ASSUME TypeOK, NEW o \in Objects, sync' = [sync EXCEPT ![o] = EmptySyncClock]
    PROVE  ObjectTimes' = [ObjectTimes EXCEPT ![o] = HB!Zero]
  <1>1. EmptySyncClock.epoch = HB!Zero
    BY DEF EmptySyncClock, ZeroClock, HB!Zero, HB!Tids, Tids
  <1>2. EmptySyncClock \in SyncClock
    BY ZeroClockIsVector, ThreadIdsAssumption DEF EmptySyncClock, SyncClock
  <1>. QED
    BY <1>1, <1>2, SyncStores

LEMMA JoinConforms ==
    ASSUME IInv, NEW t \in Tids, NEW tid \in Tids, ThreadJoin(t, tid)
    PROVE  HB!AcquireAndForget(t, tid)
  <1> DEFINE T == SetOwn(clock[t], epoch[t])
             A == AcquireThread(T, sync[tid])
             c == HB!Join(clock[t].clk, sync[tid].epoch)
  <1>1. /\ t \in Running /\ epoch' = epoch
        /\ clock' = [clock EXCEPT ![t] = A]
        /\ sync' = [sync EXCEPT ![tid] = EmptySyncClock]
    BY DEF ThreadJoin, MayRun
  <1>2. TypeOK /\ tid \in Objects
    BY InvariantParts
  <1>3. /\ epoch[t] \in Nat /\ epoch[t] >= epoch[t]
        /\ epoch' = [epoch EXCEPT ![t] = epoch[t]]
    BY <1>1, <1>2, SameEpoch
  <1>4. /\ A \in ThreadClock /\ A.clk[t] >= c[t] /\ A.clk = [c EXCEPT ![t] = A.clk[t]]
    BY <1>1, <1>2, <1>3, AcquiredBecomes
  <1>5. c = HB!Join(ThreadTimes[t], ObjectTimes[tid])
    BY <1>2, TimesAt
  <1> HIDE DEF A, c
  <1>6. ThreadTimes'[t] = A.clk /\ ThreadTimes' = [ThreadTimes EXCEPT ![t] = A.clk]
    BY <1>1, <1>2, <1>4, ClockBecomes
  <1>7. ObjectTimes' = [ObjectTimes EXCEPT ![tid] = HB!Zero]
    BY <1>1, <1>2, EmptyStores
  <1>8. /\ ThreadTimes'[t][t] >= c[t]
        /\ ThreadTimes' = [ThreadTimes EXCEPT ![t] = [c EXCEPT ![t] = ThreadTimes'[t][t]]]
    BY <1>4, <1>6
  <1>. QED
    BY <1>5, <1>7, <1>8
    DEF HB!AcquireAndForget, HB!Becomes, HB!Stores, ThreadTimes, ObjectTimes

LEMMA StartConforms ==
    ASSUME IInv, NEW t \in Tids, ThreadStart(t)
    PROVE  HB!Begin(t, t)
  <1> DEFINE e == FirstEpoch(epoch[t])
             T == SetOwn(NewThreadClock(t, reuse_count[t]), e)
             A == AcquireThread(T, sync[t])
             c == [sync[t].epoch EXCEPT ![t] = A.clk[t]]
             E == epoch'
  <1>1. /\ StartThread(t) /\ epoch' = [epoch EXCEPT ![t] = e]
        /\ clock' = [clock EXCEPT ![t] = A]
        /\ sync' = [sync EXCEPT ![t] = EmptySyncClock]
    BY DEF ThreadStart
  <1>2. /\ t \in Objects /\ RegistryOK /\ TypeOK /\ ClocksOK /\ epoch[t] \in Nat
        /\ sync[t] \in SyncClock /\ sync[t].epoch \in Vector
        /\ clock[t] \in ThreadClock /\ clock[t].clk[t] \in Nat
        /\ clock[t].clk[t] <= epoch[t]
    BY InvariantParts, Types, SyncClockFields, ThreadClockFields DEF ClocksOK
  <1>3. e \in Nat /\ e > epoch[t]
    BY <1>2, FirstEpochIsLater
  <1>4. status[t] = "Created"
    BY <1>1, <1>2, StartStep
  <1> HIDE DEF e
  <1>5. E[t] = e
    BY <1>1, <1>2, <1>3 DEF TypeOK
  <1>6. /\ OthersOK(t, E) /\ GoodClock(T, t, E) /\ \A i \in Tids \ {t} : T.clk[i] = 0
    BY <1>1, <1>3, <1>4, NewClockGood
  <1> HIDE DEF T, E
  <1>7. GoodClock(A, t, E)
    BY <1>2, <1>6, AcquiredGood
  <1>8. \A i \in Tids : A.clk[i] = Maximum(T.clk[i], sync[t].epoch[i])
    <2>1. /\ T \in ThreadClock /\ E \in Vector /\ ThreadOK(T, E) /\ SyncOK(sync[t], E)
          /\ PairOK(T, sync[t]) /\ T.clk[T.tid] = E[T.tid]
      BY <1>2, <1>6 DEF OthersOK, GoodClock, FitClock
    <2>. QED
      BY <1>2, <2>1, AcquireIsJoin
  <1> HIDE DEF A
  <1>9. A \in ThreadClock /\ A.clk \in Vector /\ A.clk[t] = e
    BY <1>5, <1>7, ThreadClockFields DEF GoodClock, FitClock
  <1>10. \A i \in Tids \ {t} : A.clk[i] = sync[t].epoch[i]
    <2>1. \A i \in Tids : sync[t].epoch[i] \in Nat
      BY <1>2 DEF Vector
    <2>. QED
      BY <1>6, <1>8, <2>1 DEF Maximum
  <1>11. A.clk = c
    BY <1>2, <1>9, <1>10, AllButOwn
  <1>12. A.clk[t] > clock[t].clk[t]
    BY <1>2, <1>3, <1>9
  <1>13. /\ ThreadTimes'[t] = A.clk /\ ThreadTimes' = [ThreadTimes EXCEPT ![t] = A.clk]
         /\ ThreadTimes[t] = clock[t].clk /\ ObjectTimes[t] = sync[t].epoch
    BY <1>1, <1>2, <1>9, ClockBecomes, TimesAt
  <1>14. c[t] = A.clk[t] /\ [c EXCEPT ![t] = A.clk[t]] = A.clk /\ A.clk[t] >= c[t]
    BY <1>9, <1>11, <1>3 DEF Vector
  <1>15. c = [ObjectTimes[t] EXCEPT ![t] = ThreadTimes'[t][t]]
    BY <1>13
  <1> HIDE DEF c
  <1>16. ObjectTimes' = [ObjectTimes EXCEPT ![t] = HB!Zero]
    BY <1>1, <1>2, EmptyStores
  <1>17. /\ ThreadTimes'[t][t] > ThreadTimes[t][t]
         /\ ThreadTimes'[t][t] >= c[t]
         /\ ThreadTimes' = [ThreadTimes EXCEPT ![t] = [c EXCEPT ![t] = ThreadTimes'[t][t]]]
    BY <1>12, <1>13, <1>14
  <1>. QED
    BY <1>15, <1>16, <1>17 DEF HB!Begin, HB!Becomes, HB!Stores, ThreadTimes, ObjectTimes

\* Every operation on the clocks has the effect of its namesake in the simple
\* model: the shortcuts of tsan_clock.cc leave nothing out.
THEOREM Conformance == Spec => OperationsConform
  <1> DEFINE Conforms ==
               \A t \in Tids :
                  /\ \A s \in Syncs :
                        /\ Acquire(t, s) => HB!Acquire(t, s)
                        /\ Release(t, s) => HB!Release(t, s)
                        /\ ReleaseStore(t, s) => HB!ReleaseStore(t, s)
                        /\ AcquireRelease(t, s) => HB!AcquireRelease(t, s)
                  /\ \A tid \in Tids :
                        /\ ThreadCreate(t, tid) => HB!ReleaseStore(t, tid)
                        /\ ThreadJoin(t, tid) => HB!AcquireAndForget(t, tid)
                  /\ ThreadStart(t) => HB!Begin(t, t)
                  /\ ThreadFinish(t) /\ ~detached[t] => HB!ReleaseStore(t, t)
  <1>1. IInv => Conforms
    BY AcquireConforms, ReleaseConforms, ReleaseStoreConforms, AcquireReleaseConforms,
       CreateConforms, JoinConforms, StartConforms, FinishConforms
  <1>. QED
    BY <1>1, Invariance, PTL DEF OperationsConform
=============================================================================
