--------------------------- MODULE RWMutexProofs ---------------------------
(***************************************************************************)
(* Proofs about RWMutex, for any finite set of threads and any word wide   *)
(* enough for them.                                                        *)
(***************************************************************************)
EXTENDS RWMutex, FiniteSetTheorems, TLAPS

\* Arithmetic below the word size does not wrap around.
LEMMA WordIsIdentity ==
    ASSUME NEW x \in Nat, x < WordSize
    PROVE  Word(x) = x
  BY RWMutexAssumption, SMTT(30) DEF Word

\* The reader field can never reach the top of the word.
LEMMA CountedBound ==
    /\ IsFiniteSet(Counted)
    /\ Cardinality(Counted) \in Nat
    /\ Cardinality(Counted) <= Cardinality(Threads)
    /\ Cardinality(Threads) \in Nat
  <1>1. Counted \subseteq Threads
    BY DEF Counted, At
  <1>. QED
    BY <1>1, RWMutexAssumption, FS_Subset, FS_CardinalityType

\* One more, or one less, reader moves the count by exactly one.
LEMMA CountedAdd ==
    ASSUME NEW t \in Threads, t \notin Counted, Counted' = Counted \cup {t}
    PROVE  Cardinality(Counted') = Cardinality(Counted) + 1
  BY CountedBound, FS_AddElement

LEMMA CountedRemove ==
    ASSUME NEW t \in Threads, t \in Counted, Counted' = Counted \ {t}
    PROVE  Cardinality(Counted') = Cardinality(Counted) - 1
  BY CountedBound, FS_RemoveElement

LEMMA CountedPositive ==
    ASSUME NEW t \in Threads, t \in Counted
    PROVE  Cardinality(Counted) >= 1
  BY CountedBound, FS_EmptySet


\* What one thread's move between two places does to the sets IInv speaks of.
LEMMA MoveEffect ==
    ASSUME TypeOK, NEW t \in Threads,
           NEW from, NEW to \in PCs, Goto(t, from, to)
    PROVE  /\ pc' \in [Threads -> PCs]
           /\ \A u \in Threads : pc'[u] = IF u = t THEN to ELSE pc[u]
           /\ pc[t] = from
  BY DEF TypeOK, Goto

\* The heart of the argument: every step of every thread preserves IInv.
LEMMA StepPreservesIInv ==
    ASSUME IInv, NEW t \in Threads, Step(t)
    PROVE  IInv'
  <1> DEFINE W == At("writing")
             n == Cardinality(Counted)
  <1> USE DEF kUnlocked, kWriteLock, kReadLock
  <1>0. /\ TypeOK /\ WordCounts /\ MutualExclusion
        /\ n \in Nat /\ 2 * n + 1 < WordSize /\ WordSize \in Nat
    BY CountedBound, RWMutexAssumption DEF IInv
  <1>w. /\ W = {} => state_ = 2 * n
        /\ W # {} => state_ = 2 * n + 1
    BY <1>0 DEF WordCounts
  <1>b. /\ WriteBit(state_) = 0 <=> W = {}
        /\ WriteBit(state_) # 0 <=> W # {}
    BY <1>0, <1>w DEF WriteBit
  <1>z. state_ = 0 => W = {} /\ Counted = {}
    BY <1>0, <1>w, CountedBound, FS_EmptySet
  <1> HIDE DEF n
  <1>1. ASSUME state_ = 0, state_' = 1, pc[t] \in {"idle", "LockCAS"},
               \A u \in Threads : pc'[u] = IF u = t THEN "writing" ELSE pc[u],
               pc' \in [Threads -> PCs]
        PROVE  IInv'
    <2>1. W' = {t} /\ Counted' = Counted /\ At("reading")' = {}
      BY <1>1, <1>z DEF At, Counted
    <2>2. Cardinality(Counted') = 0
      BY <1>1, <2>1, <1>z, FS_EmptySet
    <2>3. TypeOK' /\ WordCounts'
      BY <2>1, <2>2, <1>0, <1>1 DEF TypeOK, WordCounts
    <2>4. MutualExclusion'
      BY <2>1 DEF MutualExclusion
    <2>. QED
      BY <2>3, <2>4 DEF IInv
  <1>2. ASSUME state_' = state_, pc' \in [Threads -> PCs],
               pc[t] \in {"idle", "LockSlow", "LockCAS"},
               \E to \in {"LockSlow", "LockCAS"} :
                 \A u \in Threads : pc'[u] = IF u = t THEN to ELSE pc[u]
        PROVE  IInv'
    <2>1. W' = W /\ Counted' = Counted /\ At("reading")' = At("reading")
      BY <1>2 DEF At, Counted
    <2>. QED
      BY <2>1, <1>0, <1>2 DEF IInv, TypeOK, WordCounts, MutualExclusion
  <1>3. CASE Lock(t)
    BY <1>3, <1>0, <1>1, <1>2, MoveEffect DEF Lock, PCs
  <1>4. CASE LockSlowLoad(t)
    BY <1>4, <1>0, <1>2, MoveEffect DEF LockSlowLoad, PCs
  <1>5. CASE LockSlowCAS(t)
    BY <1>5, <1>0, <1>1, <1>2, MoveEffect DEF LockSlowCAS, PCs
  <1>6. CASE Unlock(t)
    <2>1. /\ pc[t] = "writing" /\ pc' \in [Threads -> PCs]
          /\ \A u \in Threads : pc'[u] = IF u = t THEN "idle" ELSE pc[u]
      BY <1>6, <1>0, MoveEffect DEF Unlock, PCs
    <2>2. W # {} /\ W' = {} /\ Counted' = Counted
      BY <2>1, <1>0 DEF At, Counted, MutualExclusion
    <2>3. state_' = 2 * n
      BY <1>0, <1>w, <1>6, <2>2, WordIsIdentity DEF Unlock
    <2>. QED
      BY <2>1, <2>2, <2>3, <1>0
         DEF IInv, TypeOK, WordCounts, MutualExclusion, n
  <1>7. CASE ReadLock(t)
    <2>1. /\ pc[t] = "idle" /\ pc' \in [Threads -> PCs]
          /\ \/ /\ W = {}
                /\ \A u \in Threads :
                     pc'[u] = IF u = t THEN "reading" ELSE pc[u]
             \/ /\ W # {}
                /\ \A u \in Threads :
                     pc'[u] = IF u = t THEN "ReadLockSlow" ELSE pc[u]
      BY <1>7, <1>0, <1>b, MoveEffect DEF ReadLock, PCs
    <2>2. W' = W /\ Counted' = Counted \cup {t} /\ t \notin Counted
      BY <2>1 DEF At, Counted
    <2>3. W # {} => At("reading")' = At("reading")
      BY <2>1 DEF At
    <2>4. Cardinality(Counted') = n + 1
      BY <2>2, CountedAdd DEF n
    <2>5. 2 * (n + 1) + 1 < WordSize
      <3>1. IsFiniteSet(Counted) /\ Counted \cup {t} \subseteq Threads
        BY CountedBound DEF Counted, At
      <3>2. Cardinality(Counted \cup {t}) <= Cardinality(Threads)
        BY <3>1, FS_Subset, RWMutexAssumption
      <3>. QED
        BY <2>2, <2>4, <3>2, <1>0, CountedBound, RWMutexAssumption
    <2>6. state_' = state_ + 2
      BY <1>0, <1>w, <1>7, <2>5, WordIsIdentity DEF ReadLock
    <2>. QED
      BY <2>1, <2>2, <2>3, <2>4, <2>5, <2>6, <1>w, <1>0
         DEF IInv, TypeOK, WordCounts, MutualExclusion
  <1>8. CASE ReadLockSlow(t)
    <2>1. /\ pc[t] = "ReadLockSlow" /\ pc' \in [Threads -> PCs] /\ W = {}
          /\ \A u \in Threads : pc'[u] = IF u = t THEN "reading" ELSE pc[u]
      BY <1>8, <1>0, <1>b, MoveEffect DEF ReadLockSlow, PCs
    <2>2. W' = {} /\ Counted' = Counted
      BY <2>1 DEF At, Counted
    <2>. QED
      BY <2>1, <2>2, <1>8, <1>0
         DEF ReadLockSlow, IInv, TypeOK, WordCounts, MutualExclusion
  <1>9. CASE ReadUnlock(t)
    <2>1. /\ pc[t] = "reading" /\ pc' \in [Threads -> PCs]
          /\ \A u \in Threads : pc'[u] = IF u = t THEN "idle" ELSE pc[u]
      BY <1>9, <1>0, MoveEffect DEF ReadUnlock, PCs
    <2>2. W = {} /\ W' = {} /\ t \in Counted /\ Counted' = Counted \ {t}
      BY <2>1, <1>0 DEF At, Counted, MutualExclusion
    <2>3. Cardinality(Counted') = n - 1 /\ n >= 1
      BY <2>2, CountedRemove, CountedPositive DEF n
    <2>4. state_' = state_ - 2
      BY <1>0, <1>w, <1>9, <2>2, <2>3, WordIsIdentity DEF ReadUnlock
    <2>. QED
      BY <2>1, <2>2, <2>3, <2>4, <1>w, <1>0
         DEF IInv, TypeOK, WordCounts, MutualExclusion
  <1>. QED
    BY <1>3, <1>4, <1>5, <1>6, <1>7, <1>8, <1>9 DEF Step

-----------------------------------------------------------------------------
\* IInv is an invariant of every behaviour of the mutex.
LEMMA InductiveInvariant == Spec => []IInv
  <1>1. Init => IInv
    <2> SUFFICES ASSUME Init PROVE IInv
      OBVIOUS
    <2>1. At("writing") = {} /\ Counted = {}
      BY DEF Init, At, Counted
    <2>2. Cardinality(Threads) \in Nat
      BY RWMutexAssumption, FS_CardinalityType
    <2>3. TypeOK
      BY <2>2, RWMutexAssumption DEF Init, TypeOK, PCs, kUnlocked
    <2>. QED
      BY <2>1, <2>3, FS_EmptySet
         DEF Init, IInv, WordCounts, MutualExclusion, kUnlocked, kReadLock
  <1>2. IInv /\ [Next]_vars => IInv'
    <2> SUFFICES ASSUME IInv, [Next]_vars PROVE IInv'
      OBVIOUS
    <2>1. CASE Next
      BY <2>1, StepPreservesIInv DEF Next
    <2>2. CASE UNCHANGED vars
      BY <2>2 DEF vars, IInv, TypeOK, WordCounts, MutualExclusion, At, Counted
    <2>. QED
      BY <2>1, <2>2
  <1>. QED
    BY <1>1, <1>2, PTL DEF Spec

\* Type correctness: state_ stays a word of the declared width.
THEOREM TypeCorrect == Spec => []TypeOK
  BY InductiveInvariant, PTL DEF IInv

\* The mutex word always equals the write bit plus twice the number of
\* readers inside or spinning: no operation loses or invents a reader.
THEOREM WordIsExact == Spec => []WordCounts
  BY InductiveInvariant, PTL DEF IInv

\* Lock() is exclusive against Lock() and ReadLock(), for any number of
\* threads that fits the word.
THEOREM Exclusion == Spec => []MutualExclusion
  BY InductiveInvariant, PTL DEF IInv

\* The DCHECKs of Unlock and ReadUnlock cannot fire for a holder.
THEOREM DebugChecks == Spec => []DebugChecksHold
  <1>1. IInv => DebugChecksHold
    <2> SUFFICES ASSUME IInv PROVE DebugChecksHold
      OBVIOUS
    <2> DEFINE n == Cardinality(Counted)
    <2>1. n \in Nat /\ TypeOK /\ WordCounts /\ MutualExclusion
      BY CountedBound DEF IInv
    <2>2. At("writing") # {} => WriteBit(state_) = 1
      BY <2>1 DEF WordCounts, WriteBit, kWriteLock, kReadLock
    <2>3. ASSUME At("reading") # {}
          PROVE  WriteBit(state_) = 0 /\ state_ >= kReadLock
      <3>1. PICK t \in Threads : t \in Counted
        BY <2>3 DEF At, Counted
      <3>2. n >= 1 /\ At("writing") = {}
        BY <3>1, <2>1, <2>3, CountedPositive DEF MutualExclusion
      <3>. QED
        BY <3>2, <2>1 DEF WordCounts, WriteBit, kWriteLock, kReadLock
    <2>. QED
      BY <2>2, <2>3 DEF DebugChecksHold
  <1>. QED
    BY <1>1, InductiveInvariant, PTL

-----------------------------------------------------------------------------
\* Every step of the mutex is a step of the abstract lock or leaves both
\* sets of holders alone.
LEMMA StepRefines ==
    ASSUME IInv, NEW t \in Threads, Step(t)
    PROVE  [Abs!Next]_(Abs!vars)
  <1> DEFINE W == At("writing")
             R == At("reading")
             n == Cardinality(Counted)
  <1> USE DEF kUnlocked, kWriteLock, kReadLock
  <1>0. TypeOK /\ WordCounts /\ MutualExclusion /\ n \in Nat
    BY CountedBound DEF IInv
  <1>b. WriteBit(state_) = 0 <=> W = {}
    BY <1>0 DEF WordCounts, WriteBit
  <1>w. state_ = 0 => W = {} /\ n = 0
    BY <1>0 DEF WordCounts
  <1>c. state_ = 0 => Counted = {}
    BY <1>w, CountedBound, FS_EmptySet
  <1>z. state_ = 0 => W = {} /\ R = {}
    BY <1>w, <1>c DEF Counted
  <1>1. ASSUME state_ = 0, pc[t] # "writing", pc[t] # "reading",
               \A u \in Threads : pc'[u] = IF u = t THEN "writing" ELSE pc[u]
        PROVE  Abs!AcquireWrite(t)
    BY <1>1, <1>z DEF At, Abs!AcquireWrite
  <1>2. ASSUME pc[t] # "writing", pc[t] # "reading",
               NEW to \in {"LockSlow", "LockCAS", "ReadLockSlow"},
               \A u \in Threads : pc'[u] = IF u = t THEN to ELSE pc[u]
        PROVE  UNCHANGED Abs!vars
    BY <1>2 DEF At, Abs!vars
  <1>3. ASSUME W = {}, pc[t] # "writing", pc[t] # "reading",
               \A u \in Threads : pc'[u] = IF u = t THEN "reading" ELSE pc[u]
        PROVE  Abs!AcquireRead(t)
    BY <1>3 DEF At, Abs!AcquireRead
  <1>4. CASE Lock(t)
    BY <1>4, <1>0, <1>1, <1>2, MoveEffect DEF Lock, PCs, Abs!Next
  <1>5. CASE LockSlowLoad(t)
    BY <1>5, <1>0, <1>2, MoveEffect DEF LockSlowLoad, PCs
  <1>6. CASE LockSlowCAS(t)
    BY <1>6, <1>0, <1>1, <1>2, MoveEffect DEF LockSlowCAS, PCs, Abs!Next
  <1>7. CASE Unlock(t)
    <2>1. /\ pc[t] = "writing"
          /\ \A u \in Threads : pc'[u] = IF u = t THEN "idle" ELSE pc[u]
      BY <1>7, <1>0, MoveEffect DEF Unlock, PCs
    <2>. QED
      BY <2>1 DEF At, Abs!ReleaseWrite, Abs!Next
  <1>8. CASE ReadLock(t)
    BY <1>8, <1>0, <1>b, <1>2, <1>3, MoveEffect DEF ReadLock, PCs, Abs!Next
  <1>9. CASE ReadLockSlow(t)
    BY <1>9, <1>0, <1>b, <1>3, MoveEffect DEF ReadLockSlow, PCs, Abs!Next
  <1>10. CASE ReadUnlock(t)
    <2>1. /\ pc[t] = "reading"
          /\ \A u \in Threads : pc'[u] = IF u = t THEN "idle" ELSE pc[u]
      BY <1>10, <1>0, MoveEffect DEF ReadUnlock, PCs
    <2>. QED
      BY <2>1 DEF At, Abs!ReleaseRead, Abs!Next
  <1>. QED
    BY <1>4, <1>5, <1>6, <1>7, <1>8, <1>9, <1>10 DEF Step

\* The spin mutex implements the abstract reader-writer lock.
THEOREM RefinesRWLock == Spec => AbsSpec
  <1>1. Init => Abs!Init
    BY DEF Init, Abs!Init, At
  <1>2. IInv /\ [Next]_vars => [Abs!Next]_(Abs!vars)
    <2>1. ASSUME IInv, Next PROVE [Abs!Next]_(Abs!vars)
      BY <2>1, StepRefines DEF Next
    <2>2. ASSUME UNCHANGED vars PROVE UNCHANGED Abs!vars
      BY <2>2 DEF vars, Abs!vars, At
    <2>. QED
      BY <2>1, <2>2
  <1>. QED
    BY <1>1, <1>2, InductiveInvariant, PTL DEF Spec, AbsSpec, Abs!Spec
=============================================================================
