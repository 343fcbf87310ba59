------------------------- MODULE SharedMutexProofs -------------------------
(***************************************************************************)
(* Proofs about SharedMutex, for any finite set of threads and any state   *)
(* word that can count all but one of them.                                *)
(***************************************************************************)
EXTENDS SharedMutex, FiniteSetTheorems, TLAPS

\* A thread that neither holds the lock nor has entered.
Outside(t) == pc[t] \in {"idle", "lock1", "shared"}

\* Thread t, and no other, is at another place after the step.
Moves(t, to) ==
    /\ pc' \in [Threads -> PCs]
    /\ \A u \in Threads : pc'[u] = IF u = t THEN to ELSE pc[u]

LEMMA GotoMoves ==
    ASSUME TypeOK, NEW t \in Threads, NEW to \in PCs, Goto(t, to)
    PROVE  Moves(t, to)
  BY DEF TypeOK, Goto, Moves

LEMMA ReadersFinite ==
    /\ IsFiniteSet(Readers) /\ Cardinality(Readers) \in Nat
    /\ Readers = {} <=> Cardinality(Readers) = 0
  <1>1. Readers \subseteq Threads
    BY DEF Readers, At
  <1>2. IsFiniteSet(Readers)
    BY <1>1, SharedMutexAssumption, FS_Subset
  <1>. QED
    BY <1>2, FS_CardinalityType, FS_EmptySet

\* One more reader, or one less, moves the count by one.
LEMMA ReadersAdd ==
    ASSUME NEW t \in Threads, t \notin Readers, Readers' = Readers \cup {t}
    PROVE  Cardinality(Readers') = Cardinality(Readers) + 1
  BY ReadersFinite, FS_AddElement

LEMMA ReadersRemove ==
    ASSUME NEW t \in Threads, t \in Readers, Readers' = Readers \ {t}
    PROVE  /\ Cardinality(Readers') = Cardinality(Readers) - 1
           /\ Cardinality(Readers) >= 1
  BY ReadersFinite, FS_RemoveElement, FS_EmptySet

\* When the state word is full at most one thread is not a reader.
LEMMA FullLeavesOne ==
    ASSUME IInv, num_readers = __n_readers_,
           NEW t \in Threads \ Readers, NEW u \in Threads \ Readers
    PROVE  t = u
  <1> SUFFICES ASSUME t # u PROVE FALSE
    OBVIOUS
  <1> DEFINE R1 == Readers \cup {t}
             R2 == R1 \cup {u}
  <1>1. /\ IsFiniteSet(R1) /\ Cardinality(R1) = Cardinality(Readers) + 1
    BY ReadersFinite, FS_AddElement
  <1>2. /\ IsFiniteSet(R2) /\ Cardinality(R2) = Cardinality(R1) + 1
    BY <1>1, FS_AddElement
  <1>3. R2 \subseteq Threads
    BY DEF Readers, At
  <1>4. Cardinality(R2) <= Cardinality(Threads) /\ Cardinality(Threads) \in Nat
    BY <1>3, SharedMutexAssumption, FS_Subset, FS_CardinalityType
  <1>5. Cardinality(R2) = __n_readers_ + 2
    BY <1>1, <1>2, SharedMutexAssumption DEF IInv, StateCounts
  <1>. QED
    BY <1>4, <1>5, SharedMutexAssumption

-----------------------------------------------------------------------------
(* What the moves of a thread do to the invariant                          *)

\* A thread stays outside: it goes to sleep for a reason, wakes, or leaves.
LEMMA StaysOutside ==
    ASSUME IInv, NEW t \in Threads, NEW to \in {"idle", "lock1", "shared"},
           Outside(t), Moves(t, to),
           UNCHANGED <<write_entered, num_readers, gate2>>,
           timed' \in [Threads -> BOOLEAN],
           \/ gate1' = gate1 \cup {t} /\ to # "idle" /\ Blocked
           \/ gate1' = gate1 \ {t}
    PROVE  IInv'
  <1>1. Readers' = Readers /\ Entered' = Entered /\ At("writing")' = At("writing")
    BY DEF Readers, Entered, At, Outside, Moves
  <1>2. TypeOK'
    BY DEF IInv, TypeOK, Moves, At, Outside
  <1>3. StateCounts' /\ MutualExclusion'
    BY <1>1 DEF IInv, StateCounts, MutualExclusion
  <1>4. NoForgottenSleeper'
    BY DEF IInv, NoForgottenSleeper, Blocked
  <1>. QED
    BY <1>2, <1>3, <1>4 DEF IInv

\* A thread sets __write_entered_ and gets in, or waits at gate 2.
LEMMA EntersAsWriter ==
    ASSUME IInv, NEW t \in Threads, NEW to, Outside(t), Moves(t, to),
           ~write_entered, write_entered' = TRUE, num_readers' = num_readers,
           gate1' = gate1 \ {t}, timed' \in [Threads -> BOOLEAN],
           \/ num_readers > 0 /\ to = "lock2" /\ gate2' = gate2 \cup {t}
           \/ num_readers = 0 /\ to = "writing" /\ gate2' = gate2
    PROVE  IInv'
  <1>0. num_readers \in Nat /\ Entered = {}
    BY SharedMutexAssumption DEF IInv, TypeOK, StateCounts
  <1>1. Readers' = Readers /\ Entered' = {t}
    BY <1>0 DEF Readers, Entered, At, Outside, Moves
  <1>2. At("writing")' # {} => num_readers = 0
    BY <1>0 DEF Entered, At, Outside, Moves
  <1>3. TypeOK'
    BY DEF IInv, TypeOK, Moves, At, Outside
  <1>4. StateCounts' /\ MutualExclusion'
    BY <1>1, <1>2 DEF IInv, StateCounts, MutualExclusion
  <1>5. NoForgottenSleeper'
    BY DEF IInv, NoForgottenSleeper, Blocked
  <1>. QED
    BY <1>3, <1>4, <1>5 DEF IInv

\* A thread becomes a reader.
LEMMA EntersAsReader ==
    ASSUME IInv, NEW t \in Threads, Outside(t), Moves(t, "reading"),
           ~Blocked, num_readers' = num_readers + 1, gate1' = gate1 \ {t},
           timed' \in [Threads -> BOOLEAN],
           UNCHANGED <<write_entered, gate2>>
    PROVE  IInv'
  <1>0. num_readers \in Nat /\ num_readers < __n_readers_ /\ ~write_entered
    BY SharedMutexAssumption DEF IInv, TypeOK, Blocked
  <1>1. Entered = {} /\ gate1 = {}
    BY <1>0 DEF IInv, StateCounts, NoForgottenSleeper
  <1>2. /\ t \notin Readers /\ Readers' = Readers \cup {t}
        /\ Entered' = {} /\ At("writing")' = {}
    BY <1>1 DEF Readers, Entered, At, Outside, Moves
  <1>3. num_readers' = Cardinality(Readers')
    BY <1>2, ReadersAdd DEF IInv, StateCounts
  <1>4. TypeOK'
    BY <1>0, SharedMutexAssumption DEF IInv, TypeOK, Moves, At, Outside
  <1>5. StateCounts' /\ MutualExclusion'
    BY <1>0, <1>2, <1>3 DEF StateCounts, MutualExclusion
  <1>6. NoForgottenSleeper'
    BY <1>0, <1>1 DEF IInv, NoForgottenSleeper
  <1>. QED
    BY <1>4, <1>5, <1>6 DEF IInv

-----------------------------------------------------------------------------
(* One lemma for each group of actions                                     *)

LEMMA BeginsOutside ==
    ASSUME IInv, NEW t \in Threads, Begins(t)
    PROVE  /\ Outside(t) /\ t \notin gate1
           /\ timed' \in [Threads -> BOOLEAN]
  BY DEF IInv, TypeOK, Begins, Outside, At

\* The part of lock() that lock() and a thread woken at gate 1 share.
LEMMA EnterOrWait1Preserves ==
    ASSUME IInv, NEW t \in Threads, Outside(t), EnterOrWait1(t),
           timed' \in [Threads -> BOOLEAN]
    PROVE  IInv'
  <1>1. TypeOK /\ num_readers \in Nat
    BY SharedMutexAssumption DEF IInv, TypeOK
  <1>2. CASE write_entered
    BY <1>1, <1>2, GotoMoves, StaysOutside DEF EnterOrWait1, PCs, Blocked
  <1>3. CASE ~write_entered /\ num_readers > 0
    <2>1. Moves(t, "lock2")
      BY <1>1, <1>3, GotoMoves DEF EnterOrWait1, PCs
    <2>. QED
      BY <1>3, <2>1, EntersAsWriter DEF EnterOrWait1
  <1>4. CASE ~write_entered /\ num_readers = 0
    <2>0. /\ Goto(t, "writing") /\ gate2' = gate2 /\ gate1' = gate1 \ {t}
          /\ write_entered' = TRUE /\ num_readers' = num_readers
      BY <1>4 DEF EnterOrWait1
    <2>1. Moves(t, "writing")
      BY <1>1, <2>0, GotoMoves DEF PCs
    <2>. QED
      BY <1>4, <2>0, <2>1, EntersAsWriter
  <1>. QED
    BY <1>1, <1>2, <1>3, <1>4

\* The part of lock_shared() that its callers share.
LEMMA EnterOrWaitSharedPreserves ==
    ASSUME IInv, NEW t \in Threads, Outside(t), EnterOrWaitShared(t),
           timed' \in [Threads -> BOOLEAN]
    PROVE  IInv'
  <1>1. TypeOK
    BY DEF IInv
  <1>2. CASE Blocked
    <2>1. Moves(t, "shared")
      BY <1>1, <1>2, GotoMoves DEF EnterOrWaitShared, PCs
    <2>. QED
      BY <1>2, <2>1, StaysOutside DEF EnterOrWaitShared
  <1>3. CASE ~Blocked
    <2>1. Moves(t, "reading")
      BY <1>1, <1>3, GotoMoves DEF EnterOrWaitShared, PCs
    <2>. QED
      BY <1>3, <2>1, EntersAsReader DEF EnterOrWaitShared
  <1>. QED
    BY <1>2, <1>3

LEMMA TryPreserves ==
    ASSUME IInv, NEW t \in Threads, TryLock(t) \/ TryLockShared(t)
    PROVE  IInv'
  <1>1. /\ TypeOK /\ Outside(t) /\ gate1 = gate1 \ {t}
        /\ timed' \in [Threads -> BOOLEAN]
    BY DEF IInv, TypeOK, At, Outside, TryLock, TryLockShared
  <1>2. CASE TryLock(t)
    <2>1. Moves(t, "writing")
      BY <1>1, <1>2, GotoMoves DEF TryLock, PCs
    <2>. QED
      BY <1>1, <1>2, <2>1, EntersAsWriter DEF TryLock
  <1>3. CASE TryLockShared(t)
    <2>1. Moves(t, "reading")
      BY <1>1, <1>3, GotoMoves DEF TryLockShared, PCs
    <2>. QED
      BY <1>1, <1>3, <2>1, EntersAsReader DEF TryLockShared
  <1>. QED
    BY <1>2, <1>3

\* A writer at gate 2 is the only thread that has entered.
LEMMA AloneAtGate2 ==
    ASSUME IInv, NEW t \in Threads, pc[t] \in {"lock2", "writing"}
    PROVE  /\ Entered = {t} /\ write_entered
           /\ gate2 \ {t} = {}
           /\ Readers = {} <=> num_readers = 0
           /\ num_readers \in Nat /\ num_readers <= __n_readers_
           /\ t \notin gate1
  <1>1. Entered = {t} /\ write_entered
    BY DEF IInv, StateCounts, Entered, At
  <1>2. gate2 \subseteq Entered /\ t \notin gate1
    BY DEF IInv, TypeOK, Entered, At
  <1>3. num_readers \in Nat /\ num_readers <= __n_readers_
    BY SharedMutexAssumption DEF IInv, TypeOK
  <1>. QED
    BY <1>1, <1>2, <1>3, ReadersFinite DEF IInv, StateCounts

LEMMA LockGate2Preserves ==
    ASSUME IInv, NEW t \in Threads, LockGate2(t)
    PROVE  IInv'
  <1>1. pc[t] = "lock2" /\ timed' = timed /\ TypeOK
    BY DEF LockGate2, Resumes, IInv
  <1>2. CASE num_readers > 0
    <2>1. pc' = pc /\ gate2' = gate2 \cup {t}
      BY <1>2 DEF LockGate2
    <2>2. TypeOK'
      BY <1>1, <2>1 DEF TypeOK, LockGate2, At
    <2>3. StateCounts' /\ MutualExclusion'
      BY <2>1 DEF IInv, StateCounts, MutualExclusion, LockGate2, Readers,
                  Entered, At
    <2>4. NoForgottenSleeper'
      BY <1>2 DEF IInv, NoForgottenSleeper, LockGate2, Blocked
    <2>. QED
      BY <2>2, <2>3, <2>4 DEF IInv
  <1>3. CASE ~(num_readers > 0)
    <2>0. num_readers = 0 /\ gate2' = gate2 /\ t \notin gate2
      BY <1>1, <1>3, AloneAtGate2 DEF LockGate2, Resumes
    <2>1. Moves(t, "writing")
      BY <1>1, <1>3, GotoMoves DEF LockGate2, PCs
    <2>2. Readers' = Readers /\ Entered' = Entered
      BY <1>1, <2>1 DEF Readers, Entered, At, Moves
    <2>3. TypeOK'
      BY <1>1, <2>0, <2>1 DEF TypeOK, LockGate2, At, Moves
    <2>4. StateCounts' /\ MutualExclusion'
      BY <2>0, <2>2 DEF IInv, StateCounts, MutualExclusion, LockGate2
    <2>5. NoForgottenSleeper'
      BY <2>0 DEF IInv, NoForgottenSleeper, LockGate2, Blocked
    <2>. QED
      BY <2>3, <2>4, <2>5 DEF IInv
  <1>. QED
    BY <1>2, <1>3

LEMMA UnlockPreserves ==
    ASSUME IInv, NEW t \in Threads, Unlock(t)
    PROVE  IInv'
  <1>1. /\ Entered = {t} /\ Readers = {} /\ pc[t] = "writing" /\ TypeOK
        /\ num_readers = 0
    BY AloneAtGate2 DEF Unlock, IInv, MutualExclusion, At
  <1>2. Moves(t, "idle")
    BY <1>1, GotoMoves DEF Unlock, PCs
  <1>3. Readers' = {} /\ Entered' = {} /\ gate2 = {}
    BY <1>1, <1>2 DEF Readers, Entered, At, Moves, TypeOK
  <1>4. TypeOK'
    BY <1>1, <1>2, <1>3, SharedMutexAssumption DEF TypeOK, Unlock, At, Moves
  <1>5. StateCounts' /\ MutualExclusion'
    BY <1>3, FS_EmptySet DEF StateCounts, MutualExclusion, Unlock
  <1>6. NoForgottenSleeper'
    BY <1>3 DEF NoForgottenSleeper, Unlock
  <1>. QED
    BY <1>4, <1>5, <1>6 DEF IInv

LEMMA TimeoutGate2Preserves ==
    ASSUME IInv, NEW t \in Threads, TimeoutGate2(t)
    PROVE  IInv'
  <1>1. /\ pc[t] = "lock2" /\ TypeOK /\ gate2' = {} /\ timed' = timed
        /\ Entered = {t} /\ write_entered /\ num_readers \in Nat
        /\ num_readers' = num_readers /\ t \notin gate1
    BY AloneAtGate2 DEF TimeoutGate2, IInv, TypeOK, At
  <1>2. CASE num_readers = 0
    <2>1. Moves(t, "writing") /\ UNCHANGED <<write_entered, gate1>>
      BY <1>1, <1>2, GotoMoves DEF TimeoutGate2, PCs
    <2>2. Readers' = Readers /\ Entered' = Entered
      BY <1>1, <2>1 DEF Readers, Entered, At, Moves
    <2>3. TypeOK'
      BY <1>1, <2>1 DEF TypeOK, At, Moves
    <2>4. StateCounts' /\ MutualExclusion'
      BY <1>1, <1>2, <2>1, <2>2 DEF IInv, StateCounts, MutualExclusion
    <2>5. NoForgottenSleeper'
      BY <1>1, <2>1 DEF IInv, NoForgottenSleeper, Blocked
    <2>. QED
      BY <2>3, <2>4, <2>5 DEF IInv
  <1>3. CASE num_readers > 0
    <2>0. Goto(t, "idle") /\ write_entered' = FALSE /\ gate1' = {}
      BY <1>3 DEF TimeoutGate2
    <2>1. Moves(t, "idle") /\ write_entered' = FALSE /\ gate1' = {}
      BY <1>1, <2>0, GotoMoves DEF PCs
    <2>2. Readers' = Readers /\ Entered' = {} /\ At("writing")' = {}
      BY <1>1, <2>1 DEF Readers, Entered, At, Moves
    <2>3. TypeOK'
      BY <1>1, <2>1 DEF TypeOK, At, Moves
    <2>4. StateCounts' /\ MutualExclusion'
      BY <1>1, <2>1, <2>2 DEF IInv, StateCounts, MutualExclusion
    <2>5. NoForgottenSleeper'
      BY <1>1, <2>1 DEF NoForgottenSleeper
    <2>. QED
      BY <2>3, <2>4, <2>5 DEF IInv
  <1>. QED
    BY <1>1, <1>2, <1>3

\* The last reader wakes the writer, which is alone at gate 2; the first to
\* leave a full lock wakes whoever sleeps at gate 1, and that is one thread.
LEMMA UnlockSharedPreserves ==
    ASSUME IInv, NEW t \in Threads, UnlockShared(t)
    PROVE  IInv'
  <1>1. /\ pc[t] = "reading" /\ TypeOK /\ StateCounts /\ NoForgottenSleeper
        /\ write_entered' = write_entered /\ timed' = timed
        /\ num_readers' = num_readers - 1 /\ num_readers \in Nat
        /\ num_readers <= __n_readers_
    BY SharedMutexAssumption DEF UnlockShared, IInv, TypeOK
  <1>2. Moves(t, "idle")
    BY <1>1, GotoMoves DEF UnlockShared, PCs
  <1>3. /\ t \in Readers /\ Readers' = Readers \ {t}
        /\ Entered' = Entered /\ At("writing")' = At("writing")
    BY <1>1, <1>2 DEF Readers, Entered, At, Moves
  <1>4. num_readers' = Cardinality(Readers') /\ num_readers >= 1
    BY <1>1, <1>3, ReadersRemove DEF StateCounts
  <1>5. gate1' \subseteq gate1 /\ gate2' \subseteq gate2
    BY DEF UnlockShared, NotifyOne
  <1>6. TypeOK'
    <2>1. num_readers' \in 0 .. __n_readers_
      BY <1>1, <1>4, SharedMutexAssumption
    <2>2. gate1' \subseteq At("lock1")' \cup At("shared")' /\ gate2' \subseteq At("lock2")'
      BY <1>1, <1>2, <1>5 DEF TypeOK, At, Moves
    <2>. QED
      BY <1>1, <1>2, <2>1, <2>2 DEF TypeOK, Moves
  <1>7. At("writing") = {}
    BY <1>1, <1>4 DEF IInv, MutualExclusion
  <1>8. StateCounts' /\ MutualExclusion'
    BY <1>1, <1>3, <1>4, <1>7 DEF StateCounts, MutualExclusion
  <1>9. gate2' # {} => num_readers' > 0
    <2>1. CASE write_entered /\ num_readers' = 0
      <3>1. \A u, v \in gate2 : u = v
        BY <1>1 DEF TypeOK, StateCounts, Entered
      <3>2. gate2' = {} \/ \E u \in gate2 : gate2' = gate2 \ {u}
        BY <2>1 DEF UnlockShared, NotifyOne
      <3>. QED
        BY <3>1, <3>2
    <2>2. CASE ~write_entered
      BY <1>1, <1>5, <2>2 DEF TypeOK, StateCounts, Entered
    <2>. QED
      BY <1>1, <1>4, <2>1, <2>2
  <1>10. gate1' # {} => Blocked'
    <2>1. CASE write_entered
      BY <1>1, <2>1 DEF Blocked
    <2>2. CASE ~write_entered /\ num_readers # __n_readers_
      BY <1>1, <1>5, <2>2 DEF NoForgottenSleeper, Blocked
    <2>3. CASE ~write_entered /\ num_readers = __n_readers_
      <3>0. gate1 \subseteq Threads \ Readers
        BY <1>1 DEF TypeOK, Readers, At
      <3>1. \A u, v \in gate1 : u = v
        BY <2>3, <3>0, FullLeavesOne
      <3>2. gate1' = {} \/ \E u \in gate1 : gate1' = gate1 \ {u}
        BY <1>1, <2>3, SharedMutexAssumption DEF UnlockShared, NotifyOne
      <3>. QED
        BY <3>1, <3>2
    <2>. QED
      BY <2>1, <2>2, <2>3
  <1>. QED
    BY <1>6, <1>8, <1>9, <1>10 DEF IInv, NoForgottenSleeper

LEMMA SpuriousWakeupPreserves ==
    ASSUME IInv, NEW t \in Threads, SpuriousWakeup(t)
    PROVE  IInv'
  <1>1. /\ gate1' \subseteq gate1 /\ gate2' \subseteq gate2
        /\ UNCHANGED <<write_entered, num_readers, pc, timed>>
    BY DEF SpuriousWakeup
  <1>2. TypeOK'
    BY <1>1 DEF IInv, TypeOK, At
  <1>3. StateCounts' /\ MutualExclusion'
    BY <1>1 DEF IInv, StateCounts, MutualExclusion, Readers, Entered, At
  <1>4. NoForgottenSleeper'
    BY <1>1 DEF IInv, NoForgottenSleeper, Blocked
  <1>. QED
    BY <1>2, <1>3, <1>4 DEF IInv

LEMMA TimeoutGate1Preserves ==
    ASSUME IInv, NEW t \in Threads, TimeoutGate1(t)
    PROVE  IInv'
  <1>1. /\ TypeOK /\ Outside(t) /\ timed' \in [Threads -> BOOLEAN]
    BY DEF TimeoutGate1, IInv, TypeOK, At, Outside
  <1>2. ASSUME Goto(t, "idle"), gate1' = gate1 \ {t},
               UNCHANGED <<write_entered, num_readers, gate2>>
        PROVE  IInv'
    <2>1. Moves(t, "idle")
      BY <1>1, <1>2, GotoMoves DEF PCs
    <2>. QED
      BY <1>1, <1>2, <2>1, StaysOutside
  <1>. QED
    BY <1>1, <1>2, EnterOrWait1Preserves, EnterOrWaitSharedPreserves
       DEF TimeoutGate1

\* Every step of every thread preserves the invariant.
LEMMA StepPreservesIInv ==
    ASSUME IInv, NEW t \in Threads, Step(t)
    PROVE  IInv'
  <1>1. CASE Lock(t)
    BY <1>1, BeginsOutside, EnterOrWait1Preserves DEF Lock
  <1>2. CASE LockShared(t)
    BY <1>2, BeginsOutside, EnterOrWaitSharedPreserves DEF LockShared
  <1>3. CASE LockAgain(t)
    <2>1. Outside(t) /\ timed' \in [Threads -> BOOLEAN]
      BY <1>3 DEF LockAgain, Resumes, Outside, IInv, TypeOK
    <2>. QED
      BY <1>3, <2>1, EnterOrWait1Preserves DEF LockAgain
  <1>4. CASE LockSharedAgain(t)
    <2>1. Outside(t) /\ timed' \in [Threads -> BOOLEAN]
      BY <1>4 DEF LockSharedAgain, Resumes, Outside, IInv, TypeOK
    <2>. QED
      BY <1>4, <2>1, EnterOrWaitSharedPreserves DEF LockSharedAgain
  <1>. QED
    BY <1>1, <1>2, <1>3, <1>4, TryPreserves, LockGate2Preserves, UnlockPreserves,
       UnlockSharedPreserves, SpuriousWakeupPreserves, TimeoutGate1Preserves,
       TimeoutGate2Preserves DEF Step

-----------------------------------------------------------------------------
LEMMA InductiveInvariant == Spec => []IInv
  <1>1. Init => IInv
    <2> SUFFICES ASSUME Init PROVE IInv
      OBVIOUS
    <2>1. Readers = {} /\ Entered = {} /\ At("writing") = {}
      BY DEF Init, Readers, Entered, At
    <2>2. TypeOK
      <3>1. num_readers \in 0 .. __n_readers_
        BY SharedMutexAssumption DEF Init
      <3>2. pc \in [Threads -> PCs]
        BY DEF Init, PCs
      <3>3. timed \in [Threads -> BOOLEAN] /\ write_entered \in BOOLEAN
        BY DEF Init
      <3>. QED
        BY <3>1, <3>2, <3>3 DEF Init, TypeOK
    <2>3. StateCounts /\ MutualExclusion /\ NoForgottenSleeper
      BY <2>1, FS_EmptySet
         DEF Init, StateCounts, MutualExclusion, NoForgottenSleeper
    <2>. QED
      BY <2>2, <2>3 DEF IInv
  <1>2. IInv /\ [Next]_vars => IInv'
    <2> SUFFICES ASSUME IInv, [Next]_vars PROVE IInv'
      OBVIOUS
    <2>1. CASE Next
      BY <2>1, StepPreservesIInv DEF Next
    <2>2. CASE UNCHANGED vars
      BY <2>2 DEF vars, IInv, TypeOK, StateCounts, MutualExclusion,
                  NoForgottenSleeper, Blocked, Readers, Entered, At
    <2>. QED
      BY <2>1, <2>2
  <1>. QED
    BY <1>1, <1>2, PTL DEF Spec

\* Type correctness: the reader count stays within the state word, and a
\* thread sleeps only at the gate its call waits at.
THEOREM TypeCorrect == Spec => []TypeOK
  BY InductiveInvariant, PTL DEF IInv

\* The state word counts the readers inside and says whether a writer has
\* entered, through timeouts at gate 2 too.
THEOREM StateIsExact == Spec => []StateCounts
  BY InductiveInvariant, PTL DEF IInv

\* lock() and its timed forms are exclusive against readers and writers.
THEOREM Exclusion == Spec => []MutualExclusion
  BY InductiveInvariant, PTL DEF IInv

\* No wake-up is lost at either gate: notify_one is enough where the code
\* uses it, for any number of threads that the word can count but one.
THEOREM NoLostWakeup == Spec => []NoForgottenSleeper
  BY InductiveInvariant, PTL DEF IInv

-----------------------------------------------------------------------------
\* A step seen from the abstract lock: only five moves change its holders.
LEMMA MoveRefines ==
    ASSUME IInv, NEW t \in Threads, NEW to, Moves(t, to),
           \/ pc[t] \notin {"writing", "reading"} /\ to \notin {"writing", "reading"}
           \/ pc[t] # "reading" /\ to = "writing" /\ Readers = {} /\ At("writing") = {}
           \/ pc[t] = "writing" /\ to = "idle"
           \/ pc[t] \notin {"writing", "reading"} /\ to = "reading" /\ At("writing") = {}
           \/ pc[t] = "reading" /\ to = "idle"
    PROVE  [Abs!Next]_(Abs!vars)
  <1>1. CASE pc[t] \notin {"writing", "reading"} /\ to \notin {"writing", "reading"}
    BY <1>1 DEF Moves, At, Readers, Abs!vars
  <1>2. CASE pc[t] # "reading" /\ to = "writing" /\ Readers = {} /\ At("writing") = {}
    <2>1. Abs!AcquireWrite(t)
      BY <1>2 DEF Moves, At, Readers, Abs!AcquireWrite
    <2>. QED
      BY <2>1 DEF Abs!Next
  <1>3. CASE pc[t] = "writing" /\ to = "idle"
    <2>1. Abs!ReleaseWrite(t)
      BY <1>3 DEF Moves, At, Readers, Abs!ReleaseWrite
    <2>. QED
      BY <2>1 DEF Abs!Next
  <1>4. CASE pc[t] \notin {"writing", "reading"} /\ to = "reading" /\ At("writing") = {}
    <2>1. Abs!AcquireRead(t)
      BY <1>4 DEF Moves, At, Readers, Abs!AcquireRead
    <2>. QED
      BY <2>1 DEF Abs!Next
  <1>5. CASE pc[t] = "reading" /\ to = "idle"
    <2>1. Abs!ReleaseRead(t)
      BY <1>5 DEF Moves, At, Readers, Abs!ReleaseRead
    <2>. QED
      BY <2>1 DEF Abs!Next
  <1>. QED
    BY <1>1, <1>2, <1>3, <1>4, <1>5

LEMMA StepRefines ==
    ASSUME IInv, NEW t \in Threads, Step(t)
    PROVE  [Abs!Next]_(Abs!vars)
  <1>0. /\ TypeOK /\ num_readers \in Nat
        /\ ~write_entered => Entered = {} /\ At("writing") = {}
        /\ num_readers = 0 => Readers = {}
    BY SharedMutexAssumption, ReadersFinite
       DEF IInv, TypeOK, StateCounts, Entered
  <1>1. ASSUME EnterOrWait1(t), Outside(t)
        PROVE  [Abs!Next]_(Abs!vars)
    <2>1. CASE Goto(t, "lock1") \/ Goto(t, "lock2")
      <3>1. Moves(t, "lock1") \/ Moves(t, "lock2")
        BY <1>0, <2>1, GotoMoves DEF PCs
      <3>. QED
        BY <3>1, <1>1, MoveRefines DEF Outside
    <2>2. CASE Goto(t, "writing") /\ ~write_entered /\ ~(num_readers > 0)
      <3>1. Moves(t, "writing")
        BY <1>0, <2>2, GotoMoves DEF PCs
      <3>2. Readers = {} /\ At("writing") = {}
        BY <1>0, <2>2
      <3>. QED
        BY <3>1, <3>2, <1>1, MoveRefines DEF Outside
    <2>. QED
      BY <1>1, <2>1, <2>2 DEF EnterOrWait1
  <1>2. ASSUME EnterOrWaitShared(t), Outside(t)
        PROVE  [Abs!Next]_(Abs!vars)
    <2>1. CASE Goto(t, "shared")
      <3>1. Moves(t, "shared")
        BY <1>0, <2>1, GotoMoves DEF PCs
      <3>. QED
        BY <3>1, <1>2, MoveRefines DEF Outside
    <2>2. CASE Goto(t, "reading") /\ ~Blocked
      <3>1. Moves(t, "reading")
        BY <1>0, <2>2, GotoMoves DEF PCs
      <3>2. At("writing") = {}
        BY <1>0, <2>2 DEF Blocked
      <3>. QED
        BY <3>1, <3>2, <1>2, MoveRefines DEF Outside
    <2>. QED
      BY <1>2, <2>1, <2>2 DEF EnterOrWaitShared
  <1>3. CASE Lock(t) \/ LockAgain(t)
    BY <1>1, <1>3 DEF Lock, LockAgain, Begins, Resumes, Outside
  <1>4. CASE LockShared(t) \/ LockSharedAgain(t)
    BY <1>2, <1>4 DEF LockShared, LockSharedAgain, Begins, Resumes, Outside
  <1>5. CASE LockGate2(t)
    <2>1. CASE num_readers > 0
      BY <1>5, <2>1 DEF LockGate2, Abs!vars, At, Readers
    <2>2. CASE ~(num_readers > 0)
      <3>1. Goto(t, "writing") /\ pc[t] = "lock2"
        BY <1>5, <2>2 DEF LockGate2, Resumes
      <3>2. Moves(t, "writing")
        BY <1>0, <3>1, GotoMoves DEF PCs
      <3>3. Readers = {} /\ At("writing") = {}
        BY <1>0, <2>2, <3>1, AloneAtGate2 DEF Entered, At
      <3>. QED
        BY <3>1, <3>2, <3>3, MoveRefines
    <2>. QED
      BY <2>1, <2>2
  <1>6. CASE TryLock(t)
    <2>1. Goto(t, "writing") /\ pc[t] = "idle" /\ Readers = {} /\ At("writing") = {}
      BY <1>0, <1>6 DEF TryLock
    <2>2. Moves(t, "writing")
      BY <1>0, <2>1, GotoMoves DEF PCs
    <2>. QED
      BY <2>1, <2>2, MoveRefines
  <1>7. CASE TryLockShared(t)
    <2>1. Goto(t, "reading") /\ pc[t] = "idle" /\ At("writing") = {}
      BY <1>0, <1>7 DEF TryLockShared, Blocked
    <2>2. Moves(t, "reading")
      BY <1>0, <2>1, GotoMoves DEF PCs
    <2>. QED
      BY <2>1, <2>2, MoveRefines
  <1>8. CASE Unlock(t) \/ UnlockShared(t)
    <2>1. Goto(t, "idle") /\ pc[t] \in {"writing", "reading"}
      BY <1>8 DEF Unlock, UnlockShared
    <2>2. Moves(t, "idle")
      BY <1>0, <2>1, GotoMoves DEF PCs
    <2>. QED
      BY <2>1, <2>2, MoveRefines
  <1>9. CASE SpuriousWakeup(t)
    BY <1>9 DEF SpuriousWakeup, Abs!vars, At, Readers
  <1>10. CASE TimeoutGate1(t)
    <2>1. Outside(t)
      BY <1>0, <1>10 DEF TimeoutGate1, TypeOK, At, Outside
    <2>2. ASSUME Goto(t, "idle") PROVE [Abs!Next]_(Abs!vars)
      <3>1. Moves(t, "idle")
        BY <1>0, <2>2, GotoMoves DEF PCs
      <3>. QED
        BY <2>1, <3>1, MoveRefines DEF Outside
    <2>. QED
      BY <1>1, <1>2, <1>10, <2>1, <2>2 DEF TimeoutGate1
  <1>11. CASE TimeoutGate2(t)
    <2>1. pc[t] = "lock2" /\ (num_readers = 0 \/ num_readers > 0)
      BY <1>0, <1>11 DEF TimeoutGate2, TypeOK, At
    <2>2. CASE num_readers = 0 /\ Goto(t, "writing")
      <3>1. Moves(t, "writing")
        BY <1>0, <2>2, GotoMoves DEF PCs
      <3>2. Readers = {} /\ At("writing") = {}
        BY <1>0, <2>1, <2>2, AloneAtGate2 DEF Entered, At
      <3>. QED
        BY <2>1, <3>1, <3>2, MoveRefines
    <2>3. CASE Goto(t, "idle")
      <3>1. Moves(t, "idle")
        BY <1>0, <2>3, GotoMoves DEF PCs
      <3>. QED
        BY <2>1, <3>1, MoveRefines
    <2>. QED
      BY <1>11, <2>2, <2>3 DEF TimeoutGate2
  <1>. QED
    BY <1>3, <1>4, <1>5, <1>6, <1>7, <1>8, <1>9, <1>10, <1>11 DEF Step

\* libc++'s shared_timed_mutex implements the abstract reader-writer lock that
\* the sanitizers' RWMutex implements too.
THEOREM RefinesRWLock == Spec => AbsSpec
  <1>1. Init => Abs!Init
    BY DEF Init, Abs!Init, At, Readers
  <1>2. IInv /\ [Next]_vars => [Abs!Next]_(Abs!vars)
    <2>1. ASSUME IInv, Next PROVE [Abs!Next]_(Abs!vars)
      BY <2>1, StepRefines DEF Next
    <2>2. ASSUME UNCHANGED vars PROVE UNCHANGED Abs!vars
      BY <2>2 DEF vars, Abs!vars, At, Readers
    <2>. QED
      BY <2>1, <2>2
  <1>. QED
    BY <1>1, <1>2, InductiveInvariant, PTL DEF Spec, AbsSpec, Abs!Spec
=============================================================================
