------------------------------- MODULE RWMutex -------------------------------
(***************************************************************************)
(* The reader-writer spin mutex of the sanitizer runtimes,                 *)
(* compiler-rt/lib/sanitizer_common/sanitizer_mutex.h, class RWMutex.      *)
(*                                                                         *)
(* One word holds the whole lock: bit 0 is the write lock, the rest counts *)
(* readers.  A reader counts itself in BEFORE it knows whether a writer    *)
(* holds the lock, so the count includes readers that still spin; a writer *)
(* waits until the whole word is zero.  Every atomic operation on the word *)
(* is a step of its own.                                                   *)
(***************************************************************************)
EXTENDS Integers, FiniteSets

CONSTANTS Threads,      \* the threads that use the mutex
          WordSize      \* number of values of the u32 state_ word

ASSUME RWMutexAssumption ==
    /\ IsFiniteSet(Threads)
    /\ WordSize \in Nat
    /\ 2 * Cardinality(Threads) + 1 < WordSize

kUnlocked  == 0
kWriteLock == 1
kReadLock  == 2

VARIABLES state_,       \* the mutex word
          pc            \* where each thread is in its call

vars == <<state_, pc>>

\* The places a thread can be in: outside, in LockSlow before its load and
\* before its compare-exchange, in ReadLockSlow, holding the lock.
PCs == {"idle", "LockSlow", "LockCAS", "ReadLockSlow", "writing", "reading"}

Word(x)        == x % WordSize       \* unsigned wrap-around of state_
WriteBit(word) == word % 2           \* word & kWriteLock

Goto(t, from, to) ==
    /\ pc[t] = from
    /\ pc' = [pc EXCEPT ![t] = to]

Init ==
    /\ state_ = kUnlocked
    /\ pc = [t \in Threads |-> "idle"]

-----------------------------------------------------------------------------
(* Exclusive side *)

\* Plausible slip: the fast path tests only the write bit.
Lock_WriteBitOnly(t) ==
    \/ /\ WriteBit(state_) = 0
       /\ state_' = Word(state_ + kWriteLock)
       /\ Goto(t, "idle", "writing")
    \/ /\ WriteBit(state_) # 0
       /\ UNCHANGED state_
       /\ Goto(t, "idle", "LockSlow")

\* Lock(): one strong compare-exchange, then LockSlow().
Lock(t) ==
    \/ /\ state_ = kUnlocked
       /\ state_' = kWriteLock
       /\ Goto(t, "idle", "writing")
    \/ /\ state_ # kUnlocked
       /\ UNCHANGED state_
       /\ Goto(t, "idle", "LockSlow")

\* LockSlow(): the relaxed load; only a zero word leads to the exchange.
LockSlowLoad(t) ==
    /\ state_ = kUnlocked
    /\ UNCHANGED state_
    /\ Goto(t, "LockSlow", "LockCAS")

\* LockSlow(): the weak compare-exchange, which may also fail spuriously.
LockSlowCAS(t) ==
    \/ /\ state_ = kUnlocked
       /\ state_' = kWriteLock
       /\ Goto(t, "LockCAS", "writing")
    \/ /\ UNCHANGED state_
       /\ Goto(t, "LockCAS", "LockSlow")

\* Plausible slip: give the lock back by storing zero, which forgets the
\* readers that counted themselves in while the writer held it.
Unlock_StoreZero(t) ==
    /\ state_' = kUnlocked
    /\ Goto(t, "writing", "idle")

\* Unlock(): fetch_sub of kWriteLock.
Unlock(t) ==
    /\ state_' = Word(state_ - kWriteLock)
    /\ Goto(t, "writing", "idle")

-----------------------------------------------------------------------------
(* Shared side *)

\* ReadLock(): fetch_add of kReadLock, then ReadLockSlow() if a writer held it.
ReadLock(t) ==
    /\ state_' = Word(state_ + kReadLock)
    /\ \/ WriteBit(state_) = 0 /\ Goto(t, "idle", "reading")
       \/ WriteBit(state_) # 0 /\ Goto(t, "idle", "ReadLockSlow")

\* Plausible slip: spin for a completely free word, as LockSlow does.
ReadLockSlow_WholeWord(t) ==
    /\ state_ = kUnlocked
    /\ UNCHANGED state_
    /\ Goto(t, "ReadLockSlow", "reading")

\* ReadLockSlow(): the load that ends the spin.
ReadLockSlow(t) ==
    /\ WriteBit(state_) = 0
    /\ UNCHANGED state_
    /\ Goto(t, "ReadLockSlow", "reading")

\* ReadUnlock(): fetch_sub of kReadLock.
ReadUnlock(t) ==
    /\ state_' = Word(state_ - kReadLock)
    /\ Goto(t, "reading", "idle")

-----------------------------------------------------------------------------
Step(t) ==
    \/ Lock(t) \/ LockSlowLoad(t) \/ LockSlowCAS(t) \/ Unlock(t)
    \/ ReadLock(t) \/ ReadLockSlow(t) \/ ReadUnlock(t)

Next == \E t \in Threads : Step(t)

Spec == Init /\ [][Next]_vars

\* A thread inside the mutex code or inside its critical section is not
\* stopped for ever by the scheduler, and leaves its critical section.
Fairness ==
    \A t \in Threads :
        /\ WF_vars(Unlock(t))
        /\ WF_vars(ReadUnlock(t))
        /\ WF_vars(ReadLockSlow(t))

FairSpec == Spec /\ Fairness

-----------------------------------------------------------------------------
(* Properties *)

At(place) == {t \in Threads : pc[t] = place}
Counted   == At("reading") \cup At("ReadLockSlow")

TypeOK ==
    /\ state_ \in 0 .. WordSize - 1
    /\ pc \in [Threads -> PCs]

\* The word never drifts from the threads it stands for: the write bit is set
\* exactly while some thread holds the lock for writing and the reader field
\* counts exactly the readers inside and the readers spinning in ReadLockSlow.
WordCounts ==
    state_ = (IF At("writing") = {} THEN 0 ELSE kWriteLock)
             + kReadLock * Cardinality(Counted)

\* Lock() gives exclusive and ReadLock() shared ownership: a writer is alone.
MutualExclusion ==
    /\ \A t, u \in At("writing") : t = u
    /\ At("writing") # {} => At("reading") = {}

\* The debug checks of Unlock (prev & kWriteLock is not 0) and ReadUnlock
\* (prev & kWriteLock is 0 and prev & ~kWriteLock is not) cannot fire for a
\* caller that holds the lock.
DebugChecksHold ==
    /\ At("writing") # {} => WriteBit(state_) = 1
    /\ At("reading") # {} => WriteBit(state_) = 0 /\ state_ >= kReadLock

\* The inductive invariant behind the three.
IInv == TypeOK /\ WordCounts /\ MutualExclusion

\* RWMutex implements the abstract reader-writer lock.
Abs == INSTANCE RWLock WITH writers <- At("writing"), readers <- At("reading")
AbsSpec == Abs!Spec

\* A reader that spins in ReadLockSlow gets in: it is already counted, so no
\* writer can take the lock again before it.
SpinningReaderGetsIn ==
    \A t \in Threads : pc[t] = "ReadLockSlow" ~> pc[t] = "reading"
=============================================================================
