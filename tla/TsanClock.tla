----------------------------- MODULE TsanClock -----------------------------
(***************************************************************************)
(* The vector clocks of ThreadSanitizer, compiler-rt/lib/tsan/rtl/         *)
(* tsan_clock.cc: the operations of ThreadClock and SyncClock as functions *)
(* of a thread clock T and a sync clock S.                                 *)
(*                                                                         *)
(* A sync clock remembers, next to the epochs, which thread incarnations   *)
(* have acquired it (reused), up to kDirtyTids components that changed     *)
(* since (dirty_tids), and which thread stored it last (release_store).    *)
(* With these an acquire, a release or a release-store often touches one   *)
(* component instead of all of them.                                       *)
(*                                                                         *)
(* The two-level table behind SyncClock::elem is a layout of the array     *)
(* that is modelled here; elements at or above size are zero.  The slots   *)
(* of dirty_tids fill from the left and are cleared together, so they are  *)
(* a set.                                                                  *)
(***************************************************************************)
EXTENDS ThreadIds, FiniteSets

CONSTANT kDirtyTids         \* number of slots of dirty_tids

ASSUME ClockAssumption == kDirtyTids \in Nat

kInvalidTid == -1

Maximum(a, b) == IF a < b THEN b ELSE a

Vector    == [Tids -> Nat]
ZeroClock == [i \in Tids |-> 0]

\* The members of a ThreadClock and of a SyncClock.
ThreadClock ==
    [tid : Tids, reused : Nat, nclk : 0 .. max_threads,
     last_acquire : Nat, clk : Vector]
SyncClock ==
    [size : 0 .. max_threads, epoch : Vector, reused : Vector,
     dirty : SUBSET Tids, release_store_tid : Tids \cup {kInvalidTid},
     release_store_reused : Nat]

\* ThreadClock::ThreadClock(tid, reused): 0 is kept for "acquired by nobody".
NewThreadClock(tid, reused) ==
    [tid |-> tid, reused |-> reused + 1, nclk |-> tid + 1,
     last_acquire |-> 0, clk |-> ZeroClock]

\* SyncClock::SyncClock() and the state SyncClock::Reset leaves.
EmptySyncClock ==
    [size |-> 0, epoch |-> ZeroClock, reused |-> ZeroClock, dirty |-> {},
     release_store_tid |-> kInvalidTid, release_store_reused |-> 0]

\* ThreadClock::set(v): the thread's own time, at most once per operation.
SetOwn(T, v) == [T EXCEPT !.clk = [T.clk EXCEPT ![T.tid] = v]]

\* ThreadClock::set(tid, v), which counts as an acquire.
SetOther(T, tid, v) ==
    LET clk == [T.clk EXCEPT ![tid] = v]
    IN  [T EXCEPT !.clk = clk,
                  !.nclk = Maximum(@, tid + 1),
                  !.last_acquire = clk[T.tid]]

-----------------------------------------------------------------------------
(* Acquire *)

\* The flag that says T's thread has acquired S since S last lost its flags.
HasAcquired(T, S) == T.tid < S.size /\ S.reused[T.tid] = T.reused

\* Plausible slip: a flagged thread skips the dirty components as well.
ComponentsToAcquire_NoDirty(T, S) ==
    IF HasAcquired(T, S) THEN {} ELSE {i \in Tids : i < S.size}

\* The components ThreadClock::acquire looks at.
ComponentsToAcquire(T, S) ==
    IF HasAcquired(T, S) THEN S.dirty ELSE {i \in Tids : i < S.size}

\* Plausible slip: the O(1) path does not count as an acquire.
AcquireThread_RepeatForgets(T, S) ==
    LET from == ComponentsToAcquire(T, S)
        clk  == [i \in Tids |-> IF i \in from
                                THEN Maximum(T.clk[i], S.epoch[i])
                                ELSE T.clk[i]]
    IN  [T EXCEPT !.clk = clk,
                  !.nclk = IF HasAcquired(T, S) THEN @ ELSE Maximum(@, S.size),
                  !.last_acquire = IF HasAcquired(T, S) \/ clk = T.clk
                                   THEN @ ELSE clk[T.tid]]

\* Plausible slip: the effective size of the thread clock does not grow.
AcquireThread_KeepSize(T, S) ==
    LET from == ComponentsToAcquire(T, S)
        clk  == [i \in Tids |-> IF i \in from
                                THEN Maximum(T.clk[i], S.epoch[i])
                                ELSE T.clk[i]]
    IN  [T EXCEPT !.clk = clk,
                  !.last_acquire = IF clk = T.clk THEN @ ELSE clk[T.tid]]

\* ThreadClock::acquire: what it does to the thread's clock ...
AcquireThread(T, S) ==
    LET from == ComponentsToAcquire(T, S)
        clk  == [i \in Tids |-> IF i \in from
                                     THEN Maximum(T.clk[i], S.epoch[i])
                                     ELSE T.clk[i]]
    IN  [T EXCEPT !.clk = clk,
                  !.nclk = IF HasAcquired(T, S) THEN @ ELSE Maximum(@, S.size),
                  !.last_acquire = IF clk = T.clk THEN @ ELSE clk[T.tid]]

\* ... and to the sync clock, which is const but for the flag.
AcquireSync(T, S) ==
    IF T.tid < S.size
    THEN [S EXCEPT !.reused = [S.reused EXCEPT ![T.tid] = T.reused]]
    ELSE S

-----------------------------------------------------------------------------
(* Release *)

\* SyncClock::Resize, where the callers need it: it never shrinks.
Resize(S, nclk) == [S EXCEPT !.size = Maximum(@, nclk)]

\* Plausible slip: the slots overflow and the flags stay.
UpdateCurrentThread_KeepFlags(T, S) ==
    LET epoch == [S.epoch EXCEPT ![T.tid] = T.clk[T.tid]]
    IN  IF T.tid \in S.dirty \/ Cardinality(S.dirty) < kDirtyTids
        THEN [S EXCEPT !.epoch = epoch, !.dirty = @ \cup {T.tid}]
        ELSE [S EXCEPT !.epoch = epoch, !.dirty = {}]

\* ThreadClock::UpdateCurrentThread: one component changes and is noted as
\* dirty; without a free slot every thread has to acquire all of S again.
UpdateCurrentThread(T, S) ==
    LET epoch == [S.epoch EXCEPT ![T.tid] = T.clk[T.tid]]
    IN  IF T.tid \in S.dirty \/ Cardinality(S.dirty) < kDirtyTids
        THEN [S EXCEPT !.epoch = epoch, !.dirty = @ \cup {T.tid}]
        ELSE [S EXCEPT !.epoch = epoch, !.dirty = {}, !.reused = ZeroClock]

\* ThreadClock::IsAlreadyAcquired.
IsAlreadyAcquired(T, S) ==
    /\ S.reused[T.tid] = T.reused
    /\ \A i \in S.dirty : T.clk[i] >= S.epoch[i]

\* No component but its own has changed in T since T wrote S.
NothingNew(T, S) == S.epoch[T.tid] > T.last_acquire

StoredBy(T, S) ==
    S.release_store_tid = T.tid /\ S.release_store_reused = T.reused

\* ThreadClock::ReleaseStore.
ReleaseStoreSync(T, S0) ==
    LET S == Resize(S0, T.nclk)
    IN  IF StoredBy(T, S) /\ NothingNew(T, S)
        THEN UpdateCurrentThread(T, S)
        ELSE [size |-> S.size,
              epoch |-> [i \in Tids |-> IF i < T.nclk THEN T.clk[i] ELSE 0],
              reused |-> [ZeroClock EXCEPT ![T.tid] = T.reused],
              dirty |-> {},
              release_store_tid |-> T.tid,
              release_store_reused |-> T.reused]

\* ThreadClock::release on a clock that is not empty, without the O(1) path.
FullRelease(T, S) ==
    [size |-> S.size,
     epoch |-> [i \in Tids |-> IF i < T.nclk
                                    THEN Maximum(S.epoch[i], T.clk[i])
                                    ELSE S.epoch[i]],
     reused |-> IF IsAlreadyAcquired(T, S)
                THEN [ZeroClock EXCEPT ![T.tid] = T.reused] ELSE ZeroClock,
     dirty |-> {},
     release_store_tid |-> kInvalidTid,
     release_store_reused |-> 0]

\* The O(1) path of ThreadClock::release.
FastRelease(T, S) ==
    LET U == UpdateCurrentThread(T, S)
    IN  IF StoredBy(T, S) THEN U
        ELSE [U EXCEPT !.release_store_tid = kInvalidTid]

\* ThreadClock::release.
ReleaseSync(T, S0) ==
    LET S == Resize(S0, T.nclk)
    IN  IF S0.size = 0 THEN ReleaseStoreSync(T, S0)
        ELSE IF NothingNew(T, S) THEN FastRelease(T, S) ELSE FullRelease(T, S)
=============================================================================
