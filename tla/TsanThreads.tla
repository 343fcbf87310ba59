---------------------------- MODULE TsanThreads ----------------------------
(***************************************************************************)
(* Threads and sync objects of a program under ThreadSanitizer: the thread *)
(* registry composed with the thread contexts of tsan_rtl_thread.cc, whose *)
(* callbacks keep the clocks, and the synchronisation operations of        *)
(* tsan_rtl_mutex.cc and tsan_interface_atomic.cc.  A sync clock is only   *)
(* used under its object's mutex (acquires under a shared lock, and then a *)
(* thread writes nothing but its own flag), so an operation is one step.   *)
(***************************************************************************)
EXTENDS ThreadRegistry, TsanClock

CONSTANTS Syncs,            \* mutexes, atomics and the like
          kTracePartSize,   \* a new thread's epoch starts a new trace part
          MaxEpoch          \* bound: largest epoch of a thread

ASSUME TsanAssumption ==
    /\ kTracePartSize \in Nat \ {0}
    /\ MaxEpoch \in Nat /\ kTracePartSize <= MaxEpoch
    /\ Syncs \cap Tids = {}

VARIABLES epoch,            \* fast_state.epoch() of a running thread, then epoch1
          clock,            \* ThreadState::clock by tid
          sync,             \* SyncClock of each sync object and, under the
                            \* tid, ThreadContext::sync
          global            \* AcquireGlobal in progress: caller and next tid

clockVars == <<epoch, clock, sync>>
vars == <<registryVars, clockVars, global>>

Objects   == Syncs \cup Tids
NoGlobal  == [tid |-> kInvalidTid, next |-> 0]
Running   == {t \in Tids : status[t] = "Running"}
RegistryUnlocked == global = NoGlobal

\* RoundUp(epoch1 + 1, kTracePartSize): the next multiple after epoch1.
FirstEpoch(epoch1) == epoch1 + kTracePartSize - (epoch1 % kTracePartSize)

Init ==
    /\ RegistryInit
    /\ epoch = [t \in Tids |-> IF t = 0 THEN FirstEpoch(0) ELSE 0]
    /\ clock = [t \in Tids |-> IF t = 0
                               THEN SetOwn(NewThreadClock(0, 0), FirstEpoch(0))
                               ELSE NewThreadClock(t, 0)]
    /\ sync = [o \in Objects |-> EmptySyncClock]
    /\ global = NoGlobal

-----------------------------------------------------------------------------
(* AcquireImpl, ReleaseImpl, ReleaseStoreImpl, AcquireReleaseImpl.  Each     *)
(* brings the thread's own component up to date first; e is its epoch.      *)

AcquireImpl(t, o, e) ==
    LET T == SetOwn(clock[t], e)
    IN  /\ clock' = [clock EXCEPT ![t] = AcquireThread(T, sync[o])]
        /\ sync' = [sync EXCEPT ![o] = AcquireSync(T, sync[o])]

ReleaseImpl(t, o, e) ==
    LET T == SetOwn(clock[t], e)
    IN  /\ clock' = [clock EXCEPT ![t] = T]
        /\ sync' = [sync EXCEPT ![o] = ReleaseSync(T, sync[o])]

ReleaseStoreImpl(t, o, e) ==
    LET T == SetOwn(clock[t], e)
    IN  /\ clock' = [clock EXCEPT ![t] = T]
        /\ sync' = [sync EXCEPT ![o] = ReleaseStoreSync(T, sync[o])]

AcquireReleaseImpl(t, o, e) ==
    LET T == SetOwn(clock[t], e)
        U == AcquireThread(T, sync[o])
    IN  /\ clock' = [clock EXCEPT ![t] = U]
        /\ sync' = [sync EXCEPT ![o] = ReleaseStoreSync(U, AcquireSync(T, sync[o]))]

\* A thread may not synchronise while it is inside AcquireGlobal.
MayRun(t) == t \in Running /\ global.tid # t

IncrementEpoch(t) ==
    /\ epoch[t] < MaxEpoch
    /\ epoch' = [epoch EXCEPT ![t] = @ + 1]

-----------------------------------------------------------------------------
(* What the program does *)

\* A memory access.
Access(t) ==
    /\ MayRun(t)
    /\ IncrementEpoch(t)
    /\ UNCHANGED <<registryVars, clock, sync, global>>

\* Acquire, AtomicLoad, MutexReadLock.
Acquire(t, s) ==
    /\ MayRun(t)
    /\ AcquireImpl(t, s, epoch[t])
    /\ UNCHANGED <<registryVars, epoch, global>>

\* Release, AtomicStore, MutexReadUnlock.
Release(t, s) ==
    /\ MayRun(t)
    /\ IncrementEpoch(t)
    /\ ReleaseImpl(t, s, epoch[t] + 1)
    /\ UNCHANGED <<registryVars, global>>

\* ReleaseStore, MutexUnlock.
ReleaseStore(t, s) ==
    /\ MayRun(t)
    /\ IncrementEpoch(t)
    /\ ReleaseStoreImpl(t, s, epoch[t] + 1)
    /\ UNCHANGED <<registryVars, global>>

\* AtomicRMW.
AcquireRelease(t, s) ==
    /\ MayRun(t)
    /\ IncrementEpoch(t)
    /\ AcquireReleaseImpl(t, s, epoch[t] + 1)
    /\ UNCHANGED <<registryVars, global>>

\* SyncVar::Reset when the memory of the object is freed.
SyncReset(t, s) ==
    /\ MayRun(t)
    /\ sync[s] # EmptySyncClock
    /\ sync' = [sync EXCEPT ![s] = EmptySyncClock]
    /\ UNCHANGED <<registryVars, epoch, clock, global>>

-----------------------------------------------------------------------------
(* Threads: a registry method with its ThreadContext callback *)

\* ThreadCreate by t, with OnCreated.
ThreadCreate(t, tid) ==
    \E isDetached \in BOOLEAN :
        /\ MayRun(t) /\ RegistryUnlocked
        /\ CreateThread(tid, isDetached)
        /\ IncrementEpoch(t)
        /\ ReleaseImpl(t, tid, epoch[t] + 1)
        /\ UNCHANGED global

\* ThreadStart by the new thread, with OnStarted: a new ThreadState acquires
\* and resets the context's sync clock.
ThreadStart(tid) ==
    LET e == FirstEpoch(epoch[tid])
        T == SetOwn(NewThreadClock(tid, reuse_count[tid]), e)
    IN  /\ RegistryUnlocked
        /\ e <= MaxEpoch
        /\ StartThread(tid)
        /\ epoch' = [epoch EXCEPT ![tid] = e]
        /\ clock' = [clock EXCEPT ![tid] = AcquireThread(T, sync[tid])]
        /\ sync' = [sync EXCEPT ![tid] = EmptySyncClock]
        /\ UNCHANGED global

\* Plausible slip: a detached thread releases into its context as well.
ThreadFinish_AlwaysRelease(tid) ==
    /\ MayRun(tid) /\ RegistryUnlocked /\ tid # 0
    /\ FinishThread(tid)
    /\ IncrementEpoch(tid)
    /\ ReleaseImpl(tid, tid, epoch[tid] + 1)
    /\ UNCHANGED global

\* ThreadFinish, with OnFinished: only a thread somebody may join releases.
ThreadFinish(tid) ==
    /\ MayRun(tid) /\ RegistryUnlocked /\ tid # 0
    /\ FinishThread(tid)
    /\ IF detached[tid]
       THEN UNCHANGED clockVars
       ELSE IncrementEpoch(tid) /\ ReleaseImpl(tid, tid, epoch[tid] + 1)
    /\ UNCHANGED global

\* ThreadJoin by t, with OnJoined.  The interceptor finds tid by its user id,
\* which a dead context has no more.
ThreadJoin(t, tid) ==
    LET T == SetOwn(clock[t], epoch[t])
    IN  /\ MayRun(t) /\ RegistryUnlocked
        /\ status[tid] # "Invalid"
        /\ JoinThread(tid)
        /\ clock' = [clock EXCEPT ![t] = AcquireThread(T, sync[tid])]
        /\ sync' = [sync EXCEPT ![tid] = EmptySyncClock]
        /\ UNCHANGED <<epoch, global>>

\* ThreadDetach by t, with OnDetached, of a tid found in the same way; there
\* is no user id to detach before the new thread has started.
ThreadDetach(t, tid) ==
    /\ MayRun(t) /\ RegistryUnlocked /\ tid # 0
    /\ status[tid] \in {"Running", "Finished"}
    /\ DetachThread(tid)
    /\ sync' = [sync EXCEPT ![tid] = EmptySyncClock]
    /\ UNCHANGED <<epoch, clock, global>>

-----------------------------------------------------------------------------
(* AcquireGlobal: under the registry's lock, one UpdateClockCallback after   *)
(* the other, while the other threads run on.                               *)

AcquireGlobal(t) ==
    /\ MayRun(t) /\ RegistryUnlocked
    /\ global' = [tid |-> t, next |-> 0]
    /\ UNCHANGED <<registryVars, clockVars>>

UpdateClockCallback ==
    /\ ~RegistryUnlocked
    /\ clock' = [clock EXCEPT ![global.tid] =
                     SetOther(@, global.next, epoch[global.next])]
    /\ global' = IF global.next + 1 < n_contexts_
                 THEN [global EXCEPT !.next = @ + 1] ELSE NoGlobal
    /\ UNCHANGED <<registryVars, epoch, sync>>

-----------------------------------------------------------------------------
Next ==
    \/ \E t \in Tids :
          \/ Access(t) \/ ThreadStart(t) \/ ThreadFinish(t)
          \/ \E tid \in Tids :
                ThreadCreate(t, tid) \/ ThreadJoin(t, tid) \/ ThreadDetach(t, tid)
          \/ \E s \in Syncs :
                \/ Acquire(t, s) \/ Release(t, s) \/ ReleaseStore(t, s)
                \/ AcquireRelease(t, s) \/ SyncReset(t, s)

Spec == Init /\ [][Next]_vars

\* The same program with finalizers.
GlobalNext ==
    \/ Next
    \/ \E t \in Tids : AcquireGlobal(t)
    \/ UpdateClockCallback

GlobalSpec == Init /\ [][GlobalNext]_vars

-----------------------------------------------------------------------------
(* Properties *)

TypeOK ==
    /\ RegistryTypeOK
    /\ epoch \in [Tids -> 0 .. MaxEpoch]
    /\ clock \in [Tids -> ThreadClock]
    /\ \A t \in Tids : clock[t].tid = t
    /\ sync \in [Objects -> SyncClock]
    /\ global \in [tid : Tids \cup {kInvalidTid}, next : Tids]

\* The clocks seen as those of the simple model.
HB == INSTANCE HappensBefore WITH
        tclock <- [t \in Tids |-> clock[t].clk],
        sclock <- [o \in Objects |-> sync[o].epoch]

\* "Together they implement very simple model of operations": every operation
\* has the effect of its namesake in the model.  No acquire is skipped that
\* had something to bring, no release leaves a component behind, and no
\* release-store keeps a component it should overwrite; a new thread starts
\* with its creator's knowledge and not with that of its tid's last owner, and
\* whoever joins it has all it knew.
OperationsConform ==
    [][\A t \in Tids :
         /\ \A s \in Syncs :
               /\ Acquire(t, s) => HB!Acquire(t, s)
               /\ Release(t, s) => HB!Release(t, s)
               /\ ReleaseStore(t, s) => HB!ReleaseStore(t, s)
               /\ AcquireRelease(t, s) => HB!AcquireRelease(t, s)
         /\ \A tid \in Tids :
               /\ ThreadCreate(t, tid) => HB!ReleaseStore(t, tid)
               /\ ThreadJoin(t, tid) => HB!AcquireAndForget(t, tid)
         /\ ThreadStart(t) => HB!Begin(t, t)
         /\ ThreadFinish(t) /\ ~detached[t] => HB!ReleaseStore(t, t)]_vars

\* When release takes its O(1) path there is nothing it leaves out: the sync
\* clock already covers every component of the thread but its own.
FastReleaseSound ==
    \A t \in Running, o \in Syncs :
        NothingNew(clock[t], sync[o]) =>
            \A i \in Tids \ {t} : clock[t].clk[i] <= sync[o].epoch[i]

\* A thread whose flag is set has acquired all of the clock but the dirty
\* components, also when its tid had another owner before.
FlagSound ==
    \A t \in Running, o \in Syncs :
        HasAcquired(clock[t], sync[o]) =>
            \A i \in Tids \ (sync[o].dirty \cup {t}) :
                sync[o].epoch[i] <= clock[t].clk[i]

\* Nothing above the effective sizes nclk and size is ever lost: the loops of
\* release and acquire that stop there see every component that is not zero,
\* and no access to SyncClock::elem is out of range (its DCHECK_LT).
SizesCover ==
    /\ \A t \in Running, i \in Tids : clock[t].clk[i] # 0 => i < clock[t].nclk
    /\ \A o \in Objects, i \in Tids :
          sync[o].epoch[i] # 0 \/ i \in sync[o].dirty => i < sync[o].size

\* The sync clock of a context is in use only between creation and start and
\* between finish and join, so a running thread has none to leave behind when
\* it dies: the CHECK_EQ(sync.size(), 0) of OnDead and OnReset.
ContextSyncEmpty ==
    \A t \in Tids : status[t] \notin {"Created", "Finished"} => sync[t].size = 0

-----------------------------------------------------------------------------
(* The inductive invariant behind these, in parts that relate one thread    *)
(* clock T and one sync clock S, or two thread clocks, under the times E.   *)

\* A clock is below the present, covered by its size, and its owner has
\* acquired nothing in the future.
ThreadOK(T, E) ==
    /\ T.tid < T.nclk /\ T.reused # 0
    /\ T.last_acquire <= T.clk[T.tid]
    /\ \A i \in Tids : T.clk[i] <= E[i] /\ (T.clk[i] # 0 => i < T.nclk)

SyncOK(S, E) ==
    \A i \in Tids :
        /\ S.epoch[i] <= E[i]
        /\ S.epoch[i] # 0 \/ S.reused[i] # 0 \/ i \in S.dirty => i < S.size

\* Clock c has seen T's thread after its last acquire, so it has seen all
\* that T's thread has.
Covers(c, T) ==
    c[T.tid] > T.last_acquire =>
        \A i \in Tids \ {T.tid} : T.clk[i] <= c[i]

\* What the three shortcuts of tsan_clock.cc rest on.
PairOK(T, S) ==
    /\ Covers(S.epoch, T)
    /\ HasAcquired(T, S) =>
          \A i \in Tids \ {T.tid} :
              /\ i \notin S.dirty => S.epoch[i] <= T.clk[i]
              /\ S.epoch[i] # 0 => i < T.nclk
    /\ StoredBy(T, S) =>
          \A i \in Tids \ {T.tid} : S.epoch[i] <= T.clk[i]

\* The number of threads that a context has been, the present one included.
Incarnation(t) ==
    reuse_count[t] + (IF status[t] \in {"Invalid", "Created"} THEN 0 ELSE 1)

\* No flag is left from the future of a context.
ReuseOK ==
    /\ \A t \in Running : clock[t].reused = Incarnation(t)
    /\ \A o \in Objects, t \in Tids :
          /\ sync[o].reused[t] <= Incarnation(t)
          /\ sync[o].release_store_tid = t =>
                sync[o].release_store_reused <= Incarnation(t)

ClocksOK ==
    /\ \A t \in Tids, i \in Tids : clock[t].clk[i] <= epoch[i]
    /\ \A t \in Running : ThreadOK(clock[t], epoch)
    /\ \A o \in Objects : SyncOK(sync[o], epoch)
    /\ \A t \in Running, o \in Objects : PairOK(clock[t], sync[o])
    /\ \A t, u \in Running : t # u => Covers(clock[u].clk, clock[t])

IInv ==
    /\ TypeOK /\ ListsMatchStatus /\ CountersMatchStatus
    /\ ClocksOK /\ ReuseOK /\ ContextSyncEmpty
    /\ global = NoGlobal
=============================================================================
