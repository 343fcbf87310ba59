# A TLA+ verification project for the LLVM tree

The repository is a monorepo of LLVM projects: `clang`, `llvm`, `lld`, `lldb`,
`compiler-rt`, `libcxx`, `libcxxabi`, `klee`, `polly`, `dragonegg`, `libclc`,
`clang-tools-extra`. Most of it translates programs, sequentially, from one
representation to another; its correctness is about languages, and there is
little a model checker adds. What this project is about is the code of the tree
whose correctness is a matter of **states and interleavings**: locks that other
run-time libraries are built on, queues between threads, files that processes
lock each other out with, pools that run closures. That code is short, is used
everywhere, and is precisely what a unit test does not reach.

## 1. Inventory

| Component | State | Operations | Interaction, and what is hard about it |
|---|---|---|---|
| `RWMutex` (sanitizer_common) | one 32-bit word | `Lock`, `Unlock`, `ReadLock`, `ReadUnlock` and the slow paths | any number of threads; a reader counts itself before it knows whether it may enter |
| `ThreadStateCoordinator` (lldb, Linux) | event queue, map of thread contexts, one pending notification | `CallAfterThreadsStop` (three forms), `NotifyThreadStop/Create/Death`, `RequestThreadResume(AsNeeded)`, `ResetForExec`, `StopCoordinator`, `ProcessNextEvent` | posted by the monitor and the operation thread, processed by a third; threads are created, die and fail to stop while a stop is pending |
| `LockFileManager` (llvm Support) and `compileAndLoadModule` (clang) | the lock file (a link), one unique file per process, the module file | constructor, destructor, `readLockFile`, `waitForUnlock`, `unsafeRemoveLockFile` | processes on several hosts, crashes, time-outs; every system call can be overtaken |
| `Latch`, `ThreadPoolExecutor`, `TaskGroup` (lld) | two latches, a stack of closures, `_stop` | `inc`, `dec`, `sync`, `add`, `work`, `spawn`, constructor, destructor | closures spawn closures; threads are started by a thread; notifies come after unlocks |
| `parallel_sort` (lld) | the array | `parallel_quick_sort`, `medianOf3` | closures sort parts of one array concurrently |
| `parallel_for_each` (lld) and the ELF writer on it | stack of closures shared by all groups, one latch per group, output buffer | `parallel_for_each`, `writeOutput`, `AtomSection::write`, `report_fatal_error` | groups inside closures of groups, all on the same workers; `exit` on a worker |
| `AddrHashMap` (sanitizer_common) | embedded and additional cells, an `RWMutex` per bucket | `acquire`, `release` | lock-free lookups against locked insertion, removal and moves |
| Thread registry (sanitizer_common) | contexts, quarantine, free list, counters | create, start, detach, join, finish | thread ids that are reused; callbacks into the tool |
| Clocks and synchronisation of tsan | a vector clock per thread and per sync object, flags, dirty slots | acquire, release, release-store, acquire-release, `AcquireGlobal` | O(1) shortcuts that rest on the history of several threads; reuse of clock slots |
| `shared_timed_mutex` (libcxx) | word and two gates | lock, unlock, shared, try and timed forms | waiting at two gates, giving up at either |
| `StackDepot` (sanitizer_common) | hash chains, a lock bit in the head pointer | `Put`, `Get` | lock-free lookups against locked insertion |
| `BlockingMutex`, `SpinMutex` (sanitizer_common) | a word and a futex | `Lock`, `Unlock` | lost wake-ups |
| Deadlock detector, `BVGraph` (sanitizer_common) | lock graph, epochs | `onLock`, `onUnlock`, `addEdges` | stale epochs, recycled nodes |
| `__cxa_guard` (libcxxabi) | guard byte, in-use byte | acquire, release, abort | concurrent and recursive initialisation |
| `Future`, `FileArchive::preload` (lld) | one future per member | `set`, `get`, `preload`, `find` | notify after unlock; `get` while holding the archive's mutex |
| `NativeProcessLinux` (lldb) | ptrace state of a process | monitor, operation and coordinator threads | the callers of the coordinator |
| `Broadcaster`/`Listener` (lldb) | event queues | broadcast, wait | lock order, listener lifetime |
| everything else | | | sequential translation, parsing and I/O; not modelled |

The properties that make the modelled components correct are in section 4, the
hazards behind them, each at its line, in `PROJECT.json`.

## 2. Modules

| Module | What it is |
|---|---|
| `RWLock` | abstract reader-writer lock: a set of writers and a set of readers. Implemented by `RWMutex` and `SharedMutex`, used by `AddrHashMap` |
| `RWMutex` | the spin lock, one step per atomic operation; implements `RWLock` |
| `ThreadStateCoordinator` | queue, condition variable, event loop and every event class |
| `LockFileManager` | constructor, destructor, waiting and time-out, one step per system call, and the loop of `compileAndLoadModule` around them |
| `TaskGroup` | abstract task group: closures are queued, run once and awaited |
| `ThreadPool` | `Latch`, `ThreadPoolExecutor`, `TaskGroup` and the thread that uses them; implements `TaskGroup` |
| `ParallelSort` | the data of `parallel_sort`, on top of what `TaskGroup` promises |
| `ParallelForEach` | `parallel_for_each` as the ELF writer nests it; each of its groups implements `TaskGroup` |
| `SharedMutex` | `shared_timed_mutex`, one step from wait to wait; implements `RWLock` |
| `AddrHashMap` | one bucket of the hash map, on top of what `RWLock` promises |
| `ThreadIds` | the thread ids that registry and clocks share |
| `ThreadRegistry` | the registry: one action per method, without the tool's callbacks |
| `TsanClock` | `ThreadClock` and `SyncClock` as functions, with every shortcut |
| `HappensBefore` | the "very simple model of operations" of tsan_clock.cc |
| `TsanThreads` | registry, callbacks and clocks composed; its operations conform to `HappensBefore` |
| `MC_*` | the instances that TLC checks, one or more `.cfg` each |
| `RWMutexProofs`, `CoordinatorProofs`, `LockFileProofs`, `ThreadPoolProofs`, `ParallelProofs`, `SharedMutexProofs`, `AddrHashMapProofs`, `TsanThreadsProofs` | theorems and their proofs |

Definitions keep the names of the source (`ThreadDidStop`, `readLockFile` as
`ReadLockFile`, `_workStack`, `m_tid_map`). A definition whose name ends in
`_Something`, under the comment "Plausible slip", is a mutated form of the
definition after it: it shows which mistake the property named with it in
`PROJECT.json` would find, and no specification uses it.

### RWMutex

`state_` is the word: bit 0 the write lock, the rest counts readers, including
those that still spin in `ReadLockSlow`. `pc` says where a thread is. Each
action is one atomic operation: the compare-exchange of `Lock`, the load and the
(spuriously failing) compare-exchange of `LockSlow`, the fetch-and-add of
`ReadLock`, the load of `ReadLockSlow`, the subtractions of the unlocks. Loads
that only lead back to the same loop are stuttering steps. Operations are
sequentially consistent; the memory orders are not modelled. `WordSize` stands
for 2^32 and wraps around.

### ThreadStateCoordinator

`m_event_queue`, `m_tid_map` and `m_pending` are the members. `loop` is the
coordinator thread: *ready* to test the predicate of the condition variable,
*waiting* on it, *processing* an event, or *stopped*. A public method posts its
event (`EnqueueEvent`, push and notify under the lock); `ResetForExec`
replaces the queue and does not notify. `DequeueEvent` takes an event and one
action per event class processes it as a whole, with the calls it makes: the
stop and resume callbacks, which succeed or fail, the deferred action and the
error function. The history variables `fired`, `error`, `asked`, `resumed` and
`restarted` are read by properties only. `Calls` says which events the callers
may post; the order of posts is arbitrary, except that no reset follows the stop
of the coordinator, because `StopMonitor` joins the thread that makes resets
first.

### LockFileManager

`lock` is the process whose unique file the lock file links to; `unique` are the
unique files that exist; `module` is whether the module file exists; `alive` are
the processes that `getsid` finds. `pc[p]` names the next system call of process
p. Removal is by name, so it removes whatever the link is at that moment
(`RemovesLock`). It may fail, as may reading a lock file that is there
(`IOError`, at most `MaxErrors` times); except in the constructor's last removal
and in the read the code does not look at it (`RemoveLock`). `leaked` are the
owners whose destructor failed to remove the link, `stolen` says that the lock
file of a live owner was removed; both are read by properties only. `exists`,
`access` and opening follow the link. A process of
another host (`Remote`) is never found dead. `Crash` may happen between any two
system calls. Owner and interval are forgotten (`EndWait`) when `waitForUnlock`
returns, as is what a process was doing when it crashes. `MaxPolls` is the number of sleeps before the time-out (the
interval doubles from 1 ms to five minutes: 19). The wait, the retry after
`Res_OwnerDied`, the out-of-date module and the removal after a time-out are
`compileAndLoadModule`'s.

### ThreadPool

Thread 0 is the user of the pool, thread 1 the one that starts the others and
then works too. A critical section of a mutex is one step; `notify_one` in `add`
and `notify_all` in the destructor come after the unlock and are steps of their
own. A condition variable's waiters are the threads at *wait*, *syncwait* and
*joinwait*; they may wake without a notify. A function that runs, Main's or a
closure's, spawns while its depth lasts and returns at any time: this covers
`parallel_quick_sort`, which spawns its left part and recurses on its right, and
`parallel_for_each`, whose closures spawn nothing. `Tasks` names the closures
that are outstanding at once; a name is free again when its closure has ended.
One group is open at a time, and only Main opens groups; groups that closures
open are the subject of `ParallelForEach`.

### ParallelSort

A step is one call of `parallel_quick_sort` up to its recursive calls, in any
order among the outstanding calls. That a call is one step although calls run
concurrently is justified by `RangesDisjoint`, proved in the same model: no
other call touches its range. `std::sort` is any ordered rearrangement,
`std::partition` any rearrangement with its postcondition, `comp` is less-than.
The state definitions carry the prefix `Sort`, so that one proof module can
extend this module and `ParallelForEach`.

### ParallelForEach

Main is in `OutputELFWriter::writeOutput`, whose `parallel_for_each` over the
sections calls `AtomSection::write`, which calls `parallel_for_each` again over
the atoms. `frames[a]` is the call stack of thread a: calls that spawn, handle
their share, wait in `~TaskGroup` or are inside `exit`, and closures. One stack
of closures serves all groups. Here a worker that may take a closure takes it;
how workers sleep and wake is `ThreadPool`'s subject. A relocation may fail; the
call then ends in `report_fatal_error`, whose `exit` destroys the executor on
that thread. A second thread that calls `exit` stays there or ends the process:
the behaviour is undefined.

### SharedMutex

A member of `shared_timed_mutex` holds `__mut_` except while it waits, so a step
goes from one wait to the next. `write_entered` and `num_readers` are the two
parts of `__state_`; `gate1` and `gate2` are the sleepers of the two condition
variables, which may wake without a notify; a thread with a deadline may time out
while it sleeps, after which the code looks at the condition once more.
`try_lock` and `try_lock_shared` that fail change nothing.

### AddrHashMap

One bucket, for the addresses that hash to it. A search without the lock makes
one step per load; what a thread does under the mutex is split where it stores to
an embedded cell, which is all that a searcher without the lock can see. The
value of a cell is the address whose owner wrote it, so a value that ends up under
another key, or is not there yet when the key is, is visible: the move of an
element into an embedded cell takes a step for the value (`MoveValue`) and one for
the key (`MoveKey`). `gen` numbers the arrays of additional cells: growth frees the
old one, and doubles its bytes, which gives `kHdrCells` more cells than twice the
old ones. A `CHECK_EQ` of `release` that fails ends the process (`CheckFails`).
`sawAbsent` is a history variable: the key was absent at some moment of the call.

A handle on an embedded cell holds no lock, so the code cannot keep its element
from being removed. `Contended` are the addresses for which callers do not see to
that. Of any other one nobody opens a handle while it is being removed or removes it
while somebody has a handle on it, which is what the interceptors of the sanitizers
get from a program that does not use a `FILE` while it closes it. The theorems are
for any set `Contended`.

### ThreadRegistry, TsanClock, TsanThreads

`ThreadRegistry` has one action per method; each runs under the registry's mutex.
`RegistrySpec` is the registry alone, driven by any tool that keeps its CHECKs: a
thread may be detached before it starts, twice, or when its context is dead or not
in use, where the code reports and returns.
The process dies at the limit of threads (`CreateThread` is not enabled).
`TsanClock` has the methods of the clocks as functions of a thread clock T and a
sync clock S: which components an acquire looks at (`ComponentsToAcquire`), when a
release is O(1) (`NothingNew`), what is noted as dirty (`UpdateCurrentThread`).
The two-level table behind `SyncClock::elem` is the array it lays out.
`TsanThreads` conjoins each registry method with the callback of
`tsan_rtl_thread.cc` that it makes, and adds the operations of
`tsan_rtl_mutex.cc` and the atomics. Under one tid `sync` also holds the context's
own sync clock, through which a thread hands its knowledge to whom it creates and
to whom it joins. A thread's epoch is bounded by `MaxEpoch`. A thread is joined or
detached after it has started, as the interceptor of `pthread_create` ensures,
and before it is dead: this is narrower than what `ThreadRegistry` allows, which
is the subject of theorems on `RegistrySpec`, not of a run.
The main thread, tid 0, runs from the initial state on and never finishes.
`AcquireGlobal` (Go finalizers) is in `GlobalSpec` only: it takes one step per
thread, since the registry's lock does not stop the threads whose time it reads.

## 3. Hard behaviours that the models contain

Interleavings of atomic operations (RWMutex), of critical sections and notifies
(ThreadPool, coordinator), of system calls (LockFileManager); spurious wake-ups;
weak compare-exchange failures; crashes with stale lock files on the same and on
another host; time-outs that race a slow owner; stop requests that fail, threads
that die, appear or are resumed while a stop is pending; leftover SIGSTOPs; a
pool that is destroyed while its threads are still being started; nested spawns
while the owner already waits; duplicate elements and empty parts in the sort;
groups inside closures of groups and `exit` on a worker; time-outs at two gates
against the last reader's notify; searches without a lock against moves, removal
and growth; handles without a lock beside removals; removals of lock files that
fail unseen; thread ids, flags and release-store marks that outlive their thread.

## 4. Runs

Passing runs.

| Run | Instance | What it shows |
|---|---|---|
| `rwmutex` | 4 threads, word of 10 values (the least that satisfies the assumption) | `WordCounts`: the word is exactly write bit + 2 x readers inside or spinning. `AbsSpec`: implements `RWLock`, hence mutual exclusion. `SpinningReaderGetsIn` |
| `coordinator_safe` | 3 threads, every relevant event, queue of 1 besides the event in hand | `PendingWaitsOnRunning`: a pending notification can always still fire. `FiredMeansStopped`: the report of a stop misses no thread. `AskedThreadsStop`: a thread asked to stop is not resumed by that stop |
| `coordinator_live` | 2 threads, queue of 2 | `StopEndsLoop`: the join of the coordinator returns. `PendingIsResolved` |
| `lockfile` | 3 processes, one on another host, 2 polls, 1 failing read or removal | `LockIsBacked`: the lock file never dangles or outlives an owner that did not crash, unless that owner failed to remove it. `ExclusiveUnlessStolen`. `EveryProcessFinishes`. `DeadLockIsCleared`: a dead owner's lock file does not stay where somebody waits |
| `thread_pool` | 3 workers, 3 closures, depth 2 | `LatchCounts`, `ExecutorOutlivesThreads`, `AbsSpec`: implements `TaskGroup`. `SyncReturns`, `DestructorReturns` |
| `parallel_sort` | 6 elements, 3 values, sequential below 2, depth 3 (= Log2_64(6) + 1) | `RangesDisjoint`: no data race. `ResultIsSorted` |
| `parallel_for_each` | 2 workers, closures of 2 elements, up to 4 sections of 1 or 3 atoms | `CommittedIsComplete`: what is committed has every atom written once and every relocation applied. `ImplementsTaskGroup`: every group, nested or not, implements `TaskGroup`. `HangsOnlyWhenNested`, `LinkEnds`, `ExitEnds`: see the observations |
| `shared_mutex` | 4 threads, a word that counts 3 readers | `StateCounts`: the word says exactly who is inside. `NoForgottenSleeper`: no lost wake-up at either gate. `AbsSpec`: implements `RWLock`. `EnteredWriterGetsIn`: readers cannot starve a writer that has entered |
| `addr_hash_map` | 2 threads with 3 handles each, 3 addresses, 1 of them contended, 1 embedded cell, first array of 1 | `HandleKeepsElement`: whatever moves beside it, and whoever removes what. `HandlePointsToLiveArray`, `NoDuplicates`. `CreatorIsExclusive`: the creator of an element is alone with it. `NotFoundIsTrue`: who does not find an element is right about some moment of the call. `EveryCallReturns`. |
| `tsan_clock` | 3 tids, quarantine of 1, 2 reuses, 1 dirty slot, 1 sync object, epochs up to 3 | `ListsMatchStatus`: no tid of a live thread is handed out. `OperationsConform`: every operation does what `HappensBefore` says. `FastReleaseSound`, `FlagSound`, `SizesCover`: why its shortcuts may be taken. `ContextSyncEmpty`: the CHECKs on the contexts' clocks cannot fire |

Runs that TLC must find violated: a comment says one thing, the code does another.

| Run | Statement | What the code does |
|---|---|---|
| `lockfile_owner` | `SingleOwner` (LockFileManager.h:23) | `readLockFile` removes by name what it could not read: the lock file another process has just made |
| `tsan_global` | `FastReleaseSound` (tsan_clock.cc:179) | `AcquireGlobal` reads thread A, then A releases and B acquires from it, then `AcquireGlobal` reads B: the caller knows B's time and not what B knew of A. It releases into an object; B's next release into that object finds its own time there, takes the O(1) path and leaves A's component out. Whoever acquires the object is not ordered after A |

A type invariant, mutual exclusion and what else follows from a property in the
table is not repeated in a run where it is proved (section 5).

### Observations

What the models show besides, read off the code and not pursued as runs:

- `ResetForExec` pushes its event without a notify (ThreadStateCoordinator.cpp:880):
  a sleeping coordinator processes it only when another event is posted, as its
  one caller does next.
- A second stop of a stopped thread triggers no error, although
  ThreadStateCoordinator.h:102 says so. The stop that fires a deferred action may
  be a leftover SIGSTOP, whose thread is then resumed (line 722).
- `waitForUnlock` answers `Res_OwnerDied` also for a live owner that failed to build
  the module and released the lock (LockFileManager.cpp:205).
- When `hardware_concurrency()` is 0 the latch `_done` of the executor starts at
  0 and the one thread that is started anyway decrements it (Parallel.h:120, 162).
- The ELF writer hangs when every worker has taken a closure over sections and
  waits inside for atoms: that takes a closure per worker, thus 1024 sections per
  worker, and large sections in all of them. `LinkEnds` says that with fewer it
  ends, by a commit or by the end of the process, unless `exit` hangs: when a
  relocation fails in a section that a worker writes as a closure, `exit` waits on
  that worker for the worker itself to leave `work()`. `HangsOnlyWhenNested` says that these are the only two ways.
- `unlock_shared` of a full `shared_timed_mutex` wakes one sleeper and only on the
  step from full to one less. With two sleepers and 2^31 - 1 readers the second
  would be forgotten; the assumption of `SharedMutex` (as many threads as the word
  counts, and one more) is the largest for which `NoForgottenSleeper` holds.
- sanitizer_addrhashmap.h:38-40 says of a handle that removes that "the current
  thread has exclusive access to the data". A handle found by the search without the
  lock holds nothing (line 178), and a removing handle waits for the bucket's mutex
  only (line 202): it is given the same element, and the `CHECK_EQ` of the first
  handle fails once the cell is cleared. The exclusivity is the callers' to see to.
- `GetInterceptorMetadata` (sanitizer_common_interceptors.inc:146) returns a pointer
  into a cell of an `AddrHashMap` after its handle is gone.

### Bounds

- Two threads suffice for the races of the mutex on its word; four give two
  readers and two writers, so that one of each can wait while one is inside.
- With three inferior threads one triggers a stop and two are waited for, which
  is where one stop may hide another. Events wait in a FIFO queue and
  are processed one at a time, so a longer queue only delays them; the liveness
  run has two so that a reset can overtake a queued event.
- Two processes fight for a lock file; the third, remote one is a waiter that
  cannot see that its owner died. Two polls give a wait that is repeated and one
  that times out. One failure is enough for a link that its owner leaves behind,
  for an invalid one that is not removed and for one that cannot be read.
- Three workers give one that starts threads, one that runs and one that sleeps;
  three closures of depth two give a closure that spawns while another runs and
  Main waits. `CountSize` = 8 exceeds what is counted, as 2^32 does.
- Six elements and a threshold of two give two levels of partition with empty,
  singleton and longer parts, and three values give equal elements. A small
  range that is sorted sequentially occurs by size and by depth.
- The mutex of libc++ has one thread more than its word counts readers, so that
  one is kept out by the limit, and a writer at each gate with a reader inside.
- One embedded cell and an array that starts with one give elements in both
  places, moves between them and growth with two creations; three addresses and
  three handles per thread give a removal and a search while others are created.
  One contended address gives handles whose cell is taken away beside handles whose
  cell is not, and a key that is gone when a search starts over.
- Three tids with a quarantine of one are reused after two deaths; one dirty
  slot is full with one release, and a third thread then clears the flags. Epochs
  up to three let a thread acquire, release and acquire again. The proofs, for all
  parameters, are what covers longer histories.
- Two workers, closures of two elements and four sections give 0, 1 and 2
  closures over sections, thus the cases of `LinkEnds` on both sides; 3 atoms give
  an inner closure and a rest, 1 atom none.

### Fairness

- *RWMutex*: a holder unlocks and a spinning thread is scheduled. Nothing is
  assumed of writers in `LockSlow`, which the code may starve.
- *Coordinator*: its thread runs and callbacks return (`FairSpec`); for
  `PendingIsResolved` also that the kernel reports the stop of a thread that is
  waited for (`StopsArrive`), strongly fair because the queue may be full for
  a while.
- *LockFileManager*: a process that has not crashed keeps running. Weak
  fairness per process, not per system call: errors stay possible, none is forced.
- *ThreadPool*: threads are scheduled and functions return. Main may stay idle for
  ever; spurious wake-ups are never assumed to happen, so a lost wake-up would be
  found.
- *SharedMutex*: a woken thread gets `__mut_` and holders unlock. Nothing is
  assumed of deadlines, new calls or spurious wake-ups.
- *AddrHashMap*: a thread inside the map is scheduled and destroys its handles.
  Handles are bounded, so weak fairness is enough for the bucket's mutex. A call
  returns unless a CHECK ends the process.
- *ParallelForEach*: every thread is scheduled; writing an atom ends.

Deadlock is checked for the two mutexes. The others may stop: the coordinator is
stopped, processes exit, the executor is
destroyed, the array is sorted, the file is committed, handles and epochs run out.

## 5. Proofs

All theorems are for any value of the constants within the modules' named
assumptions, and are checked by TLAPS. For each module the invariant `IInv` is
inductive, and was checked with TLC first.

- **RWMutexProofs** (`RWMutexAssumption`: finitely many threads, 2n + 1 below the
  word size). `IInv` = types, `WordCounts`, `MutualExclusion`. Exclusion alone is
  not inductive: that a compare-exchange from zero finds nobody inside is what
  the exact count gives, and the count needs that no arithmetic wraps
  (`CountedBound`). Theorems `TypeCorrect`, `WordIsExact`, `Exclusion`,
  `DebugChecks`, `RefinesRWLock`.
- **CoordinatorProofs** (`CoordinatorAssumption`). `FiredMeansStopped` needs what
  holds of the notification before it fires, `PendingCoversRunning`: every running
  thread is waited for or was resumed since. `AskedThreadsStop` needs
  `AskedAreRunning`: a thread that was asked has its request noted or was never
  resumed; and that needs `RequestedAreRunning`. One lemma per event class.
  Theorems `TypeCorrect`, `PendingCanFire`, `ReportsAreSound`, `AskingWorks`.
- **LockFileProofs** (`LockFileAssumption`), for any processes, hosts, crashes,
  polls and failures. `ExclusiveUnlessStolen` needs `OwnersHoldLock` (a live owner is the one
  that the link names) and `LockIsBacked` needs `UniqueFollowsPc`. Theorems
  `TypeCorrect`, `LockNeverOrphaned`, `OwnershipExclusive`.
- **ThreadPoolProofs** (`ThreadPoolAssumption`: threads and closures fit the
  32-bit count). The invariant says where every thread is and what it holds
  (`PlacesOK`), that a closure is in one place (`Distinct`), and that the latch is
  the number of outstanding closures; so `sync` returning at zero means that there
  is none, and each step is one of the abstract group. Theorems `TypeCorrect`,
  `LatchIsExact`, `GroupOutlives`, `Refines`; and, for at least one thread,
  `ExecutorOutlives` and `DecDefined` from `DoneCounts`. The hypothesis is needed:
  see the observation on `hardware_concurrency()`.
- **ParallelProofs**, the sort (`ParallelSortAssumption`: any length, integer
  values, threshold and depth). `OrderedAcross`: two elements that no outstanding
  call will compare are in order. A partition establishes it across the pivot, a
  rearrangement inside one range keeps it because the elements outside see the
  range as a whole. With no call left it is the order of the array. That
  elements are kept is the existence of a permutation, composed step by step
  (`ShuffleTransitive`). Theorems `SortInductive`, `SortTypeCorrect`,
  `ParallelSortSorts`, `NoRace`.
- **ParallelProofs**, the nested loops (`ForEachAssumption`: any number of workers,
  closures of any positive size, any number of sections with any numbers of
  atoms). `CommittedIsComplete` says nothing of the states before the commit. What
  carries it is `WritesExact`: an atom has been written once unless a range that
  contains it, or its section, is still on a stack, in a queue or in a call, and
  then not at all. That needs `ElementsOnce` (an element is in one range at most)
  and `CallsLive` (while anything of a section is outstanding, or a relocation of
  it has failed, one thread is inside its call). `LatchExact` counts: the latch is
  the number of queued and running closures, and so a `sync` that returns finds
  none of either. `FramesNest` and `RangesFit` say what stacks and ranges look
  like, `EndsDiffer` names a closure by the end of its range, and `EndsMatch` ties
  commit and `exit` to the stacks. `HangsOnlyWhenNested`: if a
  worker that waits is not inside a section, it is idle and the stack is empty;
  then a latch that is not zero counts a running closure, one over sections waits
  only for the atoms of a section, and one over atoms never waits. The refinement maps
  each group to `TaskGroup` with the ends as closures; there is one lemma per
  action for the invariant and one for the refinement. Theorems `ForEachInductive`,
  `ForEachTypeCorrect`, `CommittedComplete`, `HangsNested`,
  `ForEachImplementsTaskGroup`.
- **SharedMutexProofs** (`SharedMutexAssumption`: finitely many threads, at most one
  more than the word counts). `IInv` = types, `StateCounts`, `MutualExclusion`,
  `NoForgottenSleeper`; the last one needs the exact count, since it is the step
  from the limit that notifies, and the assumption, since it notifies one.
  Theorems `TypeCorrect`, `StateIsExact`, `Exclusion`, `NoLostWakeup`,
  `RefinesRWLock`.
- **AddrHashMapProofs** (`AddrHashMapAssumption`: finitely many threads and
  addresses, positive sizes). `HandleKeepsElement` is not inductive: a handle on an
  embedded cell holds no lock, and what protects its cell is that the only thread
  that may write is alone under the mutex (`LocksMatch`) and has a cell of its own:
  a removal because nobody else has a handle on its element (`RemoversAlone`, the
  callers' obligation, so not for `Contended` addresses), a creation or the hole that
  `release` compacts because its cell is free (`GapsFree`), and two published cells
  never hold one element (`CellsDistinct`). A handle that keeps the mutex needs
  no such obligation. `HandleCells` says that a handle into the array is into the
  current one, since growth needs the mutex that such a handle holds. For
  `NotFoundIsTrue`, `AbsenceSeen`: a call whose key is absent at the present moment
  has recorded it, so a search that ends under the lock with nothing has seen it.
  Theorems `TypeCorrect`, `HandlesKeepElements`, `HandlesPointToLiveArray`,
  `ElementsUnique`, `NotFoundTrue`, `CreatorAlone`, all for any set `Contended`.
- **TsanThreadsProofs** (`ThreadIdsAssumption`, `RegistryAssumption`,
  `ClockAssumption`, `TsanAssumption`: any limits, any sync objects). That every
  operation conforms to the simple model is not inductive. What carries it is
  `Covers(c, T)`: a clock c, of a thread or of a sync object, that has seen T's
  thread later than T's last acquire has seen everything T knows. It must hold
  between all pairs of running threads too, since a clock reaches an object
  through others. `PairOK` adds what the flag and the release-store mark mean;
  `ReuseOK` says that no mark is from an incarnation that is yet to come, so that
  a reused tid starts with none; `ThreadOK` and `SyncOK` bound clocks by the
  present and by their sizes; `ContextSyncEmpty` says when a context's clock is
  empty. The registry's lists and counters have an invariant of their own
  (`RegistryOK`), kept by every method; it is used for the registry alone
  (`RegistryAloneLists`, `RegistryAloneCounters`) and in the induction for the
  composition.
  Theorems `Invariance`, `TypeCorrect`, `RegistryLists`, `RegistryCounters`,
  `FastPathIsSound`, `FlagsAreSound`, `SizesAreEnough`, `ContextSyncIsEmpty` and,
  from the invariant, `Conformance`. They are about `Spec`, without
  `AcquireGlobal`: with it `Covers` fails, which is what `tsan_global` shows.

Every invariant, action property and refinement that a passing run checks is the
statement of one of these theorems. Only model-checked: the liveness properties,
since fairness and `ENABLED` are beyond the prover. Assumed, not checked: the
postconditions of `std::sort` and `std::partition`, sequential consistency,
atomicity of a single system call on a name.

## 6. Not modelled, and plan

Not modelled: memory orders; logging; Windows variants (`ConcRTExecutor`,
`LLVM_ON_WIN32`); `Future`; ptrace; tsan's shadow memory and `ignore_sync`; the
block table of `SyncClock`; `shared_lock`; thread names and look-ups of the
registry; and what the inventory lists below `shared_timed_mutex`. The rest of
the tree, by far the largest part, is compilers and tools that work
sequentially on data of a size no instance of a model reaches.

The plan, in order:

1. `Future` and `FileArchive::preload`/`find`, whose `get` waits under a mutex and
   whose `set` notifies after it has unlocked.
2. `BlockingMutex` on a futex, against an abstract mutex; no lost wake-up.
3. `StackDepot`, whose low pointer bit is the lock.
4. `__cxa_guard`: initialised once, retried after an abort, recursion detected.
5. Deadlock detector on `BVGraph`, as operators against a reference definition
   of reachability; epoch changes.
6. `NativeProcessLinux` composed with the coordinator, instead of `Calls`.
