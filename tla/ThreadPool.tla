----------------------------- MODULE ThreadPool -----------------------------
(***************************************************************************)
(* The thread pool of lld, lld/include/lld/Core/Parallel.h: Latch,         *)
(* ThreadPoolExecutor and TaskGroup, and the thread that uses them.        *)
(*                                                                         *)
(* Main opens a TaskGroup, spawns closures, waits in ~TaskGroup, does that *)
(* again, and at the end of the program destroys the executor.  A closure  *)
(* may itself spawn closures on the group (parallel_quick_sort does).      *)
(* Every critical section of a mutex is one step; a notify the code makes  *)
(* after it has unlocked is a step of its own.                             *)
(***************************************************************************)
EXTENDS Integers, Sequences, FiniteSets

CONSTANTS ThreadCount,  \* worker threads (hardware_concurrency())
          CountSize,    \* number of values of a Latch's uint32_t _count
          MaxDepth,     \* how deeply closures spawn closures
          Tasks,        \* names for the closures that are outstanding at once
          None          \* no closure

Main    == 0
Starter == 1            \* the thread that starts the others, then works too
Workers == 1 .. (IF ThreadCount = 0 THEN 1 ELSE ThreadCount)
Agents  == {Main} \cup Workers
Closure == [task : Tasks, depth : 0 .. MaxDepth]

ASSUME ThreadPoolAssumption ==
    /\ ThreadCount \in Nat /\ MaxDepth \in Nat
    /\ IsFiniteSet(Tasks) /\ None \notin Tasks
    /\ CountSize \in Nat
    /\ ThreadCount < CountSize /\ Cardinality(Tasks) < CountSize

VARIABLES
    _workStack,     \* the executor's closures, the last one on top
    _stop,          \* the executor is being destroyed
    _done,          \* count of the executor's latch
    _latch,         \* count of the task group's latch
    pc,             \* where each thread is
    job,            \* the closure a worker runs
    depth,          \* how much deeper the function a thread runs may spawn
    child           \* the closure a thread is about to give to the executor

vars == <<_workStack, _stop, _done, _latch, pc, job, depth, child>>

PCs == {"unborn", "starting", "work", "wait", "dec", "stopping", "exited",
        "run", "add", "notify",
        "idle", "sync", "syncwait", "notifyAll", "join", "joinwait", "end"}

Count(x) == x % CountSize           \* unsigned wrap-around of _count

InStack     == {_workStack[i].task : i \in 1 .. Len(_workStack)}
Running     == {job[w] : w \in Workers} \ {None}
Spawning    == {child[a] : a \in Agents} \ {None}
Outstanding == InStack \cup Running \cup Spawning

\* Plausible slip: count the threads the starter makes and not itself.
DoneInitially_StarterNotCounted == Count(ThreadCount - 1)

\* _done(threadCount): every thread, the starter included.
DoneInitially == ThreadCount

\* The executor has just been constructed; of its threads only the one
\* that starts the others runs.
Init ==
    /\ _workStack = <<>> /\ _stop = FALSE
    /\ _done = DoneInitially
    /\ _latch = 0
    /\ pc = [a \in Agents |-> IF a = Main THEN "idle"
                             ELSE IF a = Starter THEN "starting" ELSE "unborn"]
    /\ job = [w \in Workers |-> None]
    /\ depth = [a \in Agents |-> 0]
    /\ child = [a \in Agents |-> None]

Goto(a, from, to) ==
    /\ pc[a] = from
    /\ pc' = [pc EXCEPT ![a] = to]

\* notify_all() on a condition variable on which the threads at "from" wait,
\* by thread a, which goes on at "next": they re-evaluate their predicates.
NotifyAll(a, next, from, to) ==
    pc' = [b \in Agents |-> IF b = a THEN next
                           ELSE IF pc[b] = from THEN to ELSE pc[b]]

-----------------------------------------------------------------------------
(* TaskGroup::spawn, by Main or by a closure that a worker runs            *)

\* Plausible slip: the closure is not counted.
Spawn_NotCounted(a) ==
    /\ Goto(a, "run", "add")
    /\ depth[a] > 0
    /\ \E t \in Tasks \ Outstanding : child' = [child EXCEPT ![a] = t]
    /\ depth' = [depth EXCEPT ![a] = @ - 1]
    /\ UNCHANGED <<_workStack, _stop, _done, _latch, job>>

\* _latch.inc()
Spawn(a) ==
    /\ Goto(a, "run", "add")
    /\ depth[a] > 0
    /\ \E t \in Tasks \ Outstanding : child' = [child EXCEPT ![a] = t]
    /\ depth' = [depth EXCEPT ![a] = @ - 1]
    /\ _latch' = Count(_latch + 1)
    /\ UNCHANGED <<_workStack, _stop, _done, job>>

\* ThreadPoolExecutor::add: push under the lock ...
Add(a) ==
    /\ Goto(a, "add", "notify")
    /\ _workStack' = Append(_workStack, [task |-> child[a], depth |-> depth[a]])
    /\ child' = [child EXCEPT ![a] = None]
    /\ UNCHANGED <<_stop, _done, _latch, job, depth>>

\* Plausible slip: no notify.
NotifyOne_Missing(a) ==
    /\ Goto(a, "notify", "run")
    /\ UNCHANGED <<_workStack, _stop, _done, _latch, job, depth, child>>

\* ... and notify_one() without it: a waiting worker, if there is one, wakes.
NotifyOne(a) ==
    /\ pc[a] = "notify"
    /\ \/ \E w \in Workers :
            /\ pc[w] = "wait"
            /\ pc' = [pc EXCEPT ![a] = "run", ![w] = "work"]
       \/ /\ \A w \in Workers : pc[w] # "wait"
          /\ pc' = [pc EXCEPT ![a] = "run"]
    /\ UNCHANGED <<_workStack, _stop, _done, _latch, job, depth, child>>

\* The function returns: a worker counts its closure out, Main waits.
Return(a) ==
    /\ Goto(a, "run", IF a = Main THEN "sync" ELSE "dec")
    /\ UNCHANGED <<_workStack, _stop, _done, _latch, job, depth, child>>

-----------------------------------------------------------------------------
(* The threads of the executor                                             *)

\* The starter makes the other threads one by one and then works itself.
\* They are alike, so their order does not matter.
StartThread(w) ==
    /\ Goto(w, "unborn", "work")
    /\ pc[Starter] = "starting"
    /\ UNCHANGED <<_workStack, _stop, _done, _latch, job, depth, child>>

StarterWorks ==
    /\ Goto(Starter, "starting", "work")
    /\ \A w \in Workers : pc[w] # "unborn"
    /\ UNCHANGED <<_workStack, _stop, _done, _latch, job, depth, child>>

\* work(), from the evaluation of the predicate under the lock: leave, ...
LeaveWork(w) ==
    /\ _stop
    /\ Goto(w, "work", "stopping")
    /\ UNCHANGED <<_workStack, _stop, _done, _latch, job, depth, child>>

\* Plausible slip: the closure on top is taken but not popped.
TakeClosure_NoPop(w) ==
    /\ ~_stop /\ _workStack # <<>>
    /\ Goto(w, "work", "run")
    /\ LET top == _workStack[Len(_workStack)]
       IN  /\ job' = [job EXCEPT ![w] = top.task]
           /\ depth' = [depth EXCEPT ![w] = top.depth]
    /\ UNCHANGED <<_workStack, _stop, _done, _latch, child>>

\* ... run the closure on top of the stack, ...
TakeClosure(w) ==
    /\ ~_stop /\ _workStack # <<>>
    /\ Goto(w, "work", "run")
    /\ LET top == _workStack[Len(_workStack)]
       IN  /\ job' = [job EXCEPT ![w] = top.task]
           /\ depth' = [depth EXCEPT ![w] = top.depth]
    /\ _workStack' = SubSeq(_workStack, 1, Len(_workStack) - 1)
    /\ UNCHANGED <<_stop, _done, _latch, child>>

\* ... or wait.
WaitForWork(w) ==
    /\ ~_stop /\ _workStack = <<>>
    /\ Goto(w, "work", "wait")
    /\ UNCHANGED <<_workStack, _stop, _done, _latch, job, depth, child>>

\* The closure ends with _latch.dec(), which notifies at zero.
Dec(w) ==
    /\ pc[w] = "dec"
    /\ _latch' = Count(_latch - 1)
    /\ job' = [job EXCEPT ![w] = None]
    /\ \/ _latch' = 0 /\ NotifyAll(w, "work", "syncwait", "sync")
       \/ _latch' # 0 /\ Goto(w, "dec", "work")
    /\ UNCHANGED <<_workStack, _stop, _done, depth, child>>

\* The thread ends with _done.dec().
DecDone(w) ==
    /\ pc[w] = "stopping"
    /\ _done' = Count(_done - 1)
    /\ \/ _done' = 0 /\ NotifyAll(w, "exited", "joinwait", "join")
       \/ _done' # 0 /\ Goto(w, "stopping", "exited")
    /\ UNCHANGED <<_workStack, _stop, _latch, job, depth, child>>

-----------------------------------------------------------------------------
(* Main                                                                    *)

\* A new TaskGroup, and a function that spawns on it.
OpenGroup ==
    /\ Goto(Main, "idle", "run")
    /\ _latch' = 0
    /\ depth' = [depth EXCEPT ![Main] = MaxDepth]
    /\ UNCHANGED <<_workStack, _stop, _done, job, child>>

\* ~TaskGroup: ~Latch calls sync().
Sync ==
    /\ \/ _latch = 0 /\ Goto(Main, "sync", "idle")
       \/ _latch # 0 /\ Goto(Main, "sync", "syncwait")
    /\ UNCHANGED <<_workStack, _stop, _done, _latch, job, depth, child>>

\* ~ThreadPoolExecutor: set _stop under the lock, ...
DestroyExecutor ==
    /\ Goto(Main, "idle", "notifyAll")
    /\ _stop' = TRUE
    /\ UNCHANGED <<_workStack, _done, _latch, job, depth, child>>

\* Plausible slip: wake one worker only.
NotifyWorkers_One ==
    /\ pc[Main] = "notifyAll"
    /\ \/ \E w \in Workers :
            pc[w] = "wait" /\ pc' = [pc EXCEPT ![Main] = "join", ![w] = "work"]
       \/ /\ \A w \in Workers : pc[w] # "wait"
          /\ pc' = [pc EXCEPT ![Main] = "join"]
    /\ UNCHANGED <<_workStack, _stop, _done, _latch, job, depth, child>>

\* ... notify every waiting worker without it, ...
NotifyWorkers ==
    /\ pc[Main] = "notifyAll"
    /\ NotifyAll(Main, "join", "wait", "work")
    /\ UNCHANGED <<_workStack, _stop, _done, _latch, job, depth, child>>

\* ... and wait in the destructor of _done, the first member destroyed.
Join ==
    /\ \/ _done = 0 /\ Goto(Main, "join", "end")
       \/ _done # 0 /\ Goto(Main, "join", "joinwait")
    /\ UNCHANGED <<_workStack, _stop, _done, _latch, job, depth, child>>

\* A condition variable may wake a thread without a notify.
SpuriousWakeup(a) ==
    /\ \/ Goto(a, "wait", "work")
       \/ Goto(a, "syncwait", "sync")
       \/ Goto(a, "joinwait", "join")
    /\ UNCHANGED <<_workStack, _stop, _done, _latch, job, depth, child>>

-----------------------------------------------------------------------------
\* A function that spawns closures on the group, or none, and returns.
RunStep(a) == Spawn(a) \/ Add(a) \/ NotifyOne(a) \/ Return(a)
WorkerStep(w) ==
    \/ StartThread(w) \/ LeaveWork(w) \/ TakeClosure(w) \/ WaitForWork(w)
    \/ Dec(w) \/ DecDone(w)
MainStep == OpenGroup \/ Sync \/ DestroyExecutor \/ NotifyWorkers \/ Join

Next ==
    \/ \E a \in Agents : RunStep(a) \/ SpuriousWakeup(a)
    \/ \E w \in Workers : WorkerStep(w)
    \/ StarterWorks \/ MainStep

Spec == Init /\ [][Next]_vars

\* Threads are scheduled and functions return: parallel_quick_sort and
\* parallel_for_each end.  Main may stay idle.
Fairness ==
    /\ \A a \in Agents : WF_vars(RunStep(a))
    /\ \A w \in Workers : WF_vars(WorkerStep(w))
    /\ WF_vars(StarterWorks)
    /\ WF_vars(Sync \/ NotifyWorkers \/ Join)

FairSpec == Spec /\ Fairness

-----------------------------------------------------------------------------
(* Properties                                                              *)

TypeOK ==
    /\ _workStack \in Seq(Closure)
    /\ _stop \in BOOLEAN
    /\ _done \in 0 .. CountSize - 1
    /\ _latch \in 0 .. CountSize - 1
    /\ pc \in [Agents -> PCs]
    /\ job \in [Workers -> Tasks \cup {None}]
    /\ depth \in [Agents -> 0 .. MaxDepth]
    /\ child \in [Agents -> Tasks \cup {None}]

GroupIsOpen == pc[Main] \in {"run", "add", "notify", "sync", "syncwait"}

\* The latch of a group counts exactly the closures that are still to call
\* dec() on it: those being handed over, in the stack or being run.
LatchCounts == _latch = Cardinality(Outstanding)

\* The group outlives its closures, whose last action is on its latch: once
\* ~TaskGroup has returned none is left in the stack or half-way through a
\* worker, whoever spawned it.  So the executor's destructor, which makes the
\* workers leave without emptying the stack, drops no closure.
GroupOutlivesClosures == ~GroupIsOpen => Outstanding = {}

\* The executor outlives its threads: its destructor returns only when every
\* one has made its last access, also those the starter had not yet made.
ExecutorOutlivesThreads ==
    pc[Main] = "end" => \A w \in Workers : pc[w] = "exited"

\* A latch is never decremented at zero.
DecIsDefined ==
    /\ \A w \in Workers : pc[w] = "dec" => _latch > 0
    /\ \A w \in Workers : pc[w] = "stopping" => _done > 0

\* The place of a thread tells what it holds.
MainPCs   == {"idle", "run", "add", "notify", "sync", "syncwait",
              "notifyAll", "join", "joinwait", "end"}
WorkerPCs == {"unborn", "starting", "work", "wait", "run", "add", "notify",
              "dec", "stopping", "exited"}

PlacesOK ==
    /\ pc[Main] \in MainPCs
    /\ \A w \in Workers :
          /\ pc[w] \in WorkerPCs
          /\ job[w] # None <=> pc[w] \in {"run", "add", "notify", "dec"}
    /\ \A a \in Agents : child[a] # None <=> pc[a] = "add"

\* A closure is in one place only.
Distinct ==
    /\ \A i, j \in 1 .. Len(_workStack) :
          _workStack[i].task = _workStack[j].task => i = j
    /\ \A v, w \in Workers : job[v] = job[w] /\ job[v] # None => v = w
    /\ \A a, b \in Agents : child[a] = child[b] /\ child[a] # None => a = b
    /\ InStack \cap Running = {}
    /\ InStack \cap Spawning = {}
    /\ Running \cap Spawning = {}

\* Only the destructor sets _stop, and no group is open then.
StopIsLast == _stop <=> pc[Main] \in {"notifyAll", "join", "joinwait", "end"}

\* The executor's latch counts the threads that have not left.
DoneCounts == ThreadCount > 0 => _done = Cardinality({w \in Workers : pc[w] # "exited"})

\* The inductive invariant behind LatchCounts and GroupOutlivesClosures.
IInv ==
    /\ TypeOK /\ PlacesOK /\ Distinct
    /\ LatchCounts /\ GroupOutlivesClosures /\ StopIsLast

\* Every closure is run once, and the group closes when all have been.
Abs == INSTANCE TaskGroup WITH
          open <- GroupIsOpen, queued <- InStack \cup Spawning, running <- Running
AbsSpec == Abs!Spec

\* ~TaskGroup returns: no closure is stranded in the stack while the workers
\* sleep, and no wake-up of Main is lost.
SyncReturns == pc[Main] = "sync" ~> pc[Main] = "idle"

\* ~ThreadPoolExecutor returns, whether its threads are being started, wait,
\* or have not reached their wait yet.
DestructorReturns == _stop ~> pc[Main] = "end"
=============================================================================
