----------------------------- MODULE SharedMutex -----------------------------
(***************************************************************************)
(* std::shared_timed_mutex of libc++: libcxx/src/shared_mutex.cpp and the  *)
(* timed members in libcxx/include/shared_mutex.                           *)
(*                                                                         *)
(* Every member runs under __mut_, so it is one step up to the point where *)
(* it waits on a gate.  A writer enters at gate 1 by setting               *)
(* __write_entered_, which keeps new readers and writers out, and then     *)
(* waits at gate 2 until the readers inside have left.  A timed member may *)
(* give up at either gate; at gate 2 it has to take back its entry.        *)
(***************************************************************************)
EXTENDS Integers, FiniteSets

CONSTANTS Threads,          \* the threads that use the mutex
          __n_readers_      \* the most readers the state word can count

\* The word counts 2^31 - 1 readers, more than there are threads.
ASSUME SharedMutexAssumption ==
    /\ IsFiniteSet(Threads)
    /\ __n_readers_ \in Nat \ {0}
    /\ Cardinality(Threads) <= __n_readers_ + 1

VARIABLES write_entered,    \* __state_ & __write_entered_
          num_readers,      \* __state_ & __n_readers_
          gate1, gate2,     \* threads asleep on the condition variables
          pc,               \* where each thread is
          timed             \* whether its call has a deadline

vars == <<write_entered, num_readers, gate1, gate2, pc, timed>>

\* Outside; in lock at gate 1 and at gate 2; in lock_shared; holding it.
PCs == {"idle", "lock1", "lock2", "shared", "writing", "reading"}

Init ==
    /\ write_entered = FALSE
    /\ num_readers = 0
    /\ gate1 = {} /\ gate2 = {}
    /\ pc = [t \in Threads |-> "idle"]
    /\ timed = [t \in Threads |-> FALSE]

Goto(t, place) == pc' = [pc EXCEPT ![t] = place]

\* A call that starts, with or without a deadline, and one that goes on.
Begins(t) ==
    /\ pc[t] = "idle"
    /\ \E deadline \in BOOLEAN : timed' = [timed EXCEPT ![t] = deadline]

Resumes(t, place) ==
    /\ pc[t] = place
    /\ t \notin gate1 \cup gate2
    /\ UNCHANGED timed

-----------------------------------------------------------------------------
(* Exclusive ownership *)

\* lock() and try_lock_until() from gate 1 on, up to the next wait.
EnterOrWait1(t) ==
    \/ /\ write_entered
       /\ gate1' = gate1 \cup {t}
       /\ Goto(t, "lock1")
       /\ UNCHANGED <<write_entered, num_readers, gate2>>
    \/ /\ ~write_entered
       /\ write_entered' = TRUE
       /\ IF num_readers > 0
          THEN gate2' = gate2 \cup {t} /\ Goto(t, "lock2")
          ELSE UNCHANGED gate2 /\ Goto(t, "writing")
       /\ gate1' = gate1 \ {t}
       /\ UNCHANGED num_readers

\* lock() and try_lock_until() called.
Lock(t) == Begins(t) /\ EnterOrWait1(t)

\* Woken at gate 1.
LockAgain(t) == Resumes(t, "lock1") /\ EnterOrWait1(t)

\* Woken at gate 2.
LockGate2(t) ==
    /\ Resumes(t, "lock2")
    /\ IF num_readers > 0
       THEN gate2' = gate2 \cup {t} /\ UNCHANGED pc
       ELSE UNCHANGED gate2 /\ Goto(t, "writing")
    /\ UNCHANGED <<write_entered, num_readers, gate1>>

\* Plausible slip: try_lock looks at the writer only.
TryLock_IgnoreReaders(t) ==
    /\ pc[t] = "idle"
    /\ ~write_entered
    /\ write_entered' = TRUE
    /\ Goto(t, "writing")
    /\ UNCHANGED <<num_readers, gate1, gate2, timed>>

\* try_lock() that succeeds; one that fails changes nothing.
TryLock(t) ==
    /\ pc[t] = "idle"
    /\ ~write_entered /\ num_readers = 0
    /\ write_entered' = TRUE
    /\ Goto(t, "writing")
    /\ UNCHANGED <<num_readers, gate1, gate2, timed>>

\* unlock(): the state becomes 0 and everybody at gate 1 wakes.
Unlock(t) ==
    /\ pc[t] = "writing"
    /\ write_entered' = FALSE
    /\ num_readers' = 0
    /\ gate1' = {}
    /\ Goto(t, "idle")
    /\ UNCHANGED <<gate2, timed>>

-----------------------------------------------------------------------------
(* Shared ownership *)

\* A reader has to wait.
Blocked == write_entered \/ num_readers = __n_readers_

\* lock_shared() and try_lock_shared_until() up to the next wait.
EnterOrWaitShared(t) ==
    \/ /\ Blocked
       /\ gate1' = gate1 \cup {t}
       /\ Goto(t, "shared")
       /\ UNCHANGED <<write_entered, num_readers, gate2>>
    \/ /\ ~Blocked
       /\ num_readers' = num_readers + 1
       /\ gate1' = gate1 \ {t}
       /\ Goto(t, "reading")
       /\ UNCHANGED <<write_entered, gate2>>

LockShared(t) == Begins(t) /\ EnterOrWaitShared(t)

LockSharedAgain(t) == Resumes(t, "shared") /\ EnterOrWaitShared(t)

\* try_lock_shared() that succeeds; one that fails changes nothing.
TryLockShared(t) ==
    /\ pc[t] = "idle"
    /\ ~Blocked
    /\ num_readers' = num_readers + 1
    /\ Goto(t, "reading")
    /\ UNCHANGED <<write_entered, gate1, gate2, timed>>

\* notify_one() on a set of sleepers.
NotifyOne(sleepers, left) ==
    IF sleepers = {} THEN left = {}
    ELSE \E t \in sleepers : left = sleepers \ {t}

\* Plausible slip: the last reader wakes the writer only at gate 1.
UnlockShared_WrongGate(t) ==
    /\ pc[t] = "reading"
    /\ num_readers' = num_readers - 1
    /\ IF num_readers' = __n_readers_ - 1 \/ num_readers' = 0
       THEN NotifyOne(gate1, gate1') ELSE UNCHANGED gate1
    /\ Goto(t, "idle")
    /\ UNCHANGED <<gate2, write_entered, timed>>

\* unlock_shared(): the last reader wakes the writer that has entered; the
\* first to leave a full lock wakes one thread at gate 1.
UnlockShared(t) ==
    /\ pc[t] = "reading"
    /\ num_readers' = num_readers - 1
    /\ IF write_entered
       THEN /\ IF num_readers' = 0
               THEN NotifyOne(gate2, gate2') ELSE UNCHANGED gate2
            /\ UNCHANGED gate1
       ELSE /\ IF num_readers' = __n_readers_ - 1
               THEN NotifyOne(gate1, gate1') ELSE UNCHANGED gate1
            /\ UNCHANGED gate2
    /\ Goto(t, "idle")
    /\ UNCHANGED <<write_entered, timed>>

-----------------------------------------------------------------------------
(* The condition variables and the clock *)

\* A wait may return although nobody notified.
SpuriousWakeup(t) ==
    /\ t \in gate1 \cup gate2
    /\ gate1' = gate1 \ {t}
    /\ gate2' = gate2 \ {t}
    /\ UNCHANGED <<write_entered, num_readers, pc, timed>>

\* wait_until returns timeout at gate 1: the condition is looked at once more.
TimeoutGate1(t) ==
    /\ t \in gate1 /\ timed[t]
    /\ \/ /\ pc[t] = "lock1" /\ ~write_entered
          /\ EnterOrWait1(t)
       \/ /\ pc[t] = "shared" /\ ~Blocked
          /\ EnterOrWaitShared(t)
       \/ /\ IF pc[t] = "lock1" THEN write_entered ELSE Blocked
          /\ gate1' = gate1 \ {t}
          /\ Goto(t, "idle")
          /\ UNCHANGED <<write_entered, num_readers, gate2>>
    /\ UNCHANGED timed

\* Plausible slip: the writer that gives up wakes nobody.
TimeoutGate2_NoNotify(t) ==
    /\ t \in gate2 /\ timed[t]
    /\ gate2' = gate2 \ {t}
    /\ \/ /\ num_readers = 0
          /\ Goto(t, "writing")
          /\ UNCHANGED <<write_entered, gate1>>
       \/ /\ num_readers > 0
          /\ write_entered' = FALSE
          /\ Goto(t, "idle")
          /\ UNCHANGED gate1
    /\ UNCHANGED <<num_readers, timed>>

\* Plausible slip: the writer that gives up leaves its entry behind.
TimeoutGate2_StillEntered(t) ==
    /\ t \in gate2 /\ timed[t]
    /\ gate2' = gate2 \ {t}
    /\ \/ /\ num_readers = 0
          /\ Goto(t, "writing")
          /\ UNCHANGED gate1
       \/ /\ num_readers > 0
          /\ gate1' = {}
          /\ Goto(t, "idle")
    /\ UNCHANGED <<write_entered, num_readers, timed>>

\* wait_until returns timeout at gate 2: a writer that gives up takes back its
\* entry and wakes everybody it kept out.
TimeoutGate2(t) ==
    /\ t \in gate2 /\ timed[t]
    /\ gate2' = gate2 \ {t}
    /\ \/ /\ num_readers = 0
          /\ Goto(t, "writing")
          /\ UNCHANGED <<write_entered, gate1>>
       \/ /\ num_readers > 0
          /\ write_entered' = FALSE
          /\ gate1' = {}
          /\ Goto(t, "idle")
    /\ UNCHANGED <<num_readers, timed>>

-----------------------------------------------------------------------------
Step(t) ==
    \/ Lock(t) \/ LockAgain(t) \/ LockGate2(t) \/ TryLock(t) \/ Unlock(t)
    \/ LockShared(t) \/ LockSharedAgain(t) \/ TryLockShared(t)
    \/ UnlockShared(t)
    \/ SpuriousWakeup(t) \/ TimeoutGate1(t) \/ TimeoutGate2(t)

Next == \E t \in Threads : Step(t)

Spec == Init /\ [][Next]_vars

\* A woken thread gets __mut_ and goes on, and nobody keeps the lock for ever.
Fairness ==
    \A t \in Threads :
        /\ WF_vars(LockAgain(t))
        /\ WF_vars(LockGate2(t))
        /\ WF_vars(LockSharedAgain(t))
        /\ WF_vars(Unlock(t))
        /\ WF_vars(UnlockShared(t))

FairSpec == Spec /\ Fairness

-----------------------------------------------------------------------------
(* Properties *)

At(place) == {t \in Threads : pc[t] = place}
Readers   == At("reading")
Entered   == At("writing") \cup At("lock2")

TypeOK ==
    /\ write_entered \in BOOLEAN
    /\ num_readers \in 0 .. __n_readers_
    /\ gate1 \subseteq At("lock1") \cup At("shared")
    /\ gate2 \subseteq At("lock2")
    /\ pc \in [Threads -> PCs]
    /\ timed \in [Threads -> BOOLEAN]

\* The state word and the threads agree: it counts exactly the threads inside
\* for reading, and __write_entered_ is set exactly while one thread, never
\* two, has entered as a writer, be it inside or still at gate 2.
StateCounts ==
    /\ num_readers = Cardinality(Readers)
    /\ write_entered <=> Entered # {}
    /\ \A t, u \in Entered : t = u

\* A writer inside is alone, with the readers it waited for gone.
MutualExclusion ==
    At("writing") # {} => num_readers = 0

\* No wake-up is lost: whoever sleeps at a gate has a reason to, so a thread
\* that may go on is awake.  At gate 2 the reason is a reader inside.
NoForgottenSleeper ==
    /\ gate1 # {} => Blocked
    /\ gate2 # {} => num_readers > 0

\* The inductive invariant: the four together.
IInv == TypeOK /\ StateCounts /\ MutualExclusion /\ NoForgottenSleeper

\* The lock is a reader-writer lock: a writer that has entered and waits at
\* gate 2 does not hold it yet.
Abs == INSTANCE RWLock WITH writers <- At("writing"), readers <- Readers
AbsSpec == Abs!Spec

\* Readers cannot starve a writer that has entered: it gets the lock, unless
\* its deadline comes first.
EnteredWriterGetsIn ==
    \A t \in Threads :
        pc[t] = "lock2" ~> pc[t] = "writing" \/ (timed[t] /\ pc[t] = "idle")
=============================================================================
