--------------------------- MODULE LockFileManager ---------------------------
(***************************************************************************)
(* The lock file that coordinates compiler processes building one module   *)
(* file: llvm/lib/Support/LockFileManager.cpp, driven by                   *)
(* compileAndLoadModule of clang/lib/Frontend/CompilerInstance.cpp.        *)
(*                                                                         *)
(* The lock file is a symbolic link to a file unique to the process that   *)
(* made it, which holds that process's id.  Every system call on the       *)
(* shared names is a step of its own; processes may crash between any two. *)
(***************************************************************************)
EXTENDS Integers, FiniteSets

CONSTANTS Procs,        \* the compiler processes
          Remote,       \* the ones that run on another host
          MaxPolls,     \* sleeps before waitForUnlock gives up (19 in the code)
          MaxErrors,    \* bound: reads and removals of the lock file that fail
          None          \* no lock file, no owner read

ASSUME LockFileAssumption ==
    None \notin Procs /\ MaxPolls \in Nat /\ MaxErrors \in Nat

VARIABLES
    lock,       \* whose unique file the lock file links to, or None
    unique,     \* the processes whose unique lock file exists
    module,     \* whether the module file exists (FileName)
    alive,      \* the processes getsid() finds
    pc,         \* the next system call of each process
    seen,       \* the owner it read from the lock file (Owner)
    polls,      \* how often it has slept in this waitForUnlock (Interval)
    stolen,     \* history: a lock file of a live owner was removed by another
    errors,     \* history: how many reads and removals have failed
    leaked      \* history: owners whose destructor failed to remove the lock file

errorVars == <<errors, leaked>>
vars == <<lock, unique, module, alive, pc, seen, polls, stolen, errorVars>>

PCs == {"read", "check", "drop", "create", "link", "exists", "purge",
        "owned", "unlock", "cleanup", "wait", "gone", "poll", "timeout", "load",
        "done", "crashed"}

\* The processes that were told LFS_Owned and have not released the lock.
Owns(p) == pc[p] \in {"owned", "unlock"}
Owners  == {p \in alive : Owns(p)}

\* exists(), access() and getFile() follow the link.
Readable == lock \in unique

Goto(p, from, to) ==
    /\ p \in alive /\ pc[p] = from
    /\ pc' = [pc EXCEPT ![p] = to]

\* processStillExecuting(): only a process of the same host is found dead.
StillExecuting(p, q) == q \in alive \/ (p \in Remote) # (q \in Remote)

\* remove(LockFileName) by p succeeds, whatever the link is by then.
RemovesLock(p) ==
    /\ lock' = None
    /\ stolen' = (stolen \/ lock \in Owners \ {p})
    /\ UNCHANGED errors

\* A read or a removal of the lock file fails.
IOError == errors < MaxErrors /\ errors' = errors + 1

\* remove(LockFileName) where the code does not look at the result.
RemoveLock(p) ==
    \/ RemovesLock(p)
    \/ lock # None /\ IOError /\ UNCHANGED <<lock, stolen>>

\* waitForUnlock returns: Owner and Interval are not used again.
EndWait(p) ==
    /\ seen' = [seen EXCEPT ![p] = None]
    /\ polls' = [polls EXCEPT ![p] = 0]

Init ==
    /\ lock = None
    /\ unique = {}
    /\ module \in BOOLEAN
    /\ alive = Procs
    /\ pc = [p \in Procs |-> "read"]
    /\ seen = [p \in Procs |-> None]
    /\ polls = [p \in Procs |-> 0]
    /\ stolen = FALSE
    /\ errors = 0
    /\ leaked = {}

-----------------------------------------------------------------------------
(* readLockFile(), called before the unique file is made and again after    *)
(* each failed link.                                                        *)

\* MemoryBuffer::getFile: the owner, or straight to the removal.
ReadLockFile(p) ==
    /\ \/ /\ Readable
          /\ Goto(p, "read", "check")
          /\ seen' = [seen EXCEPT ![p] = lock]
          /\ UNCHANGED errors
       \/ /\ IF Readable THEN IOError ELSE UNCHANGED errors
          /\ Goto(p, "read", "drop")
          /\ UNCHANGED seen
    /\ UNCHANGED <<lock, unique, module, alive, polls, stolen, leaked>>

\* LFS_Shared if the owner still executes (the unique file, if there is one, is
\* wiped out, and waitForUnlock is called); else the lock file is invalid.
CheckOwner(p) ==
    /\ \/ /\ StillExecuting(p, seen[p])
          /\ Goto(p, "check", "wait")
          /\ unique' = unique \ {p}
          /\ polls' = [polls EXCEPT ![p] = 0]
          /\ UNCHANGED seen
       \/ /\ ~StillExecuting(p, seen[p])
          /\ Goto(p, "check", "drop")
          /\ seen' = [seen EXCEPT ![p] = None]
          /\ UNCHANGED <<unique, polls>>
    /\ UNCHANGED <<lock, module, alive, stolen, errorVars>>

\* The removal of a lock file that is missing or invalid.
DropLockFile(p) ==
    /\ Goto(p, "drop", IF p \in unique THEN "exists" ELSE "create")
    /\ RemoveLock(p)
    /\ UNCHANGED <<unique, module, alive, seen, polls, leaked>>

-----------------------------------------------------------------------------
(* The rest of the constructor                                             *)

\* createUniqueFile and the write of the process id; either may fail.
CreateUniqueFile(p) ==
    /\ \/ Goto(p, "create", "link") /\ unique' = unique \cup {p}
       \/ Goto(p, "create", "done") /\ UNCHANGED unique
    /\ UNCHANGED <<lock, module, alive, seen, polls, stolen, errorVars>>

\* Plausible slip: a call that replaces an existing lock file.
CreateLink_Replaces(p) ==
    /\ \/ Goto(p, "link", "owned") /\ lock' = p
       \/ Goto(p, "link", "done") /\ UNCHANGED lock
    /\ UNCHANGED <<unique, module, alive, seen, polls, stolen, errorVars>>

\* create_link: LFS_Owned; read the lock file that exists; or another error.
CreateLink(p) ==
    /\ \/ lock = None /\ Goto(p, "link", "owned") /\ lock' = p
       \/ lock # None /\ Goto(p, "link", "read") /\ UNCHANGED lock
       \/ Goto(p, "link", "done") /\ UNCHANGED lock
    /\ UNCHANGED <<unique, module, alive, seen, polls, stolen, errorVars>>

\* exists(): link again if the lock file is gone, else clean it up.
CheckExists(p) ==
    /\ Goto(p, "exists", IF Readable THEN "purge" ELSE "link")
    /\ UNCHANGED <<lock, unique, module, alive, seen, polls, stolen, errorVars>>

\* remove() of a lock file nobody owns; it may fail.
PurgeLockFile(p) ==
    /\ \/ Goto(p, "purge", "link") /\ RemovesLock(p)
       \/ Goto(p, "purge", "done") /\ UNCHANGED <<lock, stolen, errors>>
    /\ UNCHANGED <<unique, module, alive, seen, polls, leaked>>

-----------------------------------------------------------------------------
(* The owner: compileModuleImpl, then the destructor                       *)

\* The build writes the module file, or fails.
BuildModule(p) ==
    /\ Goto(p, "owned", "unlock")
    /\ module' \in {module, TRUE}
    /\ UNCHANGED <<lock, unique, alive, seen, polls, stolen, errorVars>>

\* Plausible slip: the destructor removes the unique file before the link.
Unlock_UniqueFirst(p) ==
    /\ Goto(p, "unlock", "cleanup")
    /\ unique' = unique \ {p}
    /\ UNCHANGED <<lock, module, alive, seen, polls, stolen, errorVars>>

\* ~LockFileManager(): remove the lock file ...
Unlock(p) ==
    /\ Goto(p, "unlock", "cleanup")
    /\ RemoveLock(p)
    /\ leaked' = leaked \cup ({lock'} \cap {p})
    /\ UNCHANGED <<unique, module, alive, seen, polls>>

\* ... and then the unique lock file.
Cleanup(p) ==
    /\ Goto(p, "cleanup", "done")
    /\ unique' = unique \ {p}
    /\ UNCHANGED <<lock, module, alive, seen, polls, stolen, errorVars>>

-----------------------------------------------------------------------------
(* The others: waitForUnlock() and what compileAndLoadModule makes of it    *)

\* access(): whether the lock file is gone.
PollLockFile(p) ==
    /\ Goto(p, "wait", IF Readable THEN "poll" ELSE "gone")
    /\ UNCHANGED <<lock, unique, module, alive, seen, polls, stolen, errorVars>>

\* It is: Res_Success if there is a module file, else Res_OwnerDied and
\* another attempt.
CheckModule(p) ==
    /\ Goto(p, "gone", IF module THEN "load" ELSE "read")
    /\ EndWait(p)
    /\ UNCHANGED <<lock, unique, module, alive, stolen, errorVars>>

\* The owner it read has died: Res_OwnerDied.
OwnerDied(p) ==
    /\ ~StillExecuting(p, seen[p])
    /\ Goto(p, "poll", "read")
    /\ EndWait(p)
    /\ UNCHANGED <<lock, unique, module, alive, stolen, errorVars>>

\* Plausible slip: the interval is not increased.
SleepAgain_SameInterval(p) ==
    /\ StillExecuting(p, seen[p])
    /\ Goto(p, "poll", IF polls[p] + 1 < MaxPolls THEN "wait" ELSE "timeout")
    /\ UNCHANGED <<lock, unique, module, alive, seen, polls, stolen, errorVars>>

\* Otherwise double the interval and sleep again, or give up.
SleepAgain(p) ==
    /\ StillExecuting(p, seen[p])
    /\ Goto(p, "poll", IF polls[p] + 1 < MaxPolls THEN "wait" ELSE "timeout")
    /\ polls' = [polls EXCEPT ![p] = @ + 1]
    /\ UNCHANGED <<lock, unique, module, alive, seen, stolen, errorVars>>

\* Plausible slip: give up and leave the lock file alone.
UnsafeRemoveLockFile_Missing(p) ==
    /\ Goto(p, "timeout", "done")
    /\ EndWait(p)
    /\ UNCHANGED <<lock, unique, module, alive, stolen, errorVars>>

\* Res_Timeout: unsafeRemoveLockFile() and give up.
UnsafeRemoveLockFile(p) ==
    /\ Goto(p, "timeout", "done")
    /\ RemoveLock(p)
    /\ EndWait(p)
    /\ UNCHANGED <<unique, module, alive, leaked>>

\* ReadAST of the module the other process built: it may be out of date, and
\* then everything starts over.
LoadModule(p) ==
    /\ Goto(p, "load", "done") \/ Goto(p, "load", "read")
    /\ UNCHANGED <<lock, unique, module, alive, seen, polls, stolen, errorVars>>

-----------------------------------------------------------------------------
\* A process exits when it is done, or is killed before.  What it was doing
\* dies with it, except that the lock file may still name it.
Exit(p) ==
    /\ p \in alive /\ pc[p] = "done"
    /\ alive' = alive \ {p}
    /\ UNCHANGED <<lock, unique, module, pc, seen, polls, stolen, errorVars>>

Crash(p) ==
    /\ p \in alive /\ pc[p] # "done"
    /\ alive' = alive \ {p}
    /\ pc' = [pc EXCEPT ![p] = IF Owns(p) THEN @ ELSE "crashed"]
    /\ EndWait(p)
    /\ UNCHANGED <<lock, unique, module, stolen, errorVars>>

Step(p) ==
    \/ ReadLockFile(p) \/ CheckOwner(p) \/ DropLockFile(p)
    \/ CreateUniqueFile(p) \/ CreateLink(p) \/ CheckExists(p) \/ PurgeLockFile(p)
    \/ BuildModule(p) \/ Unlock(p) \/ Cleanup(p)
    \/ PollLockFile(p) \/ CheckModule(p) \/ OwnerDied(p) \/ SleepAgain(p)
    \/ UnsafeRemoveLockFile(p) \/ LoadModule(p)
    \/ Exit(p)

Next == \E p \in Procs : Step(p) \/ Crash(p)

Spec == Init /\ [][Next]_vars

\* A process that has not crashed keeps running.
FairSpec == Spec /\ \A p \in Procs : WF_vars(Step(p))

-----------------------------------------------------------------------------
(* Properties                                                              *)

\* Types, and: Owner is engaged wherever waitForUnlock dereferences it.
TypeOK ==
    /\ lock \in Procs \cup {None}
    /\ unique \subseteq Procs
    /\ module \in BOOLEAN
    /\ alive \subseteq Procs
    /\ pc \in [Procs -> PCs]
    /\ seen \in [Procs -> Procs \cup {None}]
    /\ polls \in [Procs -> Nat]
    /\ stolen \in BOOLEAN
    /\ errors \in 0 .. MaxErrors
    /\ leaked \subseteq Procs
    /\ \A p \in Procs : pc[p] \in {"check", "wait", "gone", "poll"} => seen[p] # None

\* The lock file stands for an instance that holds LFS_Owned, dead or alive,
\* and never dangles: no error path, early return or time-out leaves it behind,
\* so a process that ends without a crash leaves no lock, and exists() and
\* access(), which follow the link, tell whether the lock file is there.  The
\* one exception is a destructor whose own removal failed, unseen.
LockIsBacked ==
    lock # None => lock \in leaked \/ (Owns(lock) /\ lock \in unique)

\* The link excludes: two live processes are both told LFS_Owned only if the
\* lock file of a live owner was removed by another process.
ExclusiveUnlessStolen ==
    ~stolen => \A p, q \in Owners : p = q

\* A live owner whose lock was not stolen is the one the link names.
OwnersHoldLock == ~stolen => \A p \in Owners : lock = p

\* The unique file of a process exists from its creation to its removal.
UniqueFollowsPc ==
    \A p \in Procs :
        /\ pc[p] \in {"link", "exists", "purge", "owned", "unlock", "cleanup"}
              => p \in unique
        /\ pc[p] \in {"create", "wait", "gone", "poll", "timeout", "load"} => p \notin unique

IInv ==
    TypeOK /\ LockIsBacked /\ ExclusiveUnlessStolen /\ OwnersHoldLock /\ UniqueFollowsPc

\* Every process finishes unless it crashes: the retries of the constructor
\* and of compileAndLoadModule end, and nobody waits for ever for a lock file
\* whose owner crashed, on this host or on another.
EveryProcessFinishes ==
    \A p \in Procs : <>(pc[p] = "done" \/ p \notin alive)

\* "Clear the lock file so that future invokations can make progress": while a
\* process waits, a lock file whose owner is dead, on whatever host, does not
\* stay, unless the waiter crashes too or the file system fails.
DeadLock == lock # None /\ lock \notin alive
DeadLockIsCleared ==
    \A p \in Procs :
        DeadLock /\ pc[p] = "wait" /\ p \in alive
        ~> ~DeadLock \/ pc[p] = "crashed" \/ errors # 0

-----------------------------------------------------------------------------
(* What the documentation says and the code does not do.                   *)

\* Only a single process can create the lock file and own it.
SingleOwner == \A p, q \in Owners : p = q
=============================================================================
