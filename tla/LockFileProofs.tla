---------------------------- MODULE LockFileProofs ----------------------------
(***************************************************************************)
(* What the lock file guarantees for any number of processes, crashes and  *)
(* stolen locks included.                                                  *)
(***************************************************************************)
EXTENDS LockFileManager, TLAPS

\* Where a step takes the process that makes it, and nobody else.
LEMMA GotoEffect ==
    ASSUME TypeOK, NEW p \in Procs, NEW from, NEW to \in PCs, Goto(p, from, to)
    PROVE  /\ pc' \in [Procs -> PCs]
           /\ p \in alive /\ pc[p] = from /\ pc'[p] = to
           /\ \A q \in Procs \ {p} : pc'[q] = pc[q]
  BY DEF Goto, TypeOK

\* The processes that own the lock after a step that does not acquire it.
LEMMA OwnersAfter ==
    ASSUME TypeOK, NEW p \in Procs,
           \A q \in Procs \ {p} : pc'[q] = pc[q],
           alive' \subseteq alive
    PROVE  /\ Owners' \subseteq Owners \cup {p}
           /\ ~Owns(p)' => Owners' \subseteq Owners \ {p}
           /\ Owns(p) => Owners' \subseteq Owners \/ p \notin Owners
  BY DEF Owners, Owns, TypeOK

\* The file system may fail only so often.
LEMMA ErrorsBounded ==
    ASSUME TypeOK, IOError \/ UNCHANGED errors
    PROVE  errors' \in 0 .. MaxErrors
  BY LockFileAssumption DEF TypeOK, IOError

\* Removing the lock file, by whichever process and whether it succeeds or not,
\* keeps what it stands for.
LEMMA RemovePreserves ==
    ASSUME IInv, NEW p \in Procs, RemoveLock(p),
           \A q \in Procs \ {p} : pc'[q] = pc[q],
           ~Owns(p)', alive' = alive, unique' = unique,
           leaked \subseteq leaked', Owns(p) /\ lock' = p => p \in leaked'
    PROVE  /\ LockIsBacked' /\ ExclusiveUnlessStolen' /\ OwnersHoldLock'
           /\ lock' \in Procs \cup {None} /\ stolen' \in BOOLEAN
           /\ errors' \in 0 .. MaxErrors
  <1>0. /\ TypeOK /\ Owners' \subseteq Owners \ {p}
        /\ LockIsBacked /\ ExclusiveUnlessStolen /\ OwnersHoldLock
    BY OwnersAfter DEF IInv
  <1>1. CASE RemovesLock(p)
    <2>1. ~stolen' => Owners' = {}
      <3>. SUFFICES ASSUME ~stolen', NEW q \in Owners' PROVE FALSE
        OBVIOUS
      <3>1. ~stolen /\ lock \notin Owners \ {p}
        BY <1>1 DEF RemovesLock
      <3>2. q \in Owners \ {p} /\ lock = q
        BY <1>0, <3>1 DEF OwnersHoldLock
      <3>. QED
        BY <3>1, <3>2
    <2>2. lock' = None /\ stolen' \in BOOLEAN /\ errors' \in 0 .. MaxErrors
      BY <1>0, <1>1 DEF RemovesLock, TypeOK
    <2>. QED
      BY <2>1, <2>2 DEF LockIsBacked, ExclusiveUnlessStolen, OwnersHoldLock
  <1>2. CASE ~RemovesLock(p)
    <2>1. IOError /\ UNCHANGED <<lock, stolen>>
      BY <1>2 DEF RemoveLock
    <2>2. LockIsBacked'
      BY <1>0, <2>1 DEF LockIsBacked, Owns, TypeOK
    <2>3. errors' \in 0 .. MaxErrors /\ lock' \in Procs \cup {None} /\ stolen' \in BOOLEAN
      BY <1>0, <2>1, ErrorsBounded DEF TypeOK
    <2>. QED
      BY <1>0, <2>1, <2>2, <2>3 DEF ExclusiveUnlessStolen, OwnersHoldLock
  <1>. QED
    BY <1>1, <1>2

\* A step of a process that owns nothing before or after it, and that touches
\* neither the lock file nor a unique file but its own.
LEMMA BystanderPreserves ==
    ASSUME IInv, NEW p \in Procs, UNCHANGED <<lock, stolen, leaked>>,
           \A q \in Procs \ {p} : pc'[q] = pc[q],
           ~Owns(p), ~Owns(p)', alive' \subseteq alive,
           unique' \in {unique, unique \ {p}, unique \cup {p}}
    PROVE  LockIsBacked' /\ ExclusiveUnlessStolen' /\ OwnersHoldLock'
  <1>1. TypeOK /\ Owners' \subseteq Owners
    BY OwnersAfter DEF IInv
  <1>2. LockIsBacked'
    BY <1>1 DEF IInv, TypeOK, LockIsBacked, Owns
  <1>. QED
    BY <1>1, <1>2 DEF IInv, ExclusiveUnlessStolen, OwnersHoldLock

\* Every step preserves the inductive invariant.
LEMMA StepPreservesIInv ==
    ASSUME IInv, NEW p \in Procs, Step(p) \/ Crash(p)
    PROVE  IInv'
  <1> USE DEF PCs, errorVars
  <1>0. TypeOK /\ UniqueFollowsPc /\ LockIsBacked
    BY DEF IInv
  <1>1. CASE ReadLockFile(p)
    <2>1. /\ \A q \in Procs \ {p} : pc'[q] = pc[q]
          /\ pc[p] = "read" /\ pc'[p] \in {"check", "drop"} /\ pc' \in [Procs -> PCs]
          /\ UNCHANGED <<lock, unique, module, alive, polls, stolen, leaked>>
      BY <1>0, <1>1, GotoEffect DEF ReadLockFile
    <2>c. errors' \in 0 .. MaxErrors
      BY <1>0, <1>1, ErrorsBounded DEF ReadLockFile
    <2>a. \/ pc'[p] = "check" /\ seen' = [seen EXCEPT ![p] = lock] /\ lock \in Procs
          \/ pc'[p] = "drop" /\ seen' = seen
      BY <1>0, <1>1, GotoEffect DEF ReadLockFile, TypeOK, Readable
    <2>b. UniqueFollowsPc'
      BY <1>0, <2>1 DEF UniqueFollowsPc
    <2>2. TypeOK' /\ UniqueFollowsPc'
      BY <1>0, <2>1, <2>a, <2>b, <2>c, LockFileAssumption DEF TypeOK
    <2>. QED
      BY <2>1, <2>2, BystanderPreserves DEF IInv, Owns
  <1>2. CASE CheckOwner(p)
    <2>1. /\ \A q \in Procs \ {p} : pc'[q] = pc[q]
          /\ pc[p] = "check" /\ pc'[p] \in {"wait", "drop"} /\ pc' \in [Procs -> PCs]
          /\ UNCHANGED <<lock, module, alive, stolen, errorVars>>
          /\ unique' \in {unique, unique \ {p}}
          /\ polls' \in [Procs -> Nat]
      BY <1>0, <1>2, GotoEffect DEF CheckOwner, TypeOK
    <2>2. TypeOK' /\ UniqueFollowsPc'
      BY <1>0, <1>2, <2>1, GotoEffect DEF CheckOwner, TypeOK, UniqueFollowsPc
    <2>. QED
      BY <2>1, <2>2, BystanderPreserves DEF IInv, Owns
  <1>3. CASE DropLockFile(p)
    <2>1. /\ \A q \in Procs \ {p} : pc'[q] = pc[q]
          /\ pc'[p] = (IF p \in unique THEN "exists" ELSE "create")
          /\ pc' \in [Procs -> PCs]
          /\ RemoveLock(p) /\ UNCHANGED <<unique, module, alive, seen, polls, leaked>>
      BY <1>0, <1>3, GotoEffect DEF DropLockFile
    <2>2. UniqueFollowsPc'
      BY <1>0, <2>1 DEF UniqueFollowsPc
    <2>3. ~Owns(p)' /\ ~Owns(p)
      BY <1>0, <1>3, <2>1, GotoEffect DEF DropLockFile, Owns
    <2>4. /\ LockIsBacked' /\ ExclusiveUnlessStolen' /\ OwnersHoldLock'
          /\ lock' \in Procs \cup {None} /\ stolen' \in BOOLEAN
          /\ errors' \in 0 .. MaxErrors
      BY <2>1, <2>3, RemovePreserves
    <2>5. TypeOK'
      BY <1>0, <2>1, <2>4 DEF TypeOK
    <2>. QED
      BY <2>2, <2>4, <2>5 DEF IInv
  <1>4. CASE CreateUniqueFile(p)
    <2>1. /\ \A q \in Procs \ {p} : pc'[q] = pc[q]
          /\ pc[p] = "create" /\ pc'[p] \in {"link", "done"} /\ pc' \in [Procs -> PCs]
          /\ UNCHANGED <<lock, module, alive, seen, polls, stolen, errorVars>>
          /\ unique' = (IF pc'[p] = "link" THEN unique \cup {p} ELSE unique)
      BY <1>0, <1>4, GotoEffect DEF CreateUniqueFile
    <2>2. TypeOK' /\ UniqueFollowsPc'
      BY <1>0, <2>1 DEF TypeOK, UniqueFollowsPc
    <2>. QED
      BY <2>1, <2>2, BystanderPreserves DEF IInv, Owns
  <1>5. CASE CreateLink(p)
    <2>1. /\ \A q \in Procs \ {p} : pc'[q] = pc[q]
          /\ pc[p] = "link" /\ pc'[p] \in {"owned", "read", "done"}
          /\ pc' \in [Procs -> PCs]
          /\ UNCHANGED <<unique, module, alive, seen, polls, stolen, errorVars>>
          /\ pc'[p] # "owned" => lock' = lock
          /\ pc'[p] = "owned" => lock = None /\ lock' = p
      BY <1>0, <1>5, GotoEffect DEF CreateLink
    <2>2. TypeOK' /\ UniqueFollowsPc'
      BY <1>0, <2>1 DEF TypeOK, UniqueFollowsPc
    <2>3. CASE pc'[p] # "owned"
      BY <2>1, <2>2, <2>3, BystanderPreserves DEF IInv, Owns
    <2>4. CASE pc'[p] = "owned"
      <3>1. ~stolen => Owners = {}
        BY <1>0, <2>1, <2>4, LockFileAssumption DEF IInv, OwnersHoldLock, TypeOK, Owners
      <3>2. Owners' \subseteq Owners \cup {p}
        BY <1>0, <2>1, OwnersAfter
      <3>3. LockIsBacked'
        BY <1>0, <2>1, <2>4 DEF LockIsBacked, Owns, UniqueFollowsPc
      <3>. QED
        BY <2>1, <2>2, <2>4, <3>1, <3>2, <3>3
        DEF IInv, ExclusiveUnlessStolen, OwnersHoldLock
    <2>. QED
      BY <2>3, <2>4
  <1>6. CASE CheckExists(p)
    <2>1. /\ \A q \in Procs \ {p} : pc'[q] = pc[q]
          /\ pc[p] = "exists" /\ pc'[p] \in {"purge", "link"} /\ pc' \in [Procs -> PCs]
          /\ UNCHANGED <<lock, unique, module, alive, seen, polls, stolen, errorVars>>
      BY <1>0, <1>6, GotoEffect DEF CheckExists
    <2>2. TypeOK' /\ UniqueFollowsPc'
      BY <1>0, <2>1 DEF TypeOK, UniqueFollowsPc
    <2>. QED
      BY <2>1, <2>2, BystanderPreserves DEF IInv, Owns
  <1>7. CASE PurgeLockFile(p)
    <2>1. /\ \A q \in Procs \ {p} : pc'[q] = pc[q]
          /\ pc[p] = "purge" /\ pc'[p] \in {"link", "done"} /\ pc' \in [Procs -> PCs]
          /\ UNCHANGED <<unique, module, alive, seen, polls, leaked>>
          /\ RemoveLock(p) \/ UNCHANGED <<lock, stolen, errors>>
      BY <1>0, <1>7, GotoEffect DEF PurgeLockFile, RemoveLock
    <2>2. UniqueFollowsPc' /\ ~Owns(p)' /\ ~Owns(p)
      BY <1>0, <2>1 DEF UniqueFollowsPc, Owns
    <2>3. /\ LockIsBacked' /\ ExclusiveUnlessStolen' /\ OwnersHoldLock'
          /\ lock' \in Procs \cup {None} /\ stolen' \in BOOLEAN
          /\ errors' \in 0 .. MaxErrors
      BY <1>0, <2>1, <2>2, RemovePreserves, BystanderPreserves DEF TypeOK
    <2>4. TypeOK'
      BY <1>0, <2>1, <2>3 DEF TypeOK
    <2>. QED
      BY <2>2, <2>3, <2>4 DEF IInv
  <1>8. CASE BuildModule(p)
    <2>1. /\ \A q \in Procs \ {p} : pc'[q] = pc[q]
          /\ pc[p] = "owned" /\ pc'[p] = "unlock" /\ pc' \in [Procs -> PCs]
          /\ UNCHANGED <<lock, unique, alive, seen, polls, stolen, errorVars>>
          /\ module' \in BOOLEAN
      BY <1>0, <1>8, GotoEffect DEF BuildModule, TypeOK
    <2>2. TypeOK' /\ UniqueFollowsPc'
      BY <1>0, <2>1 DEF TypeOK, UniqueFollowsPc
    <2>3. \A q \in Procs : Owns(q)' <=> Owns(q)
      BY <2>1 DEF Owns
    <2>4. Owners' = Owners
      BY <1>0, <2>1, <2>3 DEF Owners, TypeOK
    <2>5. LockIsBacked'
      BY <1>0, <2>1, <2>3 DEF LockIsBacked, TypeOK
    <2>. QED
      BY <2>1, <2>2, <2>4, <2>5 DEF IInv, ExclusiveUnlessStolen, OwnersHoldLock
  <1>9. CASE Unlock(p)
    <2>1. /\ \A q \in Procs \ {p} : pc'[q] = pc[q]
          /\ pc[p] = "unlock" /\ pc'[p] = "cleanup" /\ pc' \in [Procs -> PCs]
          /\ UNCHANGED <<unique, module, alive, seen, polls>>
          /\ RemoveLock(p)
          /\ leaked \subseteq leaked' /\ leaked' \subseteq Procs
          /\ lock' = p => p \in leaked'
      BY <1>0, <1>9, GotoEffect DEF Unlock, TypeOK
    <2>2. UniqueFollowsPc' /\ ~Owns(p)'
      BY <1>0, <2>1 DEF UniqueFollowsPc, Owns
    <2>3. /\ LockIsBacked' /\ ExclusiveUnlessStolen' /\ OwnersHoldLock'
          /\ lock' \in Procs \cup {None} /\ stolen' \in BOOLEAN
          /\ errors' \in 0 .. MaxErrors
      BY <2>1, <2>2, RemovePreserves
    <2>4. TypeOK'
      BY <1>0, <2>1, <2>3 DEF TypeOK
    <2>. QED
      BY <2>2, <2>3, <2>4 DEF IInv
  <1>10. CASE Cleanup(p)
    <2>1. /\ \A q \in Procs \ {p} : pc'[q] = pc[q]
          /\ pc[p] = "cleanup" /\ pc'[p] = "done" /\ pc' \in [Procs -> PCs]
          /\ UNCHANGED <<lock, module, alive, seen, polls, stolen, errorVars>>
          /\ unique' = unique \ {p}
      BY <1>0, <1>10, GotoEffect DEF Cleanup
    <2>2. TypeOK' /\ UniqueFollowsPc'
      BY <1>0, <2>1 DEF TypeOK, UniqueFollowsPc
    <2>. QED
      BY <2>1, <2>2, BystanderPreserves DEF IInv, Owns
  <1>11. CASE PollLockFile(p) \/ CheckModule(p) \/ OwnerDied(p) \/ SleepAgain(p) \/ LoadModule(p)
    <2>1. /\ \A q \in Procs \ {p} : pc'[q] = pc[q]
          /\ pc[p] \in {"wait", "gone", "poll", "load"}
          /\ pc'[p] \in {"poll", "gone", "load", "read", "wait", "timeout", "done"}
          /\ pc'[p] \in {"poll", "gone", "wait"} => pc[p] # "load" /\ seen' = seen
          /\ seen' \in {seen, [seen EXCEPT ![p] = None]}
          /\ pc' \in [Procs -> PCs]
          /\ UNCHANGED <<lock, unique, module, alive, stolen, errorVars>>
      BY <1>0, <1>11, GotoEffect
         DEF PollLockFile, CheckModule, OwnerDied, SleepAgain, LoadModule, EndWait
    <2>2. UniqueFollowsPc'
      BY <1>0, <2>1 DEF UniqueFollowsPc
    <2>a. polls' \in [Procs -> Nat]
      BY <1>0, <1>11
         DEF PollLockFile, CheckModule, OwnerDied, SleepAgain, LoadModule, EndWait, TypeOK
    <2>3. TypeOK'
      BY <1>0, <2>1, <2>a DEF TypeOK
    <2>. QED
      BY <2>1, <2>2, <2>3, BystanderPreserves DEF IInv, Owns
  <1>12. CASE UnsafeRemoveLockFile(p)
    <2>1. /\ \A q \in Procs \ {p} : pc'[q] = pc[q]
          /\ pc'[p] = "done" /\ pc' \in [Procs -> PCs]
          /\ RemoveLock(p) /\ EndWait(p) /\ UNCHANGED <<unique, module, alive, leaked>>
      BY <1>0, <1>12, GotoEffect DEF UnsafeRemoveLockFile
    <2>2. UniqueFollowsPc' /\ ~Owns(p)' /\ ~Owns(p)
      BY <1>0, <1>12, <2>1, GotoEffect DEF UnsafeRemoveLockFile, UniqueFollowsPc, Owns
    <2>3. /\ LockIsBacked' /\ ExclusiveUnlessStolen' /\ OwnersHoldLock'
          /\ lock' \in Procs \cup {None} /\ stolen' \in BOOLEAN
          /\ errors' \in 0 .. MaxErrors
      BY <2>1, <2>2, RemovePreserves
    <2>4. TypeOK'
      BY <1>0, <2>1, <2>3 DEF TypeOK, EndWait
    <2>. QED
      BY <2>2, <2>3, <2>4 DEF IInv
  <1>13. CASE Exit(p) \/ Crash(p)
    <2>1. /\ alive' \subseteq alive /\ p \notin alive'
          /\ UNCHANGED <<lock, unique, module, stolen, errorVars>>
      BY <1>13 DEF Exit, Crash
    <2>2. /\ \A q \in Procs \ {p} : pc'[q] = pc[q]
          /\ pc'[p] = pc[p] \/ (pc'[p] = "crashed" /\ ~Owns(p))
          /\ pc' \in [Procs -> PCs]
      BY <1>0, <1>13 DEF Exit, Crash, TypeOK, PCs
    <2>3. /\ \A q \in Procs \ {p} : seen'[q] = seen[q]
          /\ seen'[p] = seen[p] \/ seen'[p] = None
          /\ seen' \in [Procs -> Procs \cup {None}]
          /\ polls' \in [Procs -> Nat]
      BY <1>0, <1>13 DEF Exit, Crash, EndWait, TypeOK
    <2>4. \A q \in Procs : Owns(q)' <=> Owns(q)
      BY <2>2 DEF Owns
    <2>5. Owners' \subseteq Owners
      BY <1>0, <2>1, <2>4 DEF Owners, TypeOK
    <2>6. UniqueFollowsPc' /\ LockIsBacked'
      BY <1>0, <2>1, <2>2, <2>4 DEF TypeOK, UniqueFollowsPc, LockIsBacked, errorVars
    <2>7. \A q \in Procs : pc'[q] \in {"check", "wait", "gone", "poll"} => seen'[q] # None
      <3>1. Exit(p) => pc' = pc /\ seen' = seen
        BY DEF Exit
      <3>2. Crash(p) => pc'[p] \notin {"check", "wait", "gone", "poll"}
        BY <1>0 DEF Crash, Owns, TypeOK
      <3> QED
        BY <1>0, <1>13, <2>2, <2>3, <3>1, <3>2 DEF TypeOK
    <2>8. TypeOK'
      BY <1>0, <2>1, <2>2, <2>3, <2>7 DEF TypeOK, errorVars
    <2>. QED
      BY <2>1, <2>5, <2>6, <2>8 DEF IInv, ExclusiveUnlessStolen, OwnersHoldLock
  <1>. QED
    BY <1>1, <1>2, <1>3, <1>4, <1>5, <1>6, <1>7, <1>8, <1>9, <1>10, <1>11, <1>12, <1>13
    DEF Step

\* IInv holds in every reachable state.
THEOREM InductiveInvariant == Spec => []IInv
  <1>1. Init => IInv
    <2>. SUFFICES ASSUME Init PROVE IInv
      OBVIOUS
    <2>b. errors \in 0 .. MaxErrors
      BY LockFileAssumption DEF Init
    <2>1. TypeOK
      BY <2>b DEF Init, TypeOK, PCs
    <2>a. UniqueFollowsPc
      BY DEF Init, UniqueFollowsPc
    <2>2. Owners = {} /\ LockIsBacked
      BY DEF Init, Owners, Owns, LockIsBacked
    <2>. QED
      BY <2>1, <2>a, <2>2 DEF IInv, ExclusiveUnlessStolen, OwnersHoldLock
  <1>2. IInv /\ [Next]_vars => IInv'
    <2>. SUFFICES ASSUME IInv, [Next]_vars PROVE IInv'
      OBVIOUS
    <2>1. CASE Next
      BY <2>1, StepPreservesIInv DEF Next
    <2>2. CASE UNCHANGED vars
      BY <2>2 DEF vars, errorVars, IInv, TypeOK, LockIsBacked, ExclusiveUnlessStolen,
                  OwnersHoldLock, UniqueFollowsPc, Owners, Owns
    <2>. QED
      BY <2>1, <2>2
  <1>. QED
    BY <1>1, <1>2, PTL DEF Spec

\* The lock file never dangles and is never left behind by a process that did
\* not crash, on any path through the constructor, the destructor and
\* waitForUnlock.
THEOREM LockNeverOrphaned == Spec => []LockIsBacked
  <1>1. IInv => LockIsBacked
    BY DEF IInv
  <1>. QED
    BY <1>1, InductiveInvariant, PTL

\* create_link makes LFS_Owned exclusive as long as nobody removes the lock
\* file of a live owner.
THEOREM OwnershipExclusive == Spec => []ExclusiveUnlessStolen
  <1>1. IInv => ExclusiveUnlessStolen
    BY DEF IInv
  <1>. QED
    BY <1>1, InductiveInvariant, PTL

\* The file system, the program counters and the owner each process has read
\* keep their types, and Owner is engaged wherever it is dereferenced.
THEOREM TypeCorrect == Spec => []TypeOK
  <1>1. IInv => TypeOK
    BY DEF IInv
  <1>. QED
    BY <1>1, InductiveInvariant, PTL
=============================================================================
