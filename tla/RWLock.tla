------------------------------- MODULE RWLock -------------------------------
(***************************************************************************)
(* What a reader-writer lock promises to its callers: a set of threads     *)
(* that hold it for writing and a set of threads that hold it for reading, *)
(* each taken and given back in one step.  RWMutex and SharedMutex are     *)
(* shown to implement this module.                                         *)
(***************************************************************************)
CONSTANT Threads            \* the threads that use the lock

VARIABLES writers,          \* threads that hold the lock exclusively
          readers           \* threads that hold the lock shared

vars == <<writers, readers>>

Init ==
    /\ writers = {}
    /\ readers = {}

AcquireWrite(t) ==
    /\ writers = {} /\ readers = {}
    /\ writers' = {t}
    /\ UNCHANGED readers

ReleaseWrite(t) ==
    /\ t \in writers
    /\ writers' = writers \ {t}
    /\ UNCHANGED readers

AcquireRead(t) ==
    /\ writers = {} /\ t \notin readers
    /\ readers' = readers \cup {t}
    /\ UNCHANGED writers

ReleaseRead(t) ==
    /\ t \in readers
    /\ readers' = readers \ {t}
    /\ UNCHANGED writers

Next ==
    \E t \in Threads :
        \/ AcquireWrite(t)
        \/ ReleaseWrite(t)
        \/ AcquireRead(t)
        \/ ReleaseRead(t)

Spec == Init /\ [][Next]_vars
=============================================================================
