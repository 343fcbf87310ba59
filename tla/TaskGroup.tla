------------------------------ MODULE TaskGroup ------------------------------
(***************************************************************************)
(* What a task group promises to the thread that opens it: every closure   *)
(* given to it is run once, and the group is closed only when no closure   *)
(* is queued or running.  ThreadPool is shown to implement this module.    *)
(***************************************************************************)
CONSTANT Tasks              \* names of closures

VARIABLES open,             \* the group exists
          queued,           \* closures given to the group and not started
          running           \* closures being run

vars == <<open, queued, running>>

Init ==
    /\ open = FALSE
    /\ queued = {} /\ running = {}

Open ==
    /\ ~open
    /\ open' = TRUE
    /\ UNCHANGED <<queued, running>>

Spawn(t) ==
    /\ open /\ t \notin queued \cup running
    /\ queued' = queued \cup {t}
    /\ UNCHANGED <<open, running>>

Start(t) ==
    /\ open /\ t \in queued
    /\ queued' = queued \ {t}
    /\ running' = running \cup {t}
    /\ UNCHANGED open

Complete(t) ==
    /\ open /\ t \in running
    /\ running' = running \ {t}
    /\ UNCHANGED <<open, queued>>

Close ==
    /\ open /\ queued = {} /\ running = {}
    /\ open' = FALSE
    /\ UNCHANGED <<queued, running>>

Next ==
    \/ Open \/ Close
    \/ \E t \in Tasks : Spawn(t) \/ Start(t) \/ Complete(t)

Spec == Init /\ [][Next]_vars
=============================================================================
