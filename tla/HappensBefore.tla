--------------------------- MODULE HappensBefore ---------------------------
(***************************************************************************)
(* The very simple model of operations that the comment at the head of     *)
(* tsan_clock.cc promises: one vector clock per thread and per sync object, *)
(* acquire and release take the maximum of every component, a release-store *)
(* copies every component.  A thread's own component is its time, which    *)
(* may advance in every step.                                              *)
(***************************************************************************)
EXTENDS ThreadIds

CONSTANT Objects            \* the things that have a sync clock

VARIABLES tclock,           \* vector clock of each thread
          sclock            \* vector clock of each sync object

Larger(a, b) == IF a < b THEN b ELSE a
Zero         == [i \in Tids |-> 0]
Join(c, d)   == [i \in Tids |-> Larger(c[i], d[i])]

\* t's clock becomes c, but for its own component, its time, which is some
\* value that is at least c's.
Becomes(t, c) ==
    /\ tclock'[t][t] >= c[t]
    /\ tclock' = [tclock EXCEPT ![t] = [c EXCEPT ![t] = tclock'[t][t]]]

Stores(o, c) == sclock' = [sclock EXCEPT ![o] = c]

Acquire(t, o) ==
    /\ Becomes(t, Join(tclock[t], sclock[o]))
    /\ UNCHANGED sclock

Release(t, o) ==
    /\ Becomes(t, tclock[t])
    /\ Stores(o, Join(sclock[o], tclock'[t]))

ReleaseStore(t, o) ==
    /\ Becomes(t, tclock[t])
    /\ Stores(o, tclock'[t])

AcquireRelease(t, o) ==
    /\ Becomes(t, Join(tclock[t], sclock[o]))
    /\ Stores(o, Join(sclock[o], tclock'[t]))

\* The acquirer is the object's last user.
AcquireAndForget(t, o) ==
    /\ Becomes(t, Join(tclock[t], sclock[o]))
    /\ Stores(o, Zero)

\* A new thread takes over t's id: its time goes on, it knows what o knows.
Begin(t, o) ==
    /\ tclock'[t][t] > tclock[t][t]
    /\ Becomes(t, [sclock[o] EXCEPT ![t] = tclock'[t][t]])
    /\ Stores(o, Zero)
=============================================================================
