---------------------------- MODULE MC_Coordinator ----------------------------
(* Instances of ThreadStateCoordinator for TLC. *)
EXTENDS ThreadStateCoordinator

CONSTANTS t1, t2, t3

Create(e, T) == e.type = "ThreadCreate" /\ e.tid \in T
Stop(e, T)   == e.type = "ThreadStopped" /\ e.tid \in T
Death(e, T)  == e.type = "ThreadDeath" /\ e.tid \in T
Resume(e, T) == e.type = "RequestResume" /\ e.tid \in T

\* Three threads, so that two can be waited for at once: t1, created stopped,
\* reports signals; t2 and t3 do everything a thread can do, and every set of
\* them is waited for or skipped because it is stepping.
ThreeThreadCalls ==
    {e \in Events :
        \/ Create(e, {t1}) /\ e.is_stopped
        \/ Create(e, {t2, t3}) \/ Stop(e, {t2, t3}) \/ Death(e, Tids)
        \/ Resume(e, {t2, t3})
        \/ e.type = "CallAfterThreadsStop" /\ e.tid = t1 /\ t1 \notin e.tids
        \/ e \in {ResetEvent, StopCoordinatorEvent}}

\* One deferred stop at a time, with stops, deaths and resumes of the other
\* thread, execs and the stop of the coordinator; no thread is created
\* running, so the wait set does not grow for ever.
LivenessCalls ==
    {e \in Events :
        \/ Create(e, Tids) /\ e.is_stopped
        \/ Stop(e, {t2}) \/ Death(e, {t2})
        \/ e \in {RequestResumeEvent(t2, TRUE), CallAfterEvent(t1, TRUE, {}),
                  ResetEvent, StopCoordinatorEvent}}
=============================================================================
