------------------------ MODULE ThreadStateCoordinator ------------------------
(***************************************************************************)
(* The thread state coordinator of lldb's Linux process plugin,            *)
(* lldb/source/Plugins/Process/Linux/ThreadStateCoordinator.{h,cpp}.       *)
(*                                                                         *)
(* Several threads of the debug server post events to a queue; one thread  *)
(* takes them off and processes them.  The coordinator tracks which        *)
(* threads of the inferior run, and defers the report of a stop until      *)
(* every thread that must stop first has stopped or died.                  *)
(***************************************************************************)
EXTENDS Integers, Sequences, FiniteSets

CONSTANTS Tids,         \* thread ids the callers may mention
          Calls,        \* the events the callers may post (a subset of Events)
          MaxQueue,     \* bound on the length of the event queue
          None          \* no event in hand, no pending or fired notification

-----------------------------------------------------------------------------
(* Events, one constructor per public method of the class: CallAfterEvent   *)
(* for the three CallAfter... methods, RequestResumeEvent for both          *)
(* RequestThreadResume...  A CallAfterThreadsStop event waits either for    *)
(* the threads it names (all = FALSE, tids is the wait set) or for every    *)
(* running thread (all = TRUE, tids is sent no stop request).               *)

CallAfterEvent(tid, all, tids) ==
    [type |-> "CallAfterThreadsStop", tid |-> tid, all |-> all, tids |-> tids]
ThreadStoppedEvent(tid, by_llgs) ==
    [type |-> "ThreadStopped", tid |-> tid, initiated_by_llgs |-> by_llgs]
ThreadCreateEvent(tid, is_stopped) ==
    [type |-> "ThreadCreate", tid |-> tid, is_stopped |-> is_stopped]
ThreadDeathEvent(tid) == [type |-> "ThreadDeath", tid |-> tid]
RequestResumeEvent(tid, must_be_stopped) ==
    [type |-> "RequestResume", tid |-> tid,
     error_when_already_running |-> must_be_stopped]
ResetEvent == [type |-> "Reset"]
StopCoordinatorEvent == [type |-> "StopCoordinator"]

Events ==
    {CallAfterEvent(tid, all, tids) :
        tid \in Tids, all \in BOOLEAN, tids \in SUBSET Tids}
    \cup {ThreadStoppedEvent(tid, b) : tid \in Tids, b \in BOOLEAN}
    \cup {ThreadCreateEvent(tid, b) : tid \in Tids, b \in BOOLEAN}
    \cup {ThreadDeathEvent(tid) : tid \in Tids}
    \cup {RequestResumeEvent(tid, b) : tid \in Tids, b \in BOOLEAN}
    \cup {ResetEvent, StopCoordinatorEvent}

Context(state, stop_requested, can_resume) ==
    [m_state |-> state, m_stop_requested |-> stop_requested, can_resume |-> can_resume]
ThreadContext ==
    [m_state : {"Running", "Stopped"}, m_stop_requested : BOOLEAN,
     can_resume : BOOLEAN]          \* m_request_resume_function is set
Waiting(tid, all, wait) == [tid |-> tid, all |-> all, wait |-> wait]
Notification == [tid : Tids, all : BOOLEAN, wait : SUBSET Tids]
Firing       == [tid : Tids, all : BOOLEAN]

ASSUME CoordinatorAssumption ==
    /\ Calls \subseteq Events
    /\ MaxQueue \in Nat
    /\ None \notin Events /\ None \notin Notification /\ None \notin Firing

VARIABLES
    m_event_queue,      \* the posted events
    loop,               \* where the coordinator thread is in its loop
    event,              \* the dequeued event it processes
    m_tid_map,          \* the known threads and their contexts
    m_pending,          \* m_pending_notification_sp
    \* History, written by the model only.
    fired,              \* the notification the last processed event fired
    error,              \* whether it called its error function
    asked,              \* threads asked to stop that have not stopped since
    resumed,            \* threads resumed on request since m_pending was set
    restarted           \* threads resumed by ThreadDidStop since then

stateVars == <<m_tid_map, m_pending, fired, error, asked, resumed, restarted>>
vars      == <<m_event_queue, loop, event, m_tid_map, m_pending, fired, error,
               asked, resumed, restarted>>

NoThreads == [t \in {} |-> None]
Known   == DOMAIN m_tid_map
Running == {t \in Known : m_tid_map[t].m_state = "Running"}

Init ==
    /\ m_event_queue = <<>>
    /\ loop = "ready" /\ event = None
    /\ m_tid_map = NoThreads
    /\ m_pending = None
    /\ fired = None /\ error = FALSE
    /\ asked = {} /\ resumed = {} /\ restarted = {}

-----------------------------------------------------------------------------
(* The callers' side: every public method but ResetForExec posts one event. *)

\* Plausible slip: post without waking the coordinator.
EnqueueEvent_NoNotify(e) ==
    /\ Len(m_event_queue) < MaxQueue
    /\ m_event_queue' = Append(m_event_queue, e)
    /\ UNCHANGED <<loop, event, stateVars>>

\* EnqueueEvent(): push and notify_one, which ends a wait in progress.
EnqueueEvent(e) ==
    /\ Len(m_event_queue) < MaxQueue
    /\ m_event_queue' = Append(m_event_queue, e)
    /\ loop' = IF loop = "waiting" THEN "ready" ELSE loop
    /\ UNCHANGED <<event, stateVars>>

StopIsPosted ==
    \/ \E i \in 1 .. Len(m_event_queue) : m_event_queue[i] = StopCoordinatorEvent
    \/ event = StopCoordinatorEvent
    \/ loop = "stopped"

\* ResetForExec(): replace the whole queue by one reset event, under the lock
\* and without a notify.  The monitor thread makes the call, and
\* NativeProcessLinux::StopMonitor joins that thread before it posts the stop.
ResetForExec ==
    /\ ResetEvent \in Calls
    /\ ~StopIsPosted
    /\ m_event_queue' = <<ResetEvent>>
    /\ UNCHANGED <<loop, event, stateVars>>

-----------------------------------------------------------------------------
(* The coordinator thread: ProcessNextEvent() in a loop.                   *)

\* DequeueEventWithWait(): the predicate holds, pop the front event.  The
\* history of the previous event ends here.
DequeueEvent ==
    /\ loop = "ready" /\ m_event_queue # <<>>
    /\ event' = Head(m_event_queue)
    /\ m_event_queue' = Tail(m_event_queue)
    /\ loop' = "processing"
    /\ fired' = None /\ error' = FALSE
    /\ resumed'   = IF m_pending = None THEN {} ELSE resumed
    /\ restarted' = IF m_pending = None THEN {} ELSE restarted
    /\ UNCHANGED <<m_tid_map, m_pending, asked>>

\* The predicate fails: wait on the condition variable.
BlockOnQueue ==
    /\ loop = "ready" /\ m_event_queue = <<>>
    /\ loop' = "waiting"
    /\ UNCHANGED <<m_event_queue, event, stateVars>>

\* std::condition_variable may wake without a notify.
SpuriousWakeup ==
    /\ loop = "waiting"
    /\ loop' = "ready"
    /\ UNCHANGED <<m_event_queue, event, stateVars>>

\* ProcessEvent returns eventLoopResultContinue: on to the next event.
Processing(type) ==
    /\ loop = "processing" /\ event.type = type
    /\ loop' = "ready" /\ event' = None
    /\ UNCHANGED m_event_queue

\* EventStopCoordinator::ProcessEvent: eventLoopResultStop ends the loop.
ProcessStopCoordinator ==
    /\ loop = "processing" /\ event.type = "StopCoordinator"
    /\ loop' = "stopped" /\ event' = None
    /\ UNCHANGED <<m_event_queue, stateVars>>

-----------------------------------------------------------------------------
(* Deferred notifications                                                  *)

\* An error path: m_error_function is called and nothing else happens.
Fail ==
    /\ error' = TRUE
    /\ UNCHANGED <<m_tid_map, m_pending, fired, asked, resumed, restarted>>

\* NotifyNow(): call m_call_after_function for the triggering thread.
NotifyNow(n) == fired' = [tid |-> n.tid, all |-> n.all]

\* RequestThreadStop() for the threads of ok, whose stop requests succeed; a
\* failed request is only logged.
RequestThreadStop(ok) ==
    /\ m_tid_map' = [t \in Known |->
                        IF t \in ok
                        THEN Context(m_tid_map[t].m_state, TRUE, m_tid_map[t].can_resume)
                        ELSE m_tid_map[t]]
    /\ asked' = asked \cup ok

\* Plausible slip: wait only for the threads that were sent a request, not
\* for the ones that are skipped because they are stepping.
WaitSet_OnlySent(e) == IF e.all THEN Running \ e.tids ELSE Running \cap e.tids

\* The threads a CallAfterThreadsStop event has to wait for, and the ones
\* among them it sends a stop request.
WaitSet(e)     == IF e.all THEN Running ELSE Running \cap e.tids
StopTargets(e) == IF e.all THEN Running \ e.tids ELSE Running \cap e.tids

\* SetPendingNotification(): an earlier pending notification is dropped.
SetPendingNotification(n) ==
    /\ m_pending' = n
    /\ resumed' = {} /\ restarted' = {}

\* EventCallAfterThreadsStop::ProcessEvent.
ProcessCallAfterThreadsStop ==
    /\ Processing("CallAfterThreadsStop")
    /\ \/ event.tid \notin Known /\ Fail
       \* RequestStopOnAllSpecifiedThreads meets an unknown tid: it bails out,
       \* but threads earlier in the hash set have been asked to stop.
       \/ /\ event.tid \in Known
          /\ ~event.all /\ ~(event.tids \subseteq Known)
          /\ \E ok \in SUBSET StopTargets(event) : RequestThreadStop(ok)
          /\ error' = TRUE
          /\ UNCHANGED <<m_pending, fired, resumed, restarted>>
       \/ /\ event.tid \in Known
          /\ event.all \/ event.tids \subseteq Known
          /\ \E ok \in SUBSET StopTargets(event) : RequestThreadStop(ok)
          /\ UNCHANGED error
          /\ \/ /\ WaitSet(event) = {}
                /\ NotifyNow(event)
                /\ UNCHANGED <<m_pending, resumed, restarted>>
             \/ /\ WaitSet(event) # {}
                /\ SetPendingNotification(Waiting(event.tid, event.all, WaitSet(event)))
                /\ UNCHANGED fired

\* RemoveThreadStopRequirementAndMaybeSignal(), and the reset of the pending
\* notification when it has fired.
RemoveThreadStopRequirementAndMaybeSignal(tid) ==
    \/ /\ m_pending = None
       /\ UNCHANGED <<m_pending, fired>>
    \/ /\ m_pending # None
       /\ m_pending.wait \subseteq {tid}
       /\ NotifyNow(m_pending)
       /\ m_pending' = None
    \/ /\ m_pending # None
       /\ ~(m_pending.wait \subseteq {tid})
       /\ m_pending' = Waiting(m_pending.tid, m_pending.all, m_pending.wait \ {tid})
       /\ UNCHANGED fired

-----------------------------------------------------------------------------
(* Thread state changes                                                    *)

\* Plausible slip: resume whenever LLGS initiated the stop, requested or not.
Unrequested_Always(ctx) == event.initiated_by_llgs /\ ctx.can_resume

\* The stop was a leftover SIGSTOP of ours that nobody waits for any more.
Unrequested(ctx) ==
    event.initiated_by_llgs /\ ctx.can_resume /\ ~ctx.m_stop_requested

\* ThreadDidStop(): mark stopped, drop the stop requirement (which may fire
\* the notification), and only then resume a thread whose stop was not
\* requested; that resume may fail.
ThreadDidStop ==
    /\ Processing("ThreadStopped")
    /\ LET tid == event.tid
           State(s) == [m_tid_map EXCEPT ![tid] = Context(s, FALSE, @.can_resume)]
       IN  \/ tid \notin Known /\ Fail
           \/ /\ tid \in Known
              /\ RemoveThreadStopRequirementAndMaybeSignal(tid)
              /\ asked' = asked \ {tid}
              /\ resumed' = resumed \ {tid}
              /\ UNCHANGED error
              /\ \/ /\ m_tid_map' = State("Stopped")
                    /\ restarted' = restarted \ {tid}
                 \/ /\ Unrequested(m_tid_map[tid])
                    /\ m_tid_map' = State("Running")
                    /\ restarted' = restarted \cup {tid}

NewContext(is_stopped) ==
    Context(IF is_stopped THEN "Stopped" ELSE "Running", FALSE, FALSE)

\* AddThreadStopRequirement(): wait for the thread too and ask it to stop.
\* Neither m_stop_requested nor a failure of the request is noted.
AddThreadStopRequirement(tid) ==
    /\ m_pending' = Waiting(m_pending.tid, m_pending.all, m_pending.wait \cup {tid})
    /\ \/ tid \in m_pending.wait /\ UNCHANGED asked
       \/ tid \notin m_pending.wait /\ asked' \in {asked, asked \cup {tid}}

\* ThreadWasCreated().
ThreadWasCreated ==
    /\ Processing("ThreadCreate")
    /\ LET tid == event.tid
       IN  \/ tid \in Known /\ Fail
           \/ /\ tid \notin Known
              /\ m_tid_map' = [t \in Known \cup {tid} |->
                                 IF t = tid THEN NewContext(event.is_stopped)
                                            ELSE m_tid_map[t]]
              /\ \/ /\ m_pending # None /\ ~event.is_stopped
                    /\ AddThreadStopRequirement(tid)
                 \/ /\ m_pending = None \/ event.is_stopped
                    /\ UNCHANGED <<m_pending, asked>>
              /\ UNCHANGED <<fired, error, resumed, restarted>>

\* Plausible slip: forget the thread without dropping its stop requirement.
ThreadDidDie_StillAwaited ==
    /\ Processing("ThreadDeath")
    /\ \/ event.tid \notin Known /\ Fail
       \/ /\ event.tid \in Known
          /\ m_tid_map' = [t \in Known \ {event.tid} |-> m_tid_map[t]]
          /\ asked' = asked \ {event.tid}
          /\ resumed' = resumed \ {event.tid}
          /\ restarted' = restarted \ {event.tid}
          /\ UNCHANGED <<error, fired, m_pending>>

\* ThreadDidDie(): stop tracking the thread, drop its stop requirement.
ThreadDidDie ==
    /\ Processing("ThreadDeath")
    /\ \/ event.tid \notin Known /\ Fail
       \/ /\ event.tid \in Known
          /\ m_tid_map' = [t \in Known \ {event.tid} |-> m_tid_map[t]]
          /\ RemoveThreadStopRequirementAndMaybeSignal(event.tid)
          /\ asked' = asked \ {event.tid}
          /\ resumed' = resumed \ {event.tid}
          /\ restarted' = restarted \ {event.tid}
          /\ UNCHANGED error

\* EventRequestResume::ProcessEvent: only a stopped thread is resumed, and
\* the resume may fail.  A running one is an error for RequestThreadResume
\* and ignored for RequestThreadResumeAsNeeded.
ProcessRequestResume ==
    /\ Processing("RequestResume")
    /\ LET tid == event.tid
       IN  \/ tid \notin Known /\ Fail
           \/ /\ tid \in Running
              /\ error' = event.error_when_already_running
              /\ UNCHANGED <<m_tid_map, m_pending, fired, asked, resumed, restarted>>
           \/ /\ tid \in Known \ Running
              /\ \/ UNCHANGED <<m_tid_map, resumed>>
                 \/ /\ m_tid_map' = [m_tid_map EXCEPT ![tid] =
                                        Context("Running", @.m_stop_requested, TRUE)]
                    /\ resumed' = resumed \cup {tid}
              /\ UNCHANGED <<m_pending, fired, error, asked, restarted>>

\* ResetNow(): forget the pending notification and every thread.
ResetNow ==
    /\ Processing("Reset")
    /\ m_pending' = None
    /\ m_tid_map' = NoThreads
    /\ asked' = {} /\ resumed' = {} /\ restarted' = {}
    /\ UNCHANGED <<fired, error>>

-----------------------------------------------------------------------------
Callers == ResetForExec \/ \E e \in Calls \ {ResetEvent} : EnqueueEvent(e)

ProcessEvent ==
    \/ ProcessCallAfterThreadsStop \/ ProcessRequestResume
    \/ ThreadDidStop \/ ThreadWasCreated \/ ThreadDidDie
    \/ ResetNow \/ ProcessStopCoordinator

Coordinator == DequeueEvent \/ BlockOnQueue \/ ProcessEvent

Next == Callers \/ Coordinator \/ SpuriousWakeup

Spec == Init /\ [][Next]_vars

\* The coordinator thread is scheduled and the callbacks it makes return.
FairSpec == Spec /\ WF_vars(Coordinator)

\* And the kernel reports the stop of every thread the coordinator waits for.
StopsArrive ==
    \A tid \in Tids :
        SF_vars(/\ m_pending # None
                /\ tid \in m_pending.wait
                /\ ThreadStoppedEvent(tid, TRUE) \notin
                     {m_event_queue[i] : i \in 1 .. Len(m_event_queue)}
                /\ EnqueueEvent(ThreadStoppedEvent(tid, TRUE)))
ReportingSpec == FairSpec /\ StopsArrive

-----------------------------------------------------------------------------
(* Properties                                                              *)

QueueOK ==
    /\ m_event_queue \in Seq(Events)
    /\ loop \in {"ready", "waiting", "processing", "stopped"}
    /\ loop = "processing" => event \in Events

StateOK ==
    /\ Known \subseteq Tids
    /\ m_tid_map \in [Known -> ThreadContext]
    /\ m_pending \in Notification \cup {None}
    /\ fired \in Firing \cup {None}
    /\ error \in BOOLEAN
    /\ asked \subseteq Tids /\ resumed \subseteq Tids /\ restarted \subseteq Tids

TypeOK == QueueOK /\ StateOK

\* A pending notification waits for at least one thread, and every thread it
\* waits for is known and running: so each of them can still report the stop
\* or death that fires it, it fires at most once, and the branch of
\* EventRequestResume that logs a resume of a thread "actively" waited for is
\* dead code.
PendingWaitsOnRunning ==
    m_pending # None => m_pending.wait # {} /\ m_pending.wait \subseteq Running

\* When the deferred report of a stop of all threads is made, no thread runs
\* but those resumed since the report was deferred (on request, or by
\* ThreadDidStop): no thread that was created meanwhile, that was skipped
\* because it was stepping or whose stop request failed has been missed.
FiredMeansStopped ==
    fired # None /\ fired.all => Running \subseteq resumed \cup restarted

\* What FiredMeansStopped needs of the notification that is still pending.
PendingCoversRunning ==
    m_pending # None /\ m_pending.all =>
        Running \subseteq m_pending.wait \cup resumed \cup restarted

\* A thread that was asked to stop and has not stopped is known to run, and
\* ThreadDidStop will not resume it: its stop request is noted, or
\* (AddThreadStopRequirement notes none) it was never resumed and so has no
\* resume function.
AskedAreRunning ==
    \A t \in asked :
        /\ t \in Running
        /\ m_tid_map[t].m_stop_requested \/ ~m_tid_map[t].can_resume

\* m_stop_requested is never left over from a stop that has been reported.
RequestedAreRunning ==
    \A t \in Known : m_tid_map[t].m_stop_requested => t \in Running

\* The history describes the last event only.
HistoryFresh == loop = "processing" => fired = None

IInv ==
    /\ TypeOK
    /\ PendingWaitsOnRunning
    /\ FiredMeansStopped
    /\ PendingCoversRunning
    /\ AskedAreRunning
    /\ RequestedAreRunning
    /\ HistoryFresh

\* Asking a thread to stop is effective: it stops counting as asked only in a
\* step that leaves it stopped or forgotten.  ThreadDidStop never takes the
\* stop it was waiting for as a leftover and resumes the thread.
AskedThreadsStop ==
    [][\A t \in asked : t \notin asked' => t \notin Running']_vars

\* A posted stop ends the loop, so the join in StopCoordinatorThread returns:
\* no wake-up is lost, whatever is posted and processed before.
StopEndsLoop == StopIsPosted ~> loop = "stopped"

\* Once the threads it waits for report their stops, a pending notification
\* is fired (or the coordinator is stopped).
PendingIsResolved == m_pending # None ~> (m_pending = None \/ loop = "stopped")
=============================================================================
