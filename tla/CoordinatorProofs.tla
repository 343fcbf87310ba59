--------------------------- MODULE CoordinatorProofs ---------------------------
(***************************************************************************)
(* The inductive invariant of ThreadStateCoordinator, for any set of       *)
(* threads, any set of calls and any queue bound.                          *)
(***************************************************************************)
EXTENDS ThreadStateCoordinator, SequenceTheorems, TLAPS

\* The fields of a dequeued event.
LEMMA EventFields ==
    ASSUME event \in Events
    PROVE  /\ event.type \in {"CallAfterThreadsStop", "ThreadStopped", "ThreadCreate",
                              "ThreadDeath", "RequestResume"} => event.tid \in Tids
           /\ event.type = "CallAfterThreadsStop" =>
                 event.all \in BOOLEAN /\ event.tids \in SUBSET Tids
           /\ event.type = "ThreadStopped" => event.initiated_by_llgs \in BOOLEAN
           /\ event.type = "ThreadCreate" => event.is_stopped \in BOOLEAN
           /\ event.type = "RequestResume" =>
                 event.error_when_already_running \in BOOLEAN
  BY DEF Events, CallAfterEvent, ThreadStoppedEvent, ThreadCreateEvent,
         ThreadDeathEvent, RequestResumeEvent, ResetEvent, StopCoordinatorEvent

\* Posting, blocking, waking and dequeueing keep the queue well typed.
LEMMA QueueTyped ==
    ASSUME QueueOK, Next
    PROVE  QueueOK'
  <1> USE CoordinatorAssumption DEF QueueOK
  <1>1. ASSUME NEW e \in Calls, EnqueueEvent(e) PROVE QueueOK'
    BY <1>1 DEF EnqueueEvent
  <1>2. CASE ResetForExec
    BY <1>2 DEF ResetForExec
  <1>3. CASE DequeueEvent
    <2>1. Head(m_event_queue) \in Events /\ Tail(m_event_queue) \in Seq(Events)
      BY <1>3, HeadTailProperties DEF DequeueEvent
    <2>. QED
      BY <1>3, <2>1 DEF DequeueEvent
  <1>4. CASE BlockOnQueue \/ SpuriousWakeup \/ ProcessStopCoordinator
    BY <1>4 DEF BlockOnQueue, SpuriousWakeup, ProcessStopCoordinator
  <1>5. ASSUME NEW type, Processing(type) PROVE QueueOK'
    BY <1>5 DEF Processing
  <1>. QED
    BY <1>1, <1>2, <1>3, <1>4, <1>5
    DEF Next, Callers, Coordinator, ProcessEvent, ProcessCallAfterThreadsStop,
        ProcessRequestResume, ThreadDidStop, ThreadWasCreated, ThreadDidDie, ResetNow

-----------------------------------------------------------------------------
\* What the invariant says of the coordinator's state and its history.
StateInv ==
    /\ StateOK
    /\ PendingWaitsOnRunning
    /\ PendingCoversRunning
    /\ AskedAreRunning
    /\ RequestedAreRunning

\* Steps that leave the state alone, and error paths, preserve it.
LEMMA UnchangedState ==
    ASSUME StateInv, UNCHANGED <<m_tid_map, m_pending, asked, resumed, restarted>>,
           fired' \in Firing \cup {None}, error' \in BOOLEAN
    PROVE  StateInv'
  BY DEF StateInv, StateOK, PendingWaitsOnRunning, PendingCoversRunning,
         AskedAreRunning, RequestedAreRunning, Known, Running

\* A dropped stop requirement: what is left of the pending notification.
LEMMA Removed ==
    ASSUME StateInv, NEW tid \in Tids, fired = None,
           RemoveThreadStopRequirementAndMaybeSignal(tid)
    PROVE  /\ m_pending' \in Notification \cup {None}
           /\ fired' \in Firing \cup {None}
           /\ m_pending' # None =>
                 /\ m_pending # None
                 /\ m_pending'.wait = m_pending.wait \ {tid}
                 /\ m_pending'.wait # {}
                 /\ m_pending'.all = m_pending.all
           /\ fired' # None =>
                 /\ m_pending # None
                 /\ m_pending.wait \subseteq {tid}
                 /\ fired'.all = m_pending.all
  <1>1. m_pending \in Notification \cup {None} /\ fired \in Firing \cup {None}
    BY DEF StateInv, StateOK
  <1>. QED
    BY <1>1, CoordinatorAssumption
    DEF RemoveThreadStopRequirementAndMaybeSignal, NotifyNow, Waiting,
        Notification, Firing

\* ThreadDidStop and ThreadDidDie take a thread out of the running set, unless
\* the stop was not requested and the thread is restarted.
LEMMA ThreadLeaves ==
    ASSUME StateInv, NEW tid \in Known, fired = None,
           RemoveThreadStopRequirementAndMaybeSignal(tid),
           Known' \in {Known, Known \ {tid}},
           m_tid_map' \in [Known' -> ThreadContext],
           \A t \in Known \ {tid} : m_tid_map'[t] = m_tid_map[t],
           tid \in Known' => ~m_tid_map'[tid].m_stop_requested,
           asked' = asked \ {tid}, resumed' = resumed \ {tid},
           restarted' \in {restarted \ {tid}, restarted \cup {tid}},
           tid \in Running' => tid \in restarted',
           UNCHANGED error
    PROVE  StateInv' /\ FiredMeansStopped'
  <1>0. tid \in Tids /\ StateOK
    BY DEF StateInv, StateOK
  <1>1. Running' \ {tid} = Running \ {tid}
    BY <1>0 DEF Running, Known
  <1>2. StateOK'
    BY <1>0, Removed DEF StateOK
  <1>3. PendingWaitsOnRunning'
    BY <1>0, <1>1, Removed DEF StateInv, PendingWaitsOnRunning
  <1>4. PendingCoversRunning'
    BY <1>0, <1>1, Removed DEF StateInv, PendingCoversRunning
  <1>5. AskedAreRunning' /\ RequestedAreRunning'
    BY <1>0, <1>1 DEF StateInv, StateOK, AskedAreRunning, RequestedAreRunning, Running, Known
  <1>6. FiredMeansStopped'
    BY <1>0, <1>1, Removed DEF StateInv, FiredMeansStopped, PendingCoversRunning
  <1>. QED
    BY <1>2, <1>3, <1>4, <1>5 , <1>6 DEF StateInv

-----------------------------------------------------------------------------
\* One lemma per kind of event: processing it preserves the invariant.

LEMMA StopPreserves ==
    ASSUME IInv, ThreadDidStop
    PROVE  StateInv' /\ FiredMeansStopped'
  <1> DEFINE tid == event.tid
  <1>0. /\ StateInv /\ fired = None /\ tid \in Tids /\ FiredMeansStopped
    BY EventFields DEF IInv, TypeOK, QueueOK, StateInv, HistoryFresh, ThreadDidStop,
                       Processing
  <1>1. CASE Fail
    BY <1>0, <1>1, UnchangedState DEF Fail, StateInv, StateOK, FiredMeansStopped
  <1>2. CASE ~Fail
    <2>1. /\ tid \in Known
          /\ RemoveThreadStopRequirementAndMaybeSignal(tid)
          /\ asked' = asked \ {tid} /\ resumed' = resumed \ {tid} /\ UNCHANGED error
      BY <1>2 DEF ThreadDidStop
    <2>2. PICK s \in {"Running", "Stopped"} :
             /\ m_tid_map' = [m_tid_map EXCEPT ![tid] =
                                Context(s, FALSE, m_tid_map[tid].can_resume)]
             /\ restarted' \in {restarted \ {tid}, restarted \cup {tid}}
             /\ s = "Running" => tid \in restarted'
      BY <1>2 DEF ThreadDidStop
    <2>3. /\ Known' = Known
          /\ m_tid_map' \in [Known' -> ThreadContext]
          /\ \A t \in Known \ {tid} : m_tid_map'[t] = m_tid_map[t]
          /\ m_tid_map'[tid] = Context(s, FALSE, m_tid_map[tid].can_resume)
      BY <1>0, <2>1, <2>2 DEF StateInv, StateOK, Known, Context, ThreadContext
    <2>4. tid \in Running' => tid \in restarted'
      BY <2>2, <2>3 DEF Running, Context
    <2>5. ~m_tid_map'[tid].m_stop_requested
      BY <2>3 DEF Context
    <2>. QED
      BY <1>0, <2>1, <2>2, <2>3, <2>4, <2>5, ThreadLeaves
  <1>. QED
    BY <1>1, <1>2

LEMMA DeathPreserves ==
    ASSUME IInv, ThreadDidDie
    PROVE  StateInv' /\ FiredMeansStopped'
  <1> DEFINE tid == event.tid
  <1>0. /\ StateInv /\ fired = None /\ tid \in Tids /\ FiredMeansStopped
    BY EventFields DEF IInv, TypeOK, QueueOK, StateInv, HistoryFresh, ThreadDidDie,
                       Processing
  <1>1. CASE Fail
    BY <1>0, <1>1, UnchangedState DEF Fail, StateInv, StateOK, FiredMeansStopped
  <1>2. CASE ~Fail
    <2>1. /\ tid \in Known
          /\ RemoveThreadStopRequirementAndMaybeSignal(tid)
          /\ asked' = asked \ {tid} /\ resumed' = resumed \ {tid} /\ UNCHANGED error
          /\ restarted' = restarted \ {tid}
          /\ m_tid_map' = [t \in Known \ {tid} |-> m_tid_map[t]]
      BY <1>2 DEF ThreadDidDie
    <2>2. /\ Known' = Known \ {tid}
          /\ m_tid_map' \in [Known' -> ThreadContext]
          /\ \A t \in Known \ {tid} : m_tid_map'[t] = m_tid_map[t]
          /\ tid \notin Running'
      BY <1>0, <2>1 DEF StateInv, StateOK, Known, Running
    <2>. QED
      BY <1>0, <2>1, <2>2, ThreadLeaves
  <1>. QED
    BY <1>1, <1>2

LEMMA CreatePreserves ==
    ASSUME IInv, ThreadWasCreated
    PROVE  StateInv' /\ FiredMeansStopped'
  <1> DEFINE tid == event.tid
  <1>0. /\ StateInv /\ fired = None /\ tid \in Tids /\ FiredMeansStopped
        /\ event.is_stopped \in BOOLEAN
    BY EventFields DEF IInv, TypeOK, QueueOK, StateInv, HistoryFresh, ThreadWasCreated,
                       Processing
  <1>1. CASE Fail
    BY <1>0, <1>1, UnchangedState DEF Fail, StateInv, StateOK, FiredMeansStopped
  <1>2. CASE ~Fail
    <2>1. /\ tid \notin Known
          /\ m_tid_map' = [t \in Known \cup {tid} |->
                             IF t = tid THEN NewContext(event.is_stopped)
                                        ELSE m_tid_map[t]]
          /\ UNCHANGED <<fired, error, resumed, restarted>>
          /\ \/ /\ m_pending # None /\ ~event.is_stopped
                /\ AddThreadStopRequirement(tid)
             \/ /\ m_pending = None \/ event.is_stopped
                /\ UNCHANGED <<m_pending, asked>>
      BY <1>2 DEF ThreadWasCreated
    <2>2. /\ Known' = Known \cup {tid}
          /\ \A t \in Known : m_tid_map'[t] = m_tid_map[t]
          /\ m_tid_map'[tid] = NewContext(event.is_stopped)
      BY <2>1 DEF Known
    <2>3. m_tid_map' \in [Known' -> ThreadContext]
      BY <1>0, <2>1, <2>2 DEF StateInv, StateOK, NewContext, Context, ThreadContext
    <2>4. /\ Running' = Running \cup (IF event.is_stopped THEN {} ELSE {tid})
          /\ tid \notin Running
          /\ ~m_tid_map'[tid].m_stop_requested /\ ~m_tid_map'[tid].can_resume
      BY <1>0, <2>1, <2>2 DEF Running, NewContext, Context
    <2>5. StateOK'
      BY <1>0, <2>1, <2>2, <2>3
      DEF StateInv, StateOK, AddThreadStopRequirement, Waiting, Notification
    <2>6. PendingWaitsOnRunning' /\ PendingCoversRunning'
      BY <1>0, <2>1, <2>4, CoordinatorAssumption
      DEF StateInv, StateOK, PendingWaitsOnRunning, PendingCoversRunning,
          AddThreadStopRequirement, Waiting, Notification
    <2>7. RequestedAreRunning'
      BY <1>0, <2>2, <2>4 DEF StateInv, RequestedAreRunning
    <2>8. AskedAreRunning'
      <3>1. asked' \in {asked, asked \cup {tid}} /\ (tid \in asked' => tid \in asked \/ ~event.is_stopped)
        BY <2>1 DEF AddThreadStopRequirement
      <3>2. asked \subseteq Running /\ asked \subseteq Known
        BY <1>0 DEF StateInv, AskedAreRunning, Running
      <3>. QED
        BY <1>0, <2>2, <2>4, <3>1, <3>2 DEF StateInv, AskedAreRunning
    <2>. QED
      BY <1>0, <2>1, <2>5, <2>6, <2>7, <2>8 DEF StateInv, FiredMeansStopped
  <1>. QED
    BY <1>1, <1>2

\* A stop request changes nothing but m_stop_requested of running threads.
LEMMA Requested ==
    ASSUME StateInv, NEW ok \in SUBSET Running, RequestThreadStop(ok)
    PROVE  /\ Known' = Known /\ Running' = Running
           /\ m_tid_map' \in [Known' -> ThreadContext]
           /\ asked' \subseteq Tids
           /\ AskedAreRunning' /\ RequestedAreRunning'
  <1>0. StateOK /\ ok \subseteq Known
    BY DEF StateInv, Running
  <1>1. /\ Known' = Known
        /\ \A t \in ok :
             m_tid_map'[t] = Context(m_tid_map[t].m_state, TRUE, m_tid_map[t].can_resume)
        /\ \A t \in Known \ ok : m_tid_map'[t] = m_tid_map[t]
    BY <1>0 DEF RequestThreadStop, Known
  <1>2. Running' = Running
    <2>1. ASSUME NEW t \in Known
          PROVE  m_tid_map'[t].m_state = m_tid_map[t].m_state
      <3>1. CASE t \notin ok
        BY <1>1, <3>1
      <3>2. CASE t \in ok
        <4>1. m_tid_map'[t] = Context(m_tid_map[t].m_state, TRUE, m_tid_map[t].can_resume)
          BY <1>1, <3>2
        <4>. QED
          BY <4>1 DEF Context
      <3>. QED
        BY <3>1, <3>2
    <2>. QED
      BY <1>1, <2>1 DEF Running
  <1>3. m_tid_map' \in [Known' -> ThreadContext]
    BY <1>0, <1>1 DEF RequestThreadStop, StateOK, Context, ThreadContext
  <1>4. asked' = asked \cup ok
    BY DEF RequestThreadStop
  <1>5. \A t \in ok : m_tid_map'[t].m_stop_requested = TRUE
    <2>. SUFFICES ASSUME NEW t \in ok PROVE m_tid_map'[t].m_stop_requested = TRUE
      OBVIOUS
    <2>1. m_tid_map'[t] = Context(m_tid_map[t].m_state, TRUE, m_tid_map[t].can_resume)
      BY <1>1
    <2>. QED
      BY <2>1 DEF Context
  <1>6. AskedAreRunning' /\ RequestedAreRunning'
    BY <1>1, <1>2, <1>4, <1>5 DEF StateInv, AskedAreRunning, RequestedAreRunning, Running
  <1>. QED
    BY <1>0, <1>1, <1>2, <1>3, <1>4, <1>6 DEF StateOK

LEMMA CallAfterPreserves ==
    ASSUME IInv, ProcessCallAfterThreadsStop
    PROVE  StateInv' /\ FiredMeansStopped'
  <1>0. /\ StateInv /\ StateOK /\ fired = None /\ FiredMeansStopped
        /\ event.tid \in Tids /\ event.all \in BOOLEAN /\ event.tids \in SUBSET Tids
        /\ Running \subseteq Tids
    BY EventFields DEF IInv, TypeOK, QueueOK, StateInv, StateOK, HistoryFresh, Running,
                       ProcessCallAfterThreadsStop, Processing
  <1>1. CASE Fail
    BY <1>0, <1>1, UnchangedState DEF Fail, StateInv, StateOK, FiredMeansStopped
  <1>2. CASE ~Fail
    <2>1. PICK ok \in SUBSET StopTargets(event) : RequestThreadStop(ok)
      BY <1>2 DEF ProcessCallAfterThreadsStop
    <2>2. ok \in SUBSET Running
      BY DEF StopTargets
    <2>3. /\ Known' = Known /\ Running' = Running
          /\ m_tid_map' \in [Known' -> ThreadContext]
          /\ asked' \subseteq Tids
          /\ AskedAreRunning' /\ RequestedAreRunning'
      BY <1>0, <2>1, <2>2, Requested
    <2>4. error' \in BOOLEAN
      BY <1>0, <1>2 DEF ProcessCallAfterThreadsStop, StateOK
    <2>5. CASE /\ UNCHANGED <<m_pending, resumed, restarted>>
               /\ \/ UNCHANGED fired
                  \/ WaitSet(event) = {} /\ NotifyNow(event)
      <3>1. StateOK'
        BY <1>0, <2>3, <2>4, <2>5 DEF StateOK, NotifyNow, Firing
      <3>2. PendingWaitsOnRunning' /\ PendingCoversRunning'
        BY <1>0, <2>3, <2>5 DEF StateInv, PendingWaitsOnRunning, PendingCoversRunning
      <3>3. FiredMeansStopped'
        BY <1>0, <2>3, <2>5, CoordinatorAssumption
        DEF FiredMeansStopped, NotifyNow, WaitSet
      <3>. QED
        BY <2>3, <3>1, <3>2, <3>3 DEF StateInv
    <2>6. CASE /\ WaitSet(event) # {}
               /\ SetPendingNotification(Waiting(event.tid, event.all, WaitSet(event)))
               /\ UNCHANGED fired
      <3>1. /\ m_pending' = Waiting(event.tid, event.all, WaitSet(event))
            /\ resumed' = {} /\ restarted' = {} /\ fired' = None
        BY <1>0, <2>6 DEF SetPendingNotification
      <3>2. WaitSet(event) \subseteq Running /\ (event.all => WaitSet(event) = Running)
        BY DEF WaitSet
      <3>3. StateOK'
        BY <1>0, <2>3, <2>4, <3>1, <3>2 DEF StateOK, Waiting, Notification
      <3>4. PendingWaitsOnRunning' /\ PendingCoversRunning'
        BY <2>3, <2>6, <3>1, <3>2 DEF PendingWaitsOnRunning, PendingCoversRunning, Waiting
      <3>5. FiredMeansStopped'
        BY <3>1 DEF FiredMeansStopped
      <3>. QED
        BY <2>3, <3>3, <3>4, <3>5 DEF StateInv
    <2>. QED
      BY <1>2, <2>5, <2>6 DEF ProcessCallAfterThreadsStop
  <1>. QED
    BY <1>1, <1>2

LEMMA ResumePreserves ==
    ASSUME IInv, ProcessRequestResume
    PROVE  StateInv' /\ FiredMeansStopped'
  <1> DEFINE tid == event.tid
  <1>0. /\ StateInv /\ StateOK /\ fired = None /\ FiredMeansStopped /\ tid \in Tids
        /\ event.error_when_already_running \in BOOLEAN
    BY EventFields DEF IInv, TypeOK, QueueOK, StateInv, HistoryFresh,
                       ProcessRequestResume, Processing
  <1>1. CASE UNCHANGED <<m_tid_map, m_pending, fired, asked, resumed, restarted>>
    <2>1. error' \in BOOLEAN
      BY <1>0 DEF ProcessRequestResume, Fail, StateOK
    <2>. QED
      BY <1>0, <1>1, <2>1, UnchangedState DEF FiredMeansStopped
  <1>2. CASE /\ tid \in Known \ Running
             /\ m_tid_map' = [m_tid_map EXCEPT ![tid] =
                               Context("Running", m_tid_map[tid].m_stop_requested, TRUE)]
             /\ resumed' = resumed \cup {tid}
             /\ UNCHANGED <<m_pending, fired, error, asked, restarted>>
    <2>1. /\ Known' = Known
          /\ \A t \in Known \ {tid} : m_tid_map'[t] = m_tid_map[t]
          /\ m_tid_map'[tid] = Context("Running", m_tid_map[tid].m_stop_requested, TRUE)
          /\ m_tid_map' \in [Known' -> ThreadContext]
      BY <1>0, <1>2 DEF StateOK, Known, Context, ThreadContext
    <2>2. Running' = Running \cup {tid}
      BY <1>2, <2>1 DEF Running, Context
    <2>3. StateOK'
      BY <1>0, <1>2, <2>1 DEF StateOK
    <2>4. PendingWaitsOnRunning' /\ PendingCoversRunning'
      BY <1>0, <1>2, <2>2 DEF StateInv, PendingWaitsOnRunning, PendingCoversRunning
    <2>5. AskedAreRunning' /\ RequestedAreRunning'
      BY <1>0, <1>2, <2>1, <2>2
      DEF StateInv, AskedAreRunning, RequestedAreRunning, Context, Running
    <2>. QED
      BY <1>0, <1>2, <2>3, <2>4, <2>5 DEF StateInv, FiredMeansStopped
  <1>. QED
    BY <1>1, <1>2 DEF ProcessRequestResume, Fail

LEMMA ResetPreserves ==
    ASSUME IInv, ResetNow
    PROVE  StateInv' /\ FiredMeansStopped'
  <1>1. /\ StateOK /\ fired = None
    BY DEF IInv, TypeOK, HistoryFresh, ResetNow, Processing
  <1>2. Known' = {} /\ Running' = {} /\ m_tid_map' \in [Known' -> ThreadContext]
    BY DEF ResetNow, NoThreads, Known, Running
  <1>. QED
    BY <1>1, <1>2 DEF ResetNow, StateInv, StateOK, PendingWaitsOnRunning,
       PendingCoversRunning, AskedAreRunning, RequestedAreRunning, FiredMeansStopped

LEMMA DequeuePreserves ==
    ASSUME IInv, DequeueEvent
    PROVE  StateInv' /\ FiredMeansStopped'
  <1>1. StateOK /\ StateInv /\ Known' = Known /\ Running' = Running
    BY DEF IInv, TypeOK, StateInv, DequeueEvent, Known, Running
  <1>2. StateOK' /\ FiredMeansStopped'
    BY <1>1 DEF StateOK, DequeueEvent, FiredMeansStopped
  <1>. QED
    BY <1>1, <1>2 DEF DequeueEvent, StateInv, PendingWaitsOnRunning,
       PendingCoversRunning, AskedAreRunning, RequestedAreRunning

-----------------------------------------------------------------------------
\* Every step preserves the inductive invariant.
LEMMA StepPreservesIInv ==
    ASSUME IInv, [Next]_vars
    PROVE  IInv'
  <1>0. /\ QueueOK /\ StateInv /\ FiredMeansStopped /\ HistoryFresh
        /\ fired \in Firing \cup {None} /\ error \in BOOLEAN
    BY DEF IInv, TypeOK, StateInv, StateOK
  <1>1. QueueOK'
    BY <1>0, QueueTyped DEF vars, QueueOK
  <1>2. StateInv' /\ FiredMeansStopped'
    <2>1. CASE UNCHANGED stateVars
      BY <1>0, <2>1, UnchangedState DEF stateVars, FiredMeansStopped, Running, Known
    <2>2. CASE ~UNCHANGED stateVars
      BY <2>2, StopPreserves, DeathPreserves, CreatePreserves, CallAfterPreserves,
         ResumePreserves, ResetPreserves, DequeuePreserves
      DEF Next, Callers, EnqueueEvent, ResetForExec, Coordinator, BlockOnQueue,
          SpuriousWakeup, ProcessEvent, ProcessStopCoordinator, vars, stateVars
    <2>. QED
      BY <2>1, <2>2
  <1>3. HistoryFresh'
    <2>1. ASSUME NEW type, Processing(type) PROVE loop' # "processing"
      BY <2>1 DEF Processing
    <2>2. CASE loop' # "processing"
      BY <2>2 DEF HistoryFresh
    <2>3. CASE DequeueEvent
      BY <2>3 DEF DequeueEvent, HistoryFresh
    <2>4. CASE ~DequeueEvent /\ loop' = "processing"
      BY <2>1, <2>4, <1>0
      DEF Next, Callers, EnqueueEvent, ResetForExec, Coordinator, BlockOnQueue,
          SpuriousWakeup, ProcessEvent, ProcessStopCoordinator, vars, stateVars,
          ProcessCallAfterThreadsStop, ProcessRequestResume, ThreadDidStop,
          ThreadWasCreated, ThreadDidDie, ResetNow, HistoryFresh
    <2>. QED
      BY <2>2, <2>3, <2>4
  <1>. QED
    BY <1>1, <1>2, <1>3 DEF IInv, TypeOK, StateInv

\* IInv holds in every reachable state.
THEOREM InductiveInvariant == Spec => []IInv
  <1>1. Init => IInv
    <2>. SUFFICES ASSUME Init PROVE IInv
      OBVIOUS
    <2>1. Known = {} /\ Running = {} /\ m_tid_map \in [Known -> ThreadContext]
      BY DEF Init, NoThreads, Known, Running
    <2>2. QueueOK
      BY DEF Init, QueueOK
    <2>3. StateOK
      BY <2>1 DEF Init, StateOK
    <2>4. PendingWaitsOnRunning /\ FiredMeansStopped /\ PendingCoversRunning
      BY DEF Init, PendingWaitsOnRunning, FiredMeansStopped, PendingCoversRunning
    <2>5. AskedAreRunning /\ RequestedAreRunning /\ HistoryFresh
      BY <2>1 DEF Init, AskedAreRunning, RequestedAreRunning, HistoryFresh
    <2>. QED
      BY <2>2, <2>3, <2>4, <2>5 DEF IInv, TypeOK
  <1>2. IInv /\ [Next]_vars => IInv'
    BY StepPreservesIInv
  <1>. QED
    BY <1>1, <1>2, PTL DEF Spec

\* The queue holds events, the map contexts of known threads, and the pending
\* notification is a notification: TypeOK for any threads, calls and bound.
THEOREM TypeCorrect == Spec => []TypeOK
  <1>1. IInv => TypeOK
    BY DEF IInv
  <1>. QED
    BY <1>1, InductiveInvariant, PTL

\* A pending notification waits for threads that are known to run, at least
\* one: ProcessEvent never leaves one that can no longer fire.
THEOREM PendingCanFire == Spec => []PendingWaitsOnRunning
  <1>1. IInv => PendingWaitsOnRunning
    BY DEF IInv
  <1>. QED
    BY <1>1, InductiveInvariant, PTL

\* When NotifyNow reports a stop of all threads, only threads that were resumed
\* since the report was deferred are running.
THEOREM ReportsAreSound == Spec => []FiredMeansStopped
  <1>1. IInv => FiredMeansStopped
    BY DEF IInv
  <1>. QED
    BY <1>1, InductiveInvariant, PTL

\* A thread that was asked to stop, if it leaves the asked set, does not run:
\* ThreadDidStop does not resume it.
THEOREM AskingWorks == Spec => AskedThreadsStop
  <1>1. IInv /\ [Next]_vars => [\A t \in asked : t \notin asked' => t \notin Running']_vars
    <2>. SUFFICES ASSUME IInv, Next, NEW t \in asked, t \notin asked'
                  PROVE  t \notin Running'
      OBVIOUS
    <2>0. /\ StateOK /\ t \in Running /\ t \in Known
          /\ m_tid_map[t].m_stop_requested \/ ~m_tid_map[t].can_resume
      BY DEF IInv, TypeOK, AskedAreRunning, Running
    <2>1. CASE ThreadDidStop
      <3>1. /\ t = event.tid
            /\ \/ m_tid_map' = [m_tid_map EXCEPT ![t] =
                                  Context("Stopped", FALSE, m_tid_map[t].can_resume)]
               \/ Unrequested(m_tid_map[t])
        BY <2>1 DEF ThreadDidStop, Fail
      <3>2. ~Unrequested(m_tid_map[t])
        BY <2>0 DEF Unrequested
      <3>. QED
        BY <2>0, <3>1, <3>2 DEF StateOK, Running, Known, Context
    <2>2. CASE ThreadDidDie
      BY <2>2 DEF ThreadDidDie, Fail, Running, Known
    <2>3. CASE ResetNow
      BY <2>3 DEF ResetNow, NoThreads, Running, Known
    <2>4. CASE ProcessCallAfterThreadsStop \/ ThreadWasCreated \/ ProcessRequestResume
      BY <2>4 DEF ProcessCallAfterThreadsStop, RequestThreadStop, Fail,
                  ThreadWasCreated, AddThreadStopRequirement, ProcessRequestResume
    <2>5. CASE DequeueEvent \/ UNCHANGED stateVars
      BY <2>5 DEF DequeueEvent, stateVars
    <2>. QED
      BY <2>1, <2>2, <2>3, <2>4, <2>5
      DEF Next, Callers, EnqueueEvent, ResetForExec, Coordinator, BlockOnQueue,
          SpuriousWakeup, ProcessEvent, ProcessStopCoordinator
  <1>. QED
    BY <1>1, InductiveInvariant, PTL DEF Spec, AskedThreadsStop
=============================================================================
