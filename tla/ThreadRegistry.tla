--------------------------- MODULE ThreadRegistry ---------------------------
(***************************************************************************)
(* The registry of thread contexts shared by the sanitizers,               *)
(* compiler-rt/lib/sanitizer_common/sanitizer_thread_registry.cc.  Every   *)
(* method runs under the registry's mutex and is one action; the virtual   *)
(* callbacks (OnCreated, OnStarted, ...) belong to the tool and are        *)
(* conjoined by the module that EXTENDS this one (TsanThreads).            *)
(*                                                                         *)
(* A context that dies waits in a quarantine; when the quarantine is full  *)
(* the oldest one becomes invalid, its reuse count grows, and its tid may  *)
(* be handed out again.                                                    *)
(***************************************************************************)
EXTENDS ThreadIds, Sequences, FiniteSets

CONSTANTS thread_quarantine_size,   \* dead contexts kept out of use
          max_reuse                 \* reuses of one context, 0 for no limit

ASSUME RegistryAssumption ==
    /\ thread_quarantine_size \in Nat
    /\ max_reuse \in Nat

VARIABLES n_contexts_,      \* contexts 0 .. n_contexts_ - 1 exist
          status,           \* ThreadContextBase::status by tid
          detached,         \* ThreadContextBase::detached by tid
          reuse_count,      \* ThreadContextBase::reuse_count by tid
          dead_threads_,    \* the quarantine, oldest first
          invalid_threads_, \* contexts ready for reuse, oldest first
          alive_threads_,   \* created or running
          running_threads_

registryVars == <<n_contexts_, status, detached, reuse_count, dead_threads_,
                  invalid_threads_, alive_threads_, running_threads_>>

Statuses == {"Invalid", "Created", "Running", "Finished", "Dead"}

\* The registry of a tool whose main thread (tid 0) has been created and
\* started by the initialisation of the runtime.
RegistryInit ==
    /\ n_contexts_ = 1
    /\ status = [t \in Tids |-> IF t = 0 THEN "Running" ELSE "Invalid"]
    /\ detached = [t \in Tids |-> FALSE]
    /\ reuse_count = [t \in Tids |-> 0]
    /\ dead_threads_ = <<>>
    /\ invalid_threads_ = <<>>
    /\ alive_threads_ = 1
    /\ running_threads_ = 1

-----------------------------------------------------------------------------
\* Plausible slip: the context stays in the quarantine when it is reused.
QuarantinePush_NoPop(tid, st) ==
    LET dead   == Append(dead_threads_, tid)
        victim == Head(dead)
        reuses == reuse_count[victim] + 1
    IN  IF Len(dead) <= thread_quarantine_size
        THEN /\ dead_threads_' = dead
             /\ status' = st
             /\ UNCHANGED <<reuse_count, invalid_threads_>>
        ELSE /\ dead_threads_' = dead
             /\ status' = [st EXCEPT ![victim] = "Invalid"]
             /\ reuse_count' = [reuse_count EXCEPT ![victim] = reuses]
             /\ invalid_threads_' = Append(invalid_threads_, victim)

\* QuarantinePush(tctx) of a context whose status just became Dead; st is the
\* status table with that change made.
QuarantinePush(tid, st) ==
    LET dead   == Append(dead_threads_, tid)
        victim == Head(dead)
        reuses == reuse_count[victim] + 1
    IN  IF Len(dead) <= thread_quarantine_size
        THEN /\ dead_threads_' = dead
             /\ status' = st
             /\ UNCHANGED <<reuse_count, invalid_threads_>>
        ELSE /\ dead_threads_' = Tail(dead)
             /\ status' = [st EXCEPT ![victim] = "Invalid"]
             /\ reuse_count' = [reuse_count EXCEPT ![victim] = reuses]
             /\ invalid_threads_' = IF max_reuse > 0 /\ reuses >= max_reuse
                                    THEN invalid_threads_
                                    ELSE Append(invalid_threads_, victim)

\* The tid CreateThread hands out: QuarantinePop(), else a new context.
NextTid ==
    IF invalid_threads_ # <<>> THEN Head(invalid_threads_) ELSE n_contexts_

\* CreateThread(): at the limit of contexts the process dies instead.
CreateThread(tid, isDetached) ==
    /\ tid = NextTid /\ tid \in Tids
    /\ IF invalid_threads_ # <<>>
       THEN invalid_threads_' = Tail(invalid_threads_) /\ UNCHANGED n_contexts_
       ELSE n_contexts_' = n_contexts_ + 1 /\ UNCHANGED invalid_threads_
    /\ alive_threads_' = alive_threads_ + 1
    /\ status' = [status EXCEPT ![tid] = "Created"]
    /\ detached' = [detached EXCEPT ![tid] = isDetached]
    /\ UNCHANGED <<reuse_count, dead_threads_, running_threads_>>

\* StartThread(), called by the new thread.
StartThread(tid) ==
    /\ status[tid] = "Created"
    /\ running_threads_' = running_threads_ + 1
    /\ status' = [status EXCEPT ![tid] = "Running"]
    /\ UNCHANGED <<n_contexts_, detached, reuse_count, dead_threads_,
                   invalid_threads_, alive_threads_>>

\* FinishThread(): a detached thread dies at once, another one waits to be
\* joined or detached.
FinishThread(tid) ==
    /\ status[tid] = "Running"
    /\ alive_threads_' = alive_threads_ - 1
    /\ running_threads_' = running_threads_ - 1
    /\ IF detached[tid]
       THEN QuarantinePush(tid, [status EXCEPT ![tid] = "Dead"])
       ELSE /\ status' = [status EXCEPT ![tid] = "Finished"]
            /\ UNCHANGED <<reuse_count, dead_threads_, invalid_threads_>>
    /\ UNCHANGED <<n_contexts_, detached>>

\* JoinThread(): a context that is not in use is reported and left alone; its
\* callers have waited for any other to finish, and did not detach it.
JoinThread(tid) ==
    /\ tid < n_contexts_
    /\ \/ status[tid] = "Invalid" /\ UNCHANGED registryVars
       \/ /\ status[tid] = "Finished" /\ ~detached[tid]
          /\ QuarantinePush(tid, [status EXCEPT ![tid] = "Dead"])
          /\ UNCHANGED <<n_contexts_, detached, alive_threads_, running_threads_>>

\* DetachThread(): a context that is not in use is reported and left alone; a
\* finished thread dies, and any other one will when it finishes.
DetachThread(tid) ==
    /\ tid < n_contexts_
    /\ \/ status[tid] = "Invalid" /\ UNCHANGED registryVars
       \/ /\ status[tid] = "Finished"
          /\ QuarantinePush(tid, [status EXCEPT ![tid] = "Dead"])
          /\ UNCHANGED <<n_contexts_, detached, alive_threads_, running_threads_>>
       \/ /\ status[tid] \in {"Created", "Running", "Dead"}
          /\ detached' = [detached EXCEPT ![tid] = TRUE]
          /\ UNCHANGED <<n_contexts_, status, reuse_count, dead_threads_,
                         invalid_threads_, alive_threads_, running_threads_>>

\* The registry alone, driven by any tool that keeps its CHECKs.
RegistryNext ==
    \E tid \in Tids :
        \/ \E isDetached \in BOOLEAN : CreateThread(tid, isDetached)
        \/ StartThread(tid) \/ FinishThread(tid)
        \/ JoinThread(tid) \/ DetachThread(tid)

RegistrySpec == RegistryInit /\ [][RegistryNext]_registryVars

-----------------------------------------------------------------------------
(* Properties *)

InList(seq) == {seq[i] : i \in DOMAIN seq}
NoRepeats(seq) == \A i, j \in DOMAIN seq : seq[i] = seq[j] => i = j
WithStatus(S) == {t \in Tids : status[t] \in S}

RegistryTypeOK ==
    /\ n_contexts_ \in 0 .. max_threads
    /\ status \in [Tids -> Statuses]
    /\ detached \in [Tids -> BOOLEAN]
    /\ reuse_count \in [Tids -> Nat]
    /\ dead_threads_ \in Seq(Tids)
    /\ invalid_threads_ \in Seq(Tids)
    /\ alive_threads_ \in Int
    /\ running_threads_ \in Int

\* The two intrusive lists never hold a context twice, together or apart, and
\* hold exactly the contexts their names say: every dead context is in the
\* quarantine, and a context ready for reuse is invalid, so CreateThread never
\* hands out the tid of a thread that is alive or not yet joined (its
\* CHECK_EQ(tctx->status, ThreadStatusInvalid)).
ListsMatchStatus ==
    /\ NoRepeats(dead_threads_) /\ NoRepeats(invalid_threads_)
    /\ InList(dead_threads_) = WithStatus({"Dead"})
    /\ InList(invalid_threads_) \subseteq WithStatus({"Invalid"})
    /\ Len(dead_threads_) <= thread_quarantine_size
    /\ \A t \in Tids : t >= n_contexts_ =>
           status[t] = "Invalid" /\ t \notin InList(invalid_threads_)

\* The counters that GetNumberOfThreads reports are the numbers of contexts in
\* the states they stand for (FinishThread's CHECK_GT of both cannot fire).
CountersMatchStatus ==
    /\ alive_threads_ = Cardinality(WithStatus({"Created", "Running"}))
    /\ running_threads_ = Cardinality(WithStatus({"Running"}))
=============================================================================
