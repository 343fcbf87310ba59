--------------------------- MODULE ParallelForEach ---------------------------
(***************************************************************************)
(* parallel_for_each of lld, lld/include/lld/Core/Parallel.h, as the ELF   *)
(* writer uses it: OutputELFWriter::writeOutput runs it over the sections, *)
(* AtomSection::write runs it again over the atoms of one section, and a   *)
(* relocation that fails ends the process, from whatever thread it is on.  *)
(*                                                                         *)
(* The stack of the executor is shared by all groups.  How its workers     *)
(* sleep and wake is the subject of module ThreadPool: here an idle worker *)
(* may take a closure whenever there is one.                               *)
(***************************************************************************)
EXTENDS Integers, Sequences, FiniteSets

CONSTANTS ThreadCount,  \* worker threads of the executor
          taskSize,     \* elements that one closure handles (1024)
          MaxSections,  \* bound: sections of the output
          AtomCounts    \* bound: how many atoms a section may have

ASSUME ForEachAssumption ==
    /\ ThreadCount \in Nat \ {0} /\ taskSize \in Nat \ {0}
    /\ MaxSections \in Nat /\ AtomCounts \subseteq Nat

Main     == 0
Workers  == 1 .. ThreadCount
Agents   == {Main} \cup Workers
Sections == 1 .. MaxSections
Outer    == 0                       \* the group of writeOutput
Groups   == {Outer} \cup Sections   \* and one for each section

VARIABLES
    size,       \* elements of each group's range: sections, or atoms
    _workStack, \* the executor's closures, the last one on top
    _latch,     \* count of each group's latch
    frames,     \* for each thread, the calls it is in, the innermost last
    written,    \* how often each atom has been written to the buffer
    success,    \* of each section: no relocation has failed
    _stop,      \* the executor is being destroyed
    left,       \* workers that have left work()
    status      \* of the process

vars == <<size, _workStack, _latch, frames, written, success, _stop, left, status>>

\* A range of a group still to be handled.  A call has spawned nothing yet,
\* handles the rest itself, waits in ~TaskGroup, or exits the process.
Closure == [group : Groups, begin : Nat, end : Nat]
Frame   == [group : Groups, begin : Nat, end : Nat, kind : {"call", "closure"},
            at : {"spawn", "each", "sync", "exit"}]

CallOf(g) == [group |-> g, begin |-> 0, end |-> size[g], kind |-> "call",
              at |-> "spawn"]

Idle(a) == frames[a] = <<>>
Top(a)  == frames[a][Len(frames[a])]
At(a, place) == ~Idle(a) /\ Top(a).at = place

\* Thread a replaces its innermost call, enters one, or leaves it.
Becomes(a, f) == frames' = [frames EXCEPT ![a] = [@ EXCEPT ![Len(@)] = f]]
Leaves(a)     == frames' = [frames EXCEPT ![a] = SubSeq(@, 1, Len(@) - 1)]

-----------------------------------------------------------------------------
\* Main has entered the parallel_for_each of writeOutput.
Init ==
    /\ size \in {n \in [Groups -> AtomCounts \cup 0 .. MaxSections] :
                    /\ n[Outer] \in 0 .. MaxSections
                    /\ \A s \in Sections : IF s <= n[Outer] THEN n[s] \in AtomCounts
                                                           ELSE n[s] = 0}
    /\ _workStack = <<>>
    /\ _latch = [g \in Groups |-> 0]
    /\ frames = [a \in Agents |-> IF a = Main THEN <<CallOf(Outer)>> ELSE <<>>]
    /\ written = [s \in Sections |-> [i \in 0 .. size[s] - 1 |-> 0]]
    /\ success = [s \in Sections |-> TRUE]
    /\ _stop = FALSE /\ left = {}
    /\ status = "linking"

\* Plausible slip: the test of the loop lets the last closure run past end.
SpawnTask_PastEnd(a) ==
    /\ At(a, "spawn")
    /\ LET f == Top(a)
           last == f.begin + taskSize
       IN  /\ taskSize <= f.end - f.begin + 1
           /\ _latch' = [_latch EXCEPT ![f.group] = @ + 1]
           /\ _workStack' = Append(_workStack,
                [group |-> f.group, begin |-> f.begin, end |-> last])
           /\ Becomes(a, [f EXCEPT !.begin = last])
    /\ UNCHANGED <<size, written, success, _stop, left, status>>

\* One round of the loop: a closure for the next taskSize elements.
SpawnTask(a) ==
    /\ At(a, "spawn")
    /\ LET f == Top(a)
           last == f.begin + taskSize
       IN  /\ taskSize <= f.end - f.begin
           /\ _latch' = [_latch EXCEPT ![f.group] = @ + 1]
           /\ _workStack' = Append(_workStack,
                [group |-> f.group, begin |-> f.begin, end |-> last])
           /\ Becomes(a, [f EXCEPT !.begin = last])
    /\ UNCHANGED <<size, written, success, _stop, left, status>>

\* The loop ends: the caller handles what is left over itself.
EndSpawn(a) ==
    /\ At(a, "spawn")
    /\ taskSize > Top(a).end - Top(a).begin
    /\ Becomes(a, [Top(a) EXCEPT !.at = "each"])
    /\ UNCHANGED <<size, _workStack, _latch, written, success, _stop, left, status>>

\* func on a section: AtomSection::write, which calls parallel_for_each.
WriteSection(a) ==
    /\ At(a, "each")
    /\ LET f == Top(a)
       IN  /\ f.group = Outer /\ f.begin < f.end
           /\ frames' = [frames EXCEPT ![a] =
                Append([@ EXCEPT ![Len(@)] = [f EXCEPT !.begin = f.begin + 1]],
                       CallOf(f.begin + 1))]
    /\ UNCHANGED <<size, _workStack, _latch, written, success, _stop, left, status>>

\* func on an atom: its content and its relocations, which may fail.
WriteAtom(a) ==
    /\ At(a, "each")
    /\ LET f == Top(a)
       IN  /\ f.group # Outer /\ f.begin < f.end
           /\ written' = [written EXCEPT ![f.group][f.begin] = @ + 1]
           /\ \E ok \in BOOLEAN :
                success' = [success EXCEPT ![f.group] = @ /\ ok]
           /\ Becomes(a, [f EXCEPT !.begin = @ + 1])
    /\ UNCHANGED <<size, _workStack, _latch, _stop, left, status>>

\* The caller has handled its share and waits in ~TaskGroup.
EndCall(a) ==
    /\ At(a, "each")
    /\ Top(a).kind = "call" /\ Top(a).begin = Top(a).end
    /\ Becomes(a, [Top(a) EXCEPT !.at = "sync"])
    /\ UNCHANGED <<size, _workStack, _latch, written, success, _stop, left, status>>

\* Plausible slip: the closure returns without counting itself out.
EndClosure_NoDec(a) ==
    /\ At(a, "each")
    /\ Top(a).kind = "closure" /\ Top(a).begin = Top(a).end
    /\ Leaves(a)
    /\ UNCHANGED <<size, _workStack, _latch, written, success, _stop, left, status>>

\* The closure ends with _latch.dec().
EndClosure(a) ==
    /\ At(a, "each")
    /\ Top(a).kind = "closure" /\ Top(a).begin = Top(a).end
    /\ _latch' = [_latch EXCEPT ![Top(a).group] = @ - 1]
    /\ Leaves(a)
    /\ UNCHANGED <<size, _workStack, written, success, _stop, left, status>>

\* Plausible slip: the group is left without waiting for its closures.
Synced_NoWait(a) == At(a, "sync")

\* ~TaskGroup returns, and with it parallel_for_each: ...
Synced(a) == At(a, "sync") /\ _latch[Top(a).group] = 0

\* ... every relocation of the section worked, ...
SectionWritten(a) ==
    /\ Synced(a)
    /\ Top(a).group # Outer /\ success[Top(a).group]
    /\ Leaves(a)
    /\ UNCHANGED <<size, _workStack, _latch, written, success, _stop, left, status>>

\* Plausible slip: a failed relocation is reported and not acted upon.
FatalError_Ignored(a) ==
    /\ Synced(a)
    /\ Top(a).group # Outer /\ ~success[Top(a).group]
    /\ Leaves(a)
    /\ UNCHANGED <<size, _workStack, _latch, written, success, _stop, left, status>>

\* ... or one failed: report_fatal_error calls exit(), which destroys the
\* executor on this thread.  What a second thread in exit() does is not
\* defined: it stays there, or ends the process under the first one.
FatalError(a) ==
    /\ Synced(a)
    /\ Top(a).group # Outer /\ ~success[Top(a).group]
    /\ Becomes(a, [Top(a) EXCEPT !.at = "exit"])
    /\ _stop' = TRUE
    /\ \/ status' = "exiting"
       \/ status = "exiting" /\ status' = "exited"
    /\ UNCHANGED <<size, _workStack, _latch, written, success, left>>

\* ... or all sections are written, and Main commits the buffer.
Commit ==
    /\ Synced(Main)
    /\ Top(Main).group = Outer
    /\ Leaves(Main)
    /\ status' = "committed"
    /\ UNCHANGED <<size, _workStack, _latch, written, success, _stop, left>>

-----------------------------------------------------------------------------
\* work(): run the closure on top of the stack, ...
TakeClosure(w) ==
    /\ Idle(w) /\ ~_stop /\ _workStack # <<>>
    /\ LET c == _workStack[Len(_workStack)]
       IN  frames' = [frames EXCEPT ![w] =
              <<[group |-> c.group, begin |-> c.begin, end |-> c.end,
                 kind |-> "closure", at |-> "each"]>>]
    /\ _workStack' = SubSeq(_workStack, 1, Len(_workStack) - 1)
    /\ UNCHANGED <<size, _latch, written, success, _stop, left, status>>

\* Plausible slip: work() returns past _done.dec().
LeaveWork_NoDec(w) ==
    /\ Idle(w) /\ _stop /\ w \notin left
    /\ UNCHANGED vars

\* ... or leave: the executor is being destroyed.
LeaveWork(w) ==
    /\ Idle(w) /\ _stop /\ w \notin left
    /\ left' = left \cup {w}
    /\ UNCHANGED <<size, _workStack, _latch, frames, written, success, _stop, status>>

\* ~ThreadPoolExecutor, called by exit(), returns when all of them have.
ExitReturns(a) ==
    /\ At(a, "exit") /\ left = Workers
    /\ status' = "exited"
    /\ UNCHANGED <<size, _workStack, _latch, frames, written, success, _stop, left>>

Over == status \in {"committed", "exited"}

ForEachStep(a) ==
    \/ SpawnTask(a) \/ EndSpawn(a) \/ WriteSection(a) \/ WriteAtom(a)
    \/ EndCall(a) \/ EndClosure(a) \/ SectionWritten(a)
    \/ FatalError(a) \/ ExitReturns(a)
WorkerStep(w) == TakeClosure(w) \/ LeaveWork(w)
AgentStep(a) ==
    /\ ~Over
    /\ ForEachStep(a) \/ (a \in Workers /\ WorkerStep(a)) \/ (a = Main /\ Commit)

Next == \E a \in Agents : AgentStep(a)
Spec == Init /\ [][Next]_vars

\* Every thread is scheduled; writing a section or an atom ends.
FairSpec == Spec /\ \A a \in Agents : WF_vars(AgentStep(a))

-----------------------------------------------------------------------------
(* Properties                                                              *)

\* The calls and closures of group g that are on some thread's stack, and its
\* closures that are still in the executor's stack.
InFrames(g, kind) ==
    {f \in UNION {{frames[a][i] : i \in DOMAIN frames[a]} : a \in Agents} :
        f.group = g /\ f.kind = kind}
InStack(g) == {c \in {_workStack[i] : i \in DOMAIN _workStack} : c.group = g}

TypeOK ==
    /\ size \in [Groups -> Nat]
    /\ _workStack \in Seq(Closure)
    /\ _latch \in [Groups -> Nat]
    /\ frames \in [Agents -> Seq(Frame)]
    /\ DOMAIN written = Sections
    /\ \A s \in Sections : written[s] \in [0 .. size[s] - 1 -> Nat]
    /\ success \in [Sections -> BOOLEAN]
    /\ _stop \in BOOLEAN /\ left \subseteq Workers
    /\ status \in {"linking", "exiting", "exited", "committed"}

\* What is committed to disk is complete: every atom of every section has
\* been written, once, and every relocation of it was applied.
CommittedIsComplete ==
    status = "committed" =>
        \A s \in Sections : /\ success[s]
                            /\ \A i \in 0 .. size[s] - 1 : written[s][i] = 1

\* Every group keeps the promise of module TaskGroup, although all groups
\* share one stack and one set of workers: each range is run once, and the call
\* that the group lives in returns when none is queued or running.  A range is
\* named by its end.
Group(g) == INSTANCE TaskGroup WITH
                Tasks <- UNION {0 .. n : n \in AtomCounts \cup {MaxSections}},
                open <- InFrames(g, "call") # {},
                queued <- {c.end : c \in InStack(g)},
                running <- {f.end : f \in InFrames(g, "closure")}
ImplementsTaskGroup ==
    /\ \A s \in Sections : Group(s)!Init
    /\ [][\A g \in Groups : Group(g)!Next \/ UNCHANGED Group(g)!vars]_vars

\* A worker inside a section that it writes as a closure of writeOutput.
Nested(w) == Len(frames[w]) > 1

\* Nobody can go on: those that are in a call wait, and the idle workers have
\* nothing to take or have left.
Waits(a) ==
    \/ At(a, "sync") /\ _latch[Top(a).group] # 0
    \/ At(a, "exit") /\ left # Workers
    \/ Idle(a) /\ (a \in left \/ (~_stop /\ _workStack = <<>>))
Stuck == ~Over /\ \A a \in Agents : Waits(a)

\* The writer hangs only through nesting: when every worker has been taken by
\* a closure over sections and waits there for atoms that nobody is left to
\* write, or when exit() waits for such a worker.
HangsOnlyWhenNested ==
    Stuck => IF _stop THEN \E w \in Workers : Nested(w)
                      ELSE \A w \in Workers : Nested(w)

\* With fewer closures over sections than workers the writer always ends, with
\* the file committed or, after a failed relocation, with the process, except
\* that exit() may hang, waiting for a worker that is inside a section.
ExitHangs == status = "exiting" /\ Stuck /\ \E w \in Workers : Nested(w)
LinkEnds == (size[Outer] \div taskSize < ThreadCount) ~> (Over \/ ExitHangs)

\* When no section is written by a worker, exit() does end the process.
ExitEnds == (size[Outer] < taskSize /\ status = "exiting") ~> (status = "exited")

-----------------------------------------------------------------------------
(* The inductive invariant behind the safety properties                    *)

\* Where a range of elements that are still to be handled may be: in the stack
\* of the executor, or in a frame of a thread.
Stack   == -1
Places  == Agents \cup {Stack}
Held(p) == IF p = Stack THEN _workStack ELSE frames[p]
Todo(g, x) ==
    \E p \in Places : \E d \in DOMAIN Held(p) :
        Held(p)[d].group = g /\ Held(p)[d].begin <= x /\ x < Held(p)[d].end

\* Who runs closures of a group, which are queued, and who is in the call of
\* parallel_for_each for section s.
Queued(g)  == {i \in DOMAIN _workStack : _workStack[i].group = g}
Running(g) == {w \in Workers : ~Idle(w) /\ frames[w][1].group = g}
InCall(s)  == {a \in Agents : Len(frames[a]) = 2 /\ frames[a][2].group = s}

SizesFit ==
    /\ size[Outer] \in 0 .. MaxSections
    /\ \A s \in Sections : size[s] \in AtomCounts \cup {0}

\* A worker runs one closure, Main the call of writeOutput; above them there
\* may be the call for one section.
FramesNest ==
    \A a \in Agents :
        /\ Len(frames[a]) \in 0 .. 2
        /\ Len(frames[a]) # 0 =>
               IF a = Main THEN frames[a][1].kind = "call" /\ frames[a][1].group = Outer
               ELSE frames[a][1].kind = "closure" /\ frames[a][1].at = "each"
        /\ Len(frames[a]) = 2 =>
               /\ frames[a][1].group = Outer /\ frames[a][1].at = "each"
               /\ frames[a][2].kind = "call" /\ frames[a][2].group \in Sections

\* Ranges lie inside their group; a call reaches to the end of it, and has
\* handled its share when it waits or exits.
RangesFit ==
    /\ \A p \in Places : \A d \in DOMAIN Held(p) :
           /\ Held(p)[d].begin <= Held(p)[d].end
           /\ Held(p)[d].end <= size[Held(p)[d].group]
    /\ \A a \in Agents : \A d \in DOMAIN frames[a] :
           /\ frames[a][d].kind = "call" => frames[a][d].end = size[frames[a][d].group]
           /\ frames[a][d].at \in {"sync", "exit"} => frames[a][d].begin = frames[a][d].end
           /\ frames[a][d].at = "exit" => d = 2

\* An element is in one range at most.
ElementsOnce ==
    \A p, q \in Places : \A d \in DOMAIN Held(p), e \in DOMAIN Held(q) :
        /\ Held(p)[d].group = Held(q)[e].group
        /\ Held(p)[d].begin < Held(q)[e].end /\ Held(q)[e].begin < Held(p)[d].end
        /\ Held(p)[d].begin < Held(p)[d].end /\ Held(q)[e].begin < Held(q)[e].end
        => p = q /\ d = e

\* Closures of a group end where no other one does, and before the part that
\* its call has not given away.
EndsDiffer ==
    /\ \A p, q \in Workers \cup {Stack} : \A d \in DOMAIN Held(p), e \in DOMAIN Held(q) :
           /\ p # Stack => d = 1
           /\ q # Stack => e = 1
           /\ Held(p)[d].group = Held(q)[e].group /\ Held(p)[d].end = Held(q)[e].end
           => p = q /\ d = e
    /\ \A p \in Workers \cup {Stack}, a \in Agents :
       \A d \in DOMAIN Held(p), e \in DOMAIN frames[a] :
           /\ p # Stack => d = 1
           /\ frames[a][e].kind = "call" /\ frames[a][e].group = Held(p)[d].group
           => Held(p)[d].end <= frames[a][e].begin

LatchExact ==
    \A g \in Groups : _latch[g] = Cardinality(Queued(g)) + Cardinality(Running(g))

\* One thread at most is in the call for a section, and somebody is as long as
\* anything of this group is queued or running or a relocation has failed.
CallsLive ==
    /\ \A s \in Sections : \A a, b \in InCall(s) : a = b
    /\ \A p \in Places : \A d \in DOMAIN Held(p) :
           Held(p)[d].group = Outer => ~Idle(Main)
    /\ \A s \in Sections : \A p \in Places : \A d \in DOMAIN Held(p) :
           Held(p)[d].group = s => InCall(s) # {}
    /\ \A s \in Sections : ~success[s] => InCall(s) # {}

\* Nothing of a section that is still to be handled exists, and an atom has
\* been written once unless it or its section is still to be handled.
WritesExact ==
    /\ \A s \in Sections : Todo(Outer, s - 1) =>
           \A p \in Places : \A d \in DOMAIN Held(p) : Held(p)[d].group # s
    /\ \A s \in Sections : \A i \in 0 .. size[s] - 1 :
           written[s][i] = IF Todo(Outer, s - 1) \/ Todo(s, i) THEN 0 ELSE 1

\* The executor is destroyed by a thread that stays in exit(), workers leave
\* only then, and Main leaves its call only when all is done.
EndsMatch ==
    /\ left # {} => _stop
    /\ _stop <=> \E a \in Agents : Len(frames[a]) = 2 /\ frames[a][2].at = "exit"
    /\ Idle(Main) => status = "committed"
    /\ status = "committed" => \A p \in Places : Held(p) = <<>>

IInv ==
    /\ TypeOK /\ SizesFit /\ FramesNest /\ RangesFit /\ ElementsOnce /\ EndsDiffer
    /\ LatchExact /\ CallsLive /\ WritesExact /\ EndsMatch
=============================================================================
