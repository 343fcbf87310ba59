-------------------------- MODULE ThreadPoolProofs --------------------------
(***************************************************************************)
(* Proofs about ThreadPool, for any number of threads, any recursion depth *)
(* and any number of closures that a latch can count.                      *)
(***************************************************************************)
EXTENDS ThreadPool, FiniteSetTheorems, SequenceTheorems, TLAPS

\* Main is not a worker, and there is at least one worker.
LEMMA AgentFacts ==
    /\ Main \in Agents /\ Main \notin Workers
    /\ Workers \subseteq Agents /\ Starter \in Workers
    /\ Agents = {Main} \cup Workers
  BY ThreadPoolAssumption DEF Agents, Workers, Main, Starter

\* Counting below the width of _count does not wrap around.
LEMMA CountIsIdentity ==
    ASSUME NEW x \in Nat, x < CountSize
    PROVE  Count(x) = x
  BY ThreadPoolAssumption, SMTT(30) DEF Count

\* A latch value stays in the range of its type.
LEMMA CountInRange ==
    ASSUME NEW x \in Int
    PROVE  Count(x) \in 0 .. CountSize - 1
<1>1. CountSize \in Nat /\ CountSize > 0
  BY ThreadPoolAssumption
<1> QED BY <1>1, SMTT(30) DEF Count

-----------------------------------------------------------------------------
(* Types, the place of every thread, and the order of stop and join.       *)

\* The part of the invariant that does not need counting.
Local == TypeOK /\ PlacesOK /\ StopIsLast

LEMMA InitLocal == Init => Local
<1> SUFFICES ASSUME Init PROVE Local
  OBVIOUS
<1>1. /\ pc \in [Agents -> PCs] /\ pc[Main] = "idle"
      /\ \A w \in Workers : pc[w] \in {"starting", "unborn"}
  BY AgentFacts DEF Init, PCs
<1>2. _done \in 0 .. CountSize - 1 /\ _latch \in 0 .. CountSize - 1
  BY ThreadPoolAssumption DEF Init, DoneInitially
<1>3. TypeOK
  <2>1. _workStack \in Seq(Closure)
    BY DEF Init
  <2>4. _stop \in BOOLEAN
    BY DEF Init
  <2>2. /\ job \in [Workers -> Tasks \cup {None}]
        /\ child \in [Agents -> Tasks \cup {None}]
    BY DEF Init
  <2>3. depth \in [Agents -> 0 .. MaxDepth]
    BY ThreadPoolAssumption DEF Init
  <2> QED BY <1>1, <1>2, <2>1, <2>2, <2>3, <2>4 DEF TypeOK
<1>4. PlacesOK
  BY <1>1, AgentFacts DEF Init, PlacesOK, MainPCs, WorkerPCs
<1>5. StopIsLast
  BY <1>1 DEF Init, StopIsLast
<1> QED BY <1>3, <1>4, <1>5 DEF Local

\* Steps in which threads only move.
LEMMA MoveLocal ==
    ASSUME Local, UNCHANGED <<_workStack, _latch, job, depth, child>>,
           NEW a \in Agents,
           \/ NotifyOne(a) \/ Return(a) \/ SpuriousWakeup(a)
           \/ a \in Workers /\ (StartThread(a) \/ LeaveWork(a) \/ WaitForWork(a) \/ DecDone(a))
           \/ StarterWorks \/ Sync \/ DestroyExecutor \/ NotifyWorkers \/ Join
    PROVE  Local'
<1> USE AgentFacts DEF Local, TypeOK, PlacesOK, StopIsLast, PCs, MainPCs, WorkerPCs, Goto
<1>1. CASE NotifyOne(a)
  <2>1. CASE \A w \in Workers : pc[w] # "wait"
    BY <1>1, <2>1 DEF NotifyOne
  <2>2. ASSUME NEW w \in Workers, pc[w] = "wait",
               pc' = [pc EXCEPT ![a] = "run", ![w] = "work"]
        PROVE  Local'
    <3>1. /\ a # w /\ w # Main /\ pc[a] = "notify" /\ w \in Agents
          /\ pc' \in [Agents -> PCs] /\ _stop' = _stop /\ _done' = _done
          /\ \A b \in Agents : pc'[b] = IF b = a THEN "run"
                                        ELSE IF b = w THEN "work" ELSE pc[b]
      BY <1>1, <2>2 DEF NotifyOne
    <3> QED BY <2>2, <3>1
  <2> QED BY <1>1, <2>1, <2>2 DEF NotifyOne
<1>2. CASE Return(a)
  BY <1>2 DEF Return
<1>3. CASE SpuriousWakeup(a)
  BY <1>3 DEF SpuriousWakeup
<1>4. CASE a \in Workers /\ StartThread(a)
  BY <1>4 DEF StartThread
<1>5. CASE a \in Workers /\ LeaveWork(a)
  BY <1>5 DEF LeaveWork
<1>6. CASE a \in Workers /\ WaitForWork(a)
  BY <1>6 DEF WaitForWork
<1>7. CASE a \in Workers /\ DecDone(a)
  <2>1. /\ pc[a] = "stopping" /\ a # Main /\ _stop' = _stop
        /\ _done' \in 0 .. CountSize - 1
    BY <1>7, CountInRange DEF DecDone
  <2>2. CASE NotifyAll(a, "exited", "joinwait", "join")
    <3>1. /\ pc' \in [Agents -> PCs]
          /\ \A b \in Agents : pc'[b] = IF b = a THEN "exited"
                                        ELSE IF pc[b] = "joinwait" THEN "join" ELSE pc[b]
      BY <2>2 DEF NotifyAll
    <3> QED BY <2>1, <3>1
  <2>3. CASE Goto(a, "stopping", "exited")
    BY <2>1, <2>3
  <2> QED BY <1>7, <2>2, <2>3 DEF DecDone
<1>8. CASE StarterWorks
  BY <1>8 DEF StarterWorks
<1>9. CASE Sync
  BY <1>9 DEF Sync
<1>10. CASE DestroyExecutor
  BY <1>10 DEF DestroyExecutor
<1>11. CASE NotifyWorkers
  BY <1>11 DEF NotifyWorkers, NotifyAll
<1>12. CASE Join
  BY <1>12 DEF Join
<1> QED BY <1>1, <1>2, <1>3, <1>4, <1>5, <1>6, <1>7, <1>8, <1>9, <1>10, <1>11, <1>12

\* Steps that move a closure, or open a group.
LEMMA ClosureLocal ==
    ASSUME Local, NEW a \in Agents,
           \/ Spawn(a) \/ Add(a) \/ OpenGroup
           \/ a \in Workers /\ (TakeClosure(a) \/ Dec(a))
    PROVE  Local'
<1> USE AgentFacts DEF Local, PCs, MainPCs, WorkerPCs, Goto
<1>0. MaxDepth \in Nat /\ CountSize \in Nat /\ CountSize > 0 /\ None \notin Tasks
  BY ThreadPoolAssumption
<1>1. CASE Spawn(a)
  <2>1. PICK t \in Tasks \ Outstanding : child' = [child EXCEPT ![a] = t]
    BY <1>1 DEF Spawn
  <2>2. TypeOK'
    <3>0. depth[a] \in 0 .. MaxDepth /\ depth[a] > 0 /\ _latch + 1 \in Int
      BY <1>0, <1>1 DEF TypeOK, Spawn
    <3>1. depth[a] - 1 \in 0 .. MaxDepth /\ Count(_latch + 1) \in 0 .. CountSize - 1
      BY <1>0, <3>0, CountInRange
    <3>2. /\ depth' \in [Agents -> 0 .. MaxDepth] /\ _latch' \in 0 .. CountSize - 1
          /\ child' \in [Agents -> Tasks \cup {None}] /\ pc' \in [Agents -> PCs]
      BY <1>1, <2>1, <3>1 DEF TypeOK, Spawn
    <3> QED BY <1>1, <3>2 DEF TypeOK, Spawn
  <2>3. PlacesOK'
    BY <1>0, <1>1, <2>1 DEF TypeOK, Spawn, PlacesOK
  <2>4. StopIsLast'
    BY <1>1 DEF TypeOK, Spawn, StopIsLast
  <2> QED BY <2>2, <2>3, <2>4
<1>2. CASE Add(a)
  <2>1. pc[a] = "add" /\ child[a] \in Tasks /\ depth[a] \in 0 .. MaxDepth
    BY <1>2 DEF Add, TypeOK, PlacesOK
  <2>2. [task |-> child[a], depth |-> depth[a]] \in Closure
    BY <2>1 DEF Closure
  <2>3. _workStack' \in Seq(Closure)
    BY <1>2, <2>2 DEF Add, TypeOK
  <2>4. TypeOK'
    BY <1>2, <2>3 DEF TypeOK, Add
  <2>5. PlacesOK'
    BY <1>2 DEF TypeOK, Add, PlacesOK
  <2>6. StopIsLast'
    BY <1>2 DEF TypeOK, Add, StopIsLast
  <2> QED BY <2>4, <2>5, <2>6
<1>3. CASE OpenGroup
  <2>1. TypeOK'
    BY <1>0, <1>3 DEF TypeOK, OpenGroup
  <2>2. PlacesOK' /\ StopIsLast'
    BY <1>3 DEF TypeOK, OpenGroup, PlacesOK, StopIsLast
  <2> QED BY <2>1, <2>2
<1>4. CASE a \in Workers /\ TakeClosure(a)
  <2> DEFINE n == Len(_workStack)
             top == _workStack[n]
  <2>1. /\ _workStack \in Seq(Closure) /\ _workStack # <<>>
        /\ job' = [job EXCEPT ![a] = top.task] /\ depth' = [depth EXCEPT ![a] = top.depth]
        /\ _workStack' = SubSeq(_workStack, 1, n - 1)
    BY <1>4 DEF TakeClosure, TypeOK
  <2>2. n \in Nat /\ n >= 1 /\ top \in Closure
    BY <2>1
  <2>3. top.task \in Tasks /\ top.depth \in 0 .. MaxDepth
    BY <2>2 DEF Closure
  <2>4. _workStack' \in Seq(Closure)
    BY <2>1, <2>2
  <2> HIDE DEF n, top
  <2>5. TypeOK'
    BY <1>4, <2>1, <2>3, <2>4 DEF TypeOK, TakeClosure
  <2>6. PlacesOK'
    BY <1>0, <1>4, <2>1, <2>3 DEF TypeOK, TakeClosure, PlacesOK
  <2>7. StopIsLast'
    BY <1>4 DEF TypeOK, TakeClosure, StopIsLast
  <2> QED BY <2>5, <2>6, <2>7
<1>5. CASE a \in Workers /\ Dec(a)
  <2>1. /\ pc[a] = "dec" /\ a # Main /\ _stop' = _stop /\ _done' = _done
        /\ _latch' \in 0 .. CountSize - 1 /\ job' = [job EXCEPT ![a] = None]
        /\ UNCHANGED <<_workStack, depth, child>>
    BY <1>5, CountInRange DEF Dec, TypeOK
  <2>2. /\ pc' \in [Agents -> PCs] /\ pc'[a] = "work"
        /\ \A b \in Agents \ {a} :
              pc'[b] = pc[b] \/ (pc[b] = "syncwait" /\ pc'[b] = "sync")
    BY <1>5 DEF Dec, NotifyAll, TypeOK
  <2>3. TypeOK'
    BY <2>1, <2>2 DEF TypeOK
  <2>4. PlacesOK'
    <3>1. \A w \in Workers :
            /\ pc'[w] \in WorkerPCs
            /\ job'[w] # None <=> pc'[w] \in {"run", "add", "notify", "dec"}
      BY <2>1, <2>2 DEF TypeOK, PlacesOK
    <3>2. \A b \in Agents : child'[b] # None <=> pc'[b] = "add"
      BY <2>1, <2>2 DEF TypeOK, PlacesOK
    <3>3. pc'[Main] \in MainPCs
      BY <2>1, <2>2 DEF TypeOK, PlacesOK
    <3> QED BY <3>1, <3>2, <3>3 DEF PlacesOK
  <2>5. StopIsLast'
    BY <2>1, <2>2 DEF TypeOK, StopIsLast
  <2> QED BY <2>3, <2>4, <2>5
<1> QED BY <1>1, <1>2, <1>3, <1>4, <1>5

-----------------------------------------------------------------------------
(* Where the closures are, and how many there are.                         *)

LEMMA TasksAreCountable ==
    ASSUME NEW S \in SUBSET Tasks
    PROVE  IsFiniteSet(S) /\ Cardinality(S) \in Nat /\ Cardinality(S) < CountSize
<1>1. IsFiniteSet(Tasks) /\ Cardinality(Tasks) < CountSize /\ CountSize \in Nat
  BY ThreadPoolAssumption
<1>2. Cardinality(Tasks) \in Nat
  BY <1>1, FS_CardinalityType
<1>3. IsFiniteSet(S) /\ Cardinality(S) <= Cardinality(Tasks)
  BY <1>1, FS_Subset
<1>4. Cardinality(S) \in Nat
  BY <1>3, FS_CardinalityType
<1> QED BY <1>1, <1>2, <1>3, <1>4

LEMMA OutstandingAreTasks ==
    ASSUME TypeOK
    PROVE  /\ Outstanding \in SUBSET Tasks
           /\ InStack \in SUBSET Tasks /\ Running \in SUBSET Tasks
           /\ Spawning \in SUBSET Tasks
<1>1. InStack \in SUBSET Tasks
  <2>1. \A i \in 1 .. Len(_workStack) : _workStack[i] \in Closure
    BY DEF TypeOK
  <2>2. \A c \in Closure : c.task \in Tasks
    BY DEF Closure
  <2> QED BY <2>1, <2>2 DEF InStack
<1>2. Running \in SUBSET Tasks
  BY DEF Running, TypeOK
<1>3. Spawning \in SUBSET Tasks
  BY DEF Spawning, TypeOK
<1> QED BY <1>1, <1>2, <1>3 DEF Outstanding

\* A step that moves no closure.
LEMMA QuietClosures ==
    ASSUME Distinct, UNCHANGED <<_workStack, job, child>>
    PROVE  /\ InStack' = InStack /\ Running' = Running /\ Spawning' = Spawning
           /\ Outstanding' = Outstanding
           /\ Distinct'
<1>1. _workStack' = _workStack /\ job' = job /\ child' = child
  OBVIOUS
<1>2. InStack' = InStack /\ Running' = Running /\ Spawning' = Spawning
  BY <1>1 DEF InStack, Running, Spawning
<1>3. Outstanding' = Outstanding
  BY <1>2 DEF Outstanding
<1>4. Distinct'
  BY <1>1, <1>2 DEF Distinct
<1> QED BY <1>2, <1>3, <1>4

\* Spawn(a) makes one new closure that a is about to hand over.
LEMMA SpawnClosures ==
    ASSUME Local, Distinct, NEW a \in Agents, Spawn(a)
    PROVE  \E t \in Tasks \ Outstanding :
              /\ InStack' = InStack /\ Running' = Running
              /\ Spawning' = Spawning \cup {t}
              /\ Distinct'
<1>1. PICK t \in Tasks \ Outstanding : child' = [child EXCEPT ![a] = t]
  BY DEF Spawn
<1>2. /\ child[a] = None /\ child \in [Agents -> Tasks \cup {None}] /\ t # None
      /\ UNCHANGED <<_workStack, job>>
  BY <1>1, ThreadPoolAssumption DEF Spawn, Goto, Local, PlacesOK, TypeOK
<1>3. InStack' = InStack /\ Running' = Running
  BY <1>2 DEF InStack, Running
<1>4. Spawning' = Spawning \cup {t}
  BY <1>1, <1>2 DEF Spawning
<1>5. t \notin InStack /\ t \notin Running /\ t \notin Spawning
  BY DEF Outstanding
<1>6. \A b, c \in Agents : child'[b] = child'[c] /\ child'[b] # None => b = c
  <2>1. \A b \in Agents : child[b] # t
    BY <1>2, <1>5 DEF Spawning
  <2> QED BY <1>1, <1>2, <2>1 DEF Distinct
<1>7. /\ InStack' \cap Running' = {} /\ InStack' \cap Spawning' = {}
      /\ Running' \cap Spawning' = {}
  BY <1>3, <1>4, <1>5 DEF Distinct
<1>8. Distinct'
  BY <1>2, <1>6, <1>7 DEF Distinct
<1> QED BY <1>3, <1>4, <1>8

\* Add(a) moves that closure onto the stack.
LEMMA AddClosures ==
    ASSUME Local, Distinct, NEW a \in Agents, Add(a)
    PROVE  /\ InStack' = InStack \cup {child[a]} /\ Running' = Running
           /\ Spawning' = Spawning \ {child[a]} /\ child[a] \in Spawning
           /\ Distinct'
<1> DEFINE new == [task |-> child[a], depth |-> depth[a]]
           n   == Len(_workStack)
<1>1. /\ child[a] # None /\ child \in [Agents -> Tasks \cup {None}]
      /\ child' = [child EXCEPT ![a] = None] /\ job' = job
      /\ _workStack' = Append(_workStack, new) /\ _workStack \in Seq(Closure)
  BY DEF Add, Goto, Local, PlacesOK, TypeOK
<1>2. n \in Nat /\ Len(_workStack') = n + 1
  BY <1>1
<1>3. /\ \A i \in 1 .. n : _workStack'[i] = _workStack[i]
      /\ _workStack'[n + 1].task = child[a]
  BY <1>1
<1>4. child[a] \in Spawning /\ child[a] \notin InStack /\ child[a] \notin Running
  BY <1>1 DEF Spawning, Distinct
<1>5. Spawning' = Spawning \ {child[a]}
  BY <1>1 DEF Spawning, Distinct
<1>6. InStack' = InStack \cup {child[a]}
  BY <1>2, <1>3 DEF InStack
<1>7. Running' = Running
  BY <1>1 DEF Running
<1>8. ASSUME NEW i \in 1 .. n + 1, NEW j \in 1 .. n + 1,
             _workStack'[i].task = _workStack'[j].task
      PROVE  i = j
  <2>1. \A k \in 1 .. n : _workStack[k].task # child[a]
    BY <1>4 DEF InStack
  <2>2. \A k \in 1 .. n + 1 : k = n + 1 \/ k \in 1 .. n
    BY <1>2
  <2>3. \A k, m \in 1 .. n : _workStack[k].task = _workStack[m].task => k = m
    BY DEF Distinct
  <2> QED BY <1>3, <1>8, <2>1, <2>2, <2>3
<1>9. \A v, w \in Workers : job'[v] = job'[w] /\ job'[v] # None => v = w
  BY <1>1 DEF Distinct
<1>10. \A b, c \in Agents : child'[b] = child'[c] /\ child'[b] # None => b = c
  BY <1>1 DEF Distinct
<1>11. /\ InStack' \cap Running' = {} /\ InStack' \cap Spawning' = {}
       /\ Running' \cap Spawning' = {}
  BY <1>4, <1>5, <1>6, <1>7 DEF Distinct
<1>12. Distinct'
  BY <1>2, <1>8, <1>9, <1>10, <1>11 DEF Distinct
<1> QED BY <1>4, <1>5, <1>6, <1>7, <1>12

\* TakeClosure(w) moves the closure on top of the stack to worker w.
LEMMA TakeClosures ==
    ASSUME Local, Distinct, NEW w \in Workers, TakeClosure(w)
    PROVE  \E t \in InStack :
              /\ InStack' = InStack \ {t}
              /\ Running' = Running \cup {t}
              /\ Spawning' = Spawning
              /\ Distinct'
<1> DEFINE n == Len(_workStack)
           t == _workStack[n].task
<1>1. /\ job[w] = None /\ job \in [Workers -> Tasks \cup {None}]
      /\ job' = [job EXCEPT ![w] = t] /\ child' = child
      /\ _workStack' = SubSeq(_workStack, 1, n - 1)
      /\ _workStack \in Seq(Closure) /\ _workStack # <<>>
  BY DEF TakeClosure, Goto, Local, PlacesOK, TypeOK
<1>2. n \in Nat /\ n >= 1 /\ Len(_workStack') = n - 1
  <2>1. n \in Nat /\ n >= 1
    <3>1. _workStack \in Seq(Closure) /\ _workStack # <<>>
      BY <1>1
    <3> QED BY <3>1
  <2>2. _workStack' = SubSeq(_workStack, 1, n - 1) /\ _workStack \in Seq(Closure)
    BY <1>1
  <2>3. Len(SubSeq(_workStack, 1, n - 1)) = n - 1
    <3>1. n - 1 \in Int /\ 1 \in Int /\ (1 <= n - 1 => (n - 1) - 1 + 1 = n - 1)
          /\ (~(1 <= n - 1) => n - 1 = 0)
      <4> HIDE DEF n
      <4> QED BY <2>1
    <3>2. \A i \in 1 .. n - 1 : _workStack[i] \in Closure
      BY <2>1, <2>2
    <3>3. Len(SubSeq(_workStack, 1, n - 1)) = IF 1 <= n - 1 THEN (n - 1) - 1 + 1 ELSE 0
      <4> HIDE DEF n
      <4> QED BY <3>1, <3>2, SubSeqProperties
    <3> QED BY <3>1, <3>3
  <2> QED BY <2>1, <2>2, <2>3
<1>3. \A i \in 1 .. n - 1 : _workStack'[i] = _workStack[i]
  BY <1>1, <1>2
<1>4. t \in InStack
  BY <1>2 DEF InStack
<1>5. t \in Tasks /\ t # None
  BY <1>4, OutstandingAreTasks, ThreadPoolAssumption DEF Local
<1>6. t \notin Running /\ t \notin Spawning
  BY <1>4 DEF Distinct
<1>7. \A i, j \in 1 .. n : _workStack[i].task = _workStack[j].task => i = j
  BY DEF Distinct
<1>8. InStack' = {_workStack[i].task : i \in 1 .. n - 1}
  BY <1>2, <1>3 DEF InStack
<1>9. InStack' = InStack \ {t}
  <2>1. \A i \in 1 .. n - 1 : i \in 1 .. n /\ _workStack[i].task # t
    BY <1>2, <1>7
  <2>2. \A i \in 1 .. n : i = n \/ i \in 1 .. n - 1
    BY <1>2
  <2> QED BY <1>8, <2>1, <2>2 DEF InStack
<1> HIDE DEF t
<1>10. Running' = Running \cup {t}
  BY <1>1, <1>5 DEF Running
<1>11. Spawning' = Spawning
  BY <1>1 DEF Spawning
<1>12. \A u, v \in Workers : job'[u] = job'[v] /\ job'[u] # None => u = v
  <2>1. \A v \in Workers : job[v] # t
    BY <1>5, <1>6 DEF Running
  <2> QED BY <1>1, <2>1 DEF Distinct
<1>13. \A i, j \in 1 .. Len(_workStack') :
          _workStack'[i].task = _workStack'[j].task => i = j
  <2>1. \A i \in 1 .. n - 1 : i \in 1 .. n
    BY <1>2
  <2> QED BY <1>2, <1>3, <1>7, <2>1
<1>14. \A a, b \in Agents : child'[a] = child'[b] /\ child'[a] # None => a = b
  BY <1>1 DEF Distinct
<1>15. /\ InStack' \cap Running' = {} /\ InStack' \cap Spawning' = {}
       /\ Running' \cap Spawning' = {}
  BY <1>6, <1>9, <1>10, <1>11 DEF Distinct
<1>16. Distinct'
  BY <1>12, <1>13, <1>14, <1>15 DEF Distinct
<1> QED BY <1>4, <1>9, <1>10, <1>11, <1>16

\* Dec(w) ends the closure of worker w.
LEMMA DecClosures ==
    ASSUME Local, Distinct, NEW w \in Workers, Dec(w)
    PROVE  /\ job[w] \in Running
           /\ InStack' = InStack /\ Running' = Running \ {job[w]}
           /\ Spawning' = Spawning
           /\ Distinct'
<1>1. /\ job[w] # None /\ job \in [Workers -> Tasks \cup {None}]
      /\ job' = [job EXCEPT ![w] = None] /\ UNCHANGED <<_workStack, child>>
  BY DEF Dec, Goto, Local, PlacesOK, TypeOK
<1>2. job[w] \in Running
  BY <1>1 DEF Running
<1>3. Running' = Running \ {job[w]}
  BY <1>1 DEF Running, Distinct
<1>4. InStack' = InStack /\ Spawning' = Spawning
  BY <1>1 DEF InStack, Spawning
<1>5. \A u, v \in Workers : job'[u] = job'[v] /\ job'[u] # None => u = v
  BY <1>1 DEF Distinct
<1>6. /\ InStack' \cap Running' = {} /\ InStack' \cap Spawning' = {}
      /\ Running' \cap Spawning' = {}
  BY <1>3, <1>4 DEF Distinct
<1>7. Distinct'
  BY <1>1, <1>5, <1>6 DEF Distinct
<1> QED BY <1>2, <1>3, <1>4, <1>7

-----------------------------------------------------------------------------
(* The latch, and the life of the group.                                   *)

Counted == Distinct /\ LatchCounts /\ GroupOutlivesClosures

\* A step of the task group that ThreadPool implements, or none.
AbsStep == Abs!Next \/ UNCHANGED Abs!vars

\* A thread that runs a function of the group shows that the group is open.
LEMMA OpenWhileRunning ==
    ASSUME Local, Counted, NEW a \in Agents,
           pc[a] \in {"run", "add", "notify", "dec"}
    PROVE  GroupIsOpen
<1>1. CASE a = Main
  BY <1>1 DEF Local, PlacesOK, MainPCs, GroupIsOpen
<1>2. CASE a # Main
  <2>1. a \in Workers /\ job[a] # None
    BY <1>2, AgentFacts DEF Local, PlacesOK
  <2>2. job[a] \in Outstanding
    BY <2>1 DEF Outstanding, Running
  <2> QED BY <2>2 DEF Counted, GroupOutlivesClosures
<1> QED BY <1>1, <1>2

\* A step that moves no closure, leaves the latch alone and keeps the group.
LEMMA QuietStep ==
    ASSUME Local, Counted, UNCHANGED <<_workStack, _latch, job, child>>,
           GroupIsOpen' <=> GroupIsOpen
    PROVE  Counted' /\ AbsStep
<1>1. /\ InStack' = InStack /\ Running' = Running /\ Spawning' = Spawning
      /\ Outstanding' = Outstanding /\ Distinct'
  BY QuietClosures DEF Counted
<1>2. LatchCounts'
  BY <1>1 DEF Counted, LatchCounts
<1>3. GroupOutlivesClosures'
  BY <1>1 DEF Counted, GroupOutlivesClosures
<1>4. GroupIsOpen' = GroupIsOpen
  BY DEF GroupIsOpen
<1>5. AbsStep
  BY <1>1, <1>4 DEF AbsStep, Abs!vars
<1> QED BY <1>1, <1>2, <1>3, <1>5 DEF Counted

LEMMA SpawnStep ==
    ASSUME Local, Counted, NEW a \in Agents, Spawn(a)
    PROVE  Counted' /\ AbsStep
<1>1. PICK t \in Tasks \ Outstanding :
        /\ InStack' = InStack /\ Running' = Running
        /\ Spawning' = Spawning \cup {t}
        /\ Distinct'
  BY SpawnClosures DEF Counted
<1>2. Outstanding' = Outstanding \cup {t}
  BY <1>1 DEF Outstanding
<1>3. GroupIsOpen /\ GroupIsOpen'
  <2>1. GroupIsOpen
    BY OpenWhileRunning DEF Spawn, Goto
  <2>2. pc \in [Agents -> PCs] /\ pc' = [pc EXCEPT ![a] = "add"]
    BY DEF Spawn, Goto, Local, TypeOK
  <2>3. pc'[Main] \in {"add", pc[Main]}
    BY <2>2, AgentFacts
  <2> QED BY <2>1, <2>3 DEF GroupIsOpen
<1>4. LatchCounts'
  <2>1. /\ Outstanding \in SUBSET Tasks /\ Outstanding \cup {t} \in SUBSET Tasks
    BY OutstandingAreTasks DEF Local
  <2>2. IsFiniteSet(Outstanding) /\ Cardinality(Outstanding) \in Nat
    BY <2>1, TasksAreCountable
  <2>3. Cardinality(Outstanding \cup {t}) < CountSize
    BY <2>1, TasksAreCountable
  <2>4. Cardinality(Outstanding \cup {t}) = Cardinality(Outstanding) + 1
    BY <2>2, FS_AddElement
  <2>5. Count(_latch + 1) = _latch + 1
    BY <2>2, <2>3, <2>4, CountIsIdentity DEF Counted, LatchCounts
  <2> QED BY <1>2, <2>4, <2>5 DEF Spawn, Counted, LatchCounts
<1>5. GroupOutlivesClosures'
  BY <1>3 DEF GroupOutlivesClosures
<1>6. Abs!Spawn(t)
  <2>1. t \notin InStack \cup Spawning \cup Running
    BY DEF Outstanding
  <2>2. GroupIsOpen' = GroupIsOpen
    BY <1>3 DEF GroupIsOpen
  <2> QED BY <1>1, <1>3, <2>1, <2>2 DEF Abs!Spawn
<1> QED BY <1>1, <1>4, <1>5, <1>6 DEF Counted, AbsStep, Abs!Next

LEMMA AddStep ==
    ASSUME Local, Counted, NEW a \in Agents, Add(a)
    PROVE  Counted' /\ AbsStep
<1>1. /\ InStack' = InStack \cup {child[a]} /\ Running' = Running
      /\ Spawning' = Spawning \ {child[a]} /\ child[a] \in Spawning
      /\ Distinct'
  BY AddClosures DEF Counted
<1>2. /\ Outstanding' = Outstanding
      /\ InStack' \cup Spawning' = InStack \cup Spawning
  BY <1>1 DEF Outstanding
<1>3. GroupIsOpen /\ GroupIsOpen'
  <2>1. GroupIsOpen
    BY OpenWhileRunning DEF Add, Goto
  <2>2. pc \in [Agents -> PCs] /\ pc' = [pc EXCEPT ![a] = "notify"]
    BY DEF Add, Goto, Local, TypeOK
  <2>3. pc'[Main] \in {"notify", pc[Main]}
    BY <2>2, AgentFacts
  <2> QED BY <2>1, <2>3 DEF GroupIsOpen
<1>4. LatchCounts' /\ GroupOutlivesClosures'
  BY <1>2, <1>3 DEF Add, Counted, LatchCounts, GroupOutlivesClosures
<1>5. AbsStep
  <2>1. GroupIsOpen' = GroupIsOpen
    BY <1>3 DEF GroupIsOpen
  <2> QED BY <1>1, <1>2, <2>1 DEF AbsStep, Abs!vars
<1> QED BY <1>1, <1>4, <1>5 DEF Counted

LEMMA TakeStep ==
    ASSUME Local, Counted, NEW w \in Workers, TakeClosure(w)
    PROVE  Counted' /\ AbsStep
<1>1. PICK t \in InStack :
        /\ InStack' = InStack \ {t} /\ Running' = Running \cup {t}
        /\ Spawning' = Spawning /\ Distinct'
  BY TakeClosures DEF Counted
<1>2. Outstanding' = Outstanding /\ t \in Outstanding
  BY <1>1 DEF Outstanding
<1>3. GroupIsOpen /\ GroupIsOpen'
  <2>1. GroupIsOpen
    BY <1>2 DEF Counted, GroupOutlivesClosures
  <2>2. pc \in [Agents -> PCs] /\ pc' = [pc EXCEPT ![w] = "run"] /\ w # Main
    BY AgentFacts DEF TakeClosure, Goto, Local, TypeOK
  <2>3. pc'[Main] = pc[Main]
    BY <2>2, AgentFacts
  <2> QED BY <2>1, <2>3 DEF GroupIsOpen
<1>4. LatchCounts' /\ GroupOutlivesClosures'
  BY <1>2, <1>3 DEF TakeClosure, Counted, LatchCounts, GroupOutlivesClosures
<1>5. Abs!Start(t)
  <2>1. GroupIsOpen' = GroupIsOpen
    BY <1>3 DEF GroupIsOpen
  <2>2. InStack' \cup Spawning' = (InStack \cup Spawning) \ {t}
    BY <1>1 DEF Counted, Distinct
  <2> QED BY <1>1, <1>3, <2>1, <2>2 DEF Abs!Start
<1>6. t \in Tasks
  BY OutstandingAreTasks DEF Local
<1> QED BY <1>1, <1>4, <1>5, <1>6 DEF Counted, AbsStep, Abs!Next

LEMMA DecStep ==
    ASSUME Local, Counted, NEW w \in Workers, Dec(w)
    PROVE  Counted' /\ AbsStep
<1> DEFINE t == job[w]
<1>1. /\ t \in Running /\ InStack' = InStack /\ Running' = Running \ {t}
      /\ Spawning' = Spawning /\ Distinct'
  BY DecClosures DEF Counted
<1> HIDE DEF t
<1>2. Outstanding' = Outstanding \ {t} /\ t \in Outstanding
  BY <1>1 DEF Outstanding, Counted, Distinct
<1>3. GroupIsOpen /\ GroupIsOpen'
  <2>1. GroupIsOpen
    BY <1>2 DEF Counted, GroupOutlivesClosures
  <2>2. pc'[Main] = pc[Main] \/ pc'[Main] = "sync"
    BY AgentFacts DEF Dec, NotifyAll, Goto, Local, TypeOK
  <2> QED BY <2>1, <2>2 DEF GroupIsOpen
<1>4. LatchCounts'
  <2>1. Outstanding \in SUBSET Tasks /\ Outstanding \ {t} \in SUBSET Tasks
    BY OutstandingAreTasks DEF Local
  <2>2. IsFiniteSet(Outstanding) /\ Cardinality(Outstanding) \in Nat
    BY <2>1, TasksAreCountable
  <2>3. Cardinality(Outstanding \ {t}) \in Nat /\ Cardinality(Outstanding \ {t}) < CountSize
    BY <2>1, TasksAreCountable
  <2>4. Cardinality(Outstanding \ {t}) = Cardinality(Outstanding) - 1
    BY <1>2, <2>2, FS_RemoveElement
  <2>5. Count(_latch - 1) = _latch - 1
    BY <2>2, <2>3, <2>4, CountIsIdentity DEF Counted, LatchCounts
  <2> QED BY <1>2, <2>4, <2>5 DEF Dec, Counted, LatchCounts
<1>5. GroupOutlivesClosures'
  BY <1>3 DEF GroupOutlivesClosures
<1>6. Abs!Complete(t)
  <2>1. GroupIsOpen' = GroupIsOpen
    BY <1>3 DEF GroupIsOpen
  <2> QED BY <1>1, <1>3, <2>1 DEF Abs!Complete
<1>7. t \in Tasks
  BY <1>1, OutstandingAreTasks DEF Local
<1> QED BY <1>1, <1>4, <1>5, <1>6, <1>7 DEF Counted, AbsStep, Abs!Next

LEMMA OpenStep ==
    ASSUME Local, Counted, OpenGroup
    PROVE  Counted' /\ AbsStep
<1>1. /\ InStack' = InStack /\ Running' = Running /\ Spawning' = Spawning
      /\ Outstanding' = Outstanding /\ Distinct'
  <2>1. Distinct /\ UNCHANGED <<_workStack, job, child>>
    BY DEF OpenGroup, Counted
  <2> QED BY <2>1, QuietClosures
<1>2. ~GroupIsOpen /\ GroupIsOpen'
  BY AgentFacts DEF OpenGroup, Goto, GroupIsOpen, Local, TypeOK
<1>3. Outstanding = {} /\ _latch' = 0
  BY <1>2 DEF Counted, GroupOutlivesClosures, OpenGroup
<1>4. LatchCounts' /\ GroupOutlivesClosures'
  BY <1>1, <1>2, <1>3, FS_EmptySet DEF LatchCounts, GroupOutlivesClosures
<1>5. Abs!Open
  <2>1. GroupIsOpen' = TRUE
    BY <1>2 DEF GroupIsOpen
  <2> QED BY <1>1, <1>2, <2>1 DEF Abs!Open
<1> QED BY <1>1, <1>4, <1>5 DEF Counted, AbsStep, Abs!Next

\* ~TaskGroup leaves only when the latch, hence the set it counts, is empty.
LEMMA SyncStep ==
    ASSUME Local, Counted, Sync
    PROVE  Counted' /\ AbsStep
<1>0. UNCHANGED <<_workStack, _latch, job, child>>
  BY DEF Sync
<1>1. CASE _latch # 0
  <2>1. GroupIsOpen' <=> GroupIsOpen
    BY <1>1, AgentFacts DEF Sync, Goto, GroupIsOpen, Local, TypeOK
  <2> QED BY <1>0, <2>1, QuietStep
<1>2. CASE _latch = 0
  <2>1. /\ InStack' = InStack /\ Running' = Running /\ Spawning' = Spawning
        /\ Outstanding' = Outstanding /\ Distinct'
    BY <1>0, QuietClosures DEF Counted
  <2>2. GroupIsOpen /\ ~GroupIsOpen'
    BY <1>2, AgentFacts DEF Sync, Goto, GroupIsOpen, Local, TypeOK
  <2>3. Outstanding = {}
    <3>1. IsFiniteSet(Outstanding)
      BY OutstandingAreTasks, TasksAreCountable DEF Local
    <3> QED BY <1>2, <3>1, FS_EmptySet DEF Counted, LatchCounts
  <2>4. LatchCounts' /\ GroupOutlivesClosures'
    BY <1>0, <2>1, <2>3 DEF Counted, LatchCounts, GroupOutlivesClosures
  <2>5. Abs!Close
    <3>1. GroupIsOpen' = FALSE
      BY <2>2 DEF GroupIsOpen
    <3>2. InStack \cup Spawning = {} /\ Running = {}
      BY <2>3 DEF Outstanding
    <3> QED BY <2>1, <2>2, <3>1, <3>2 DEF Abs!Close
  <2> QED BY <2>1, <2>4, <2>5 DEF Counted, AbsStep, Abs!Next
<1> QED BY <1>1, <1>2

\* The other steps of the executor neither move a closure nor open or close
\* the group.
LEMMA MoveStep ==
    ASSUME Local, Counted, NEW a \in Agents,
           \/ NotifyOne(a) \/ Return(a) \/ SpuriousWakeup(a)
           \/ a \in Workers /\ (StartThread(a) \/ LeaveWork(a) \/ WaitForWork(a) \/ DecDone(a))
           \/ StarterWorks \/ DestroyExecutor \/ NotifyWorkers \/ Join
    PROVE  Counted' /\ AbsStep
<1>1. UNCHANGED <<_workStack, _latch, job, child>>
  BY DEF NotifyOne, Return, SpuriousWakeup, StartThread, LeaveWork, WaitForWork,
         DecDone, StarterWorks, DestroyExecutor, NotifyWorkers, Join
<1>2. GroupIsOpen' <=> GroupIsOpen
  <2> USE AgentFacts DEF GroupIsOpen, Goto, Local, TypeOK
  <2>1. CASE NotifyOne(a)
    <3>1. pc[a] = "notify" /\ pc \in [Agents -> PCs]
      BY <2>1 DEF NotifyOne
    <3>2. \/ pc' = [pc EXCEPT ![a] = "run"]
          \/ \E w \in Workers : pc' = [pc EXCEPT ![a] = "run", ![w] = "work"]
      BY <2>1 DEF NotifyOne
    <3>3. pc'[Main] = IF a = Main THEN "run" ELSE pc[Main]
      BY <3>1, <3>2
    <3> QED BY <3>1, <3>3
  <2>2. CASE Return(a)
    BY <2>2 DEF Return, PlacesOK, MainPCs
  <2>3. CASE SpuriousWakeup(a)
    BY <2>3 DEF SpuriousWakeup, PlacesOK, MainPCs
  <2>4. CASE a \in Workers /\ (StartThread(a) \/ LeaveWork(a) \/ WaitForWork(a))
    BY <2>4 DEF StartThread, LeaveWork, WaitForWork
  <2>5. CASE a \in Workers /\ DecDone(a)
    BY <2>5 DEF DecDone, NotifyAll
  <2>6. CASE StarterWorks
    BY <2>6 DEF StarterWorks
  <2>7. CASE DestroyExecutor \/ NotifyWorkers \/ Join
    BY <2>7 DEF DestroyExecutor, NotifyWorkers, NotifyAll, Join
  <2> QED BY <2>1, <2>2, <2>3, <2>4, <2>5, <2>6, <2>7
<1> QED BY <1>1, <1>2, QuietStep

-----------------------------------------------------------------------------
LEMMA InitCounted == Init => Counted /\ Abs!Init
<1> SUFFICES ASSUME Init PROVE Counted /\ Abs!Init
  OBVIOUS
<1>1. _workStack = <<>> /\ job = [w \in Workers |-> None] /\ child = [a \in Agents |-> None]
      /\ _latch = 0 /\ pc[Main] = "idle"
  BY AgentFacts DEF Init
<1>2. InStack = {} /\ Running = {} /\ Spawning = {}
  <2>1. Len(_workStack) = 0
    BY <1>1
  <2>2. 1 .. Len(_workStack) = {}
    BY <2>1
  <2>3. InStack = {}
    BY <2>2 DEF InStack
  <2> QED BY <1>1, <2>3 DEF Running, Spawning
<1>3. Outstanding = {}
  BY <1>2 DEF Outstanding
<1>4. Distinct
  <2>1. \A i, j \in 1 .. Len(_workStack) : _workStack[i].task = _workStack[j].task => i = j
    BY <1>1
  <2> QED BY <1>1, <1>2, <2>1 DEF Distinct
<1>5. LatchCounts
  BY <1>1, <1>3, FS_EmptySet DEF LatchCounts
<1>6. GroupOutlivesClosures
  BY <1>3 DEF GroupOutlivesClosures
<1>7. Abs!Init
  <2>1. GroupIsOpen = FALSE
    BY <1>1 DEF GroupIsOpen
  <2> QED BY <1>2, <2>1 DEF Abs!Init
<1> QED BY <1>4, <1>5, <1>6, <1>7 DEF Counted

\* One step of the pool.
LEMMA Step ==
    ASSUME Local, Counted, [Next]_vars
    PROVE  Local' /\ Counted' /\ AbsStep
<1>1. ASSUME NEW a \in Agents, Spawn(a) \/ Add(a)
      PROVE  Local' /\ Counted' /\ AbsStep
  BY <1>1, ClosureLocal, SpawnStep, AddStep
<1>2. ASSUME NEW w \in Workers, TakeClosure(w) \/ Dec(w)
      PROVE  Local' /\ Counted' /\ AbsStep
  BY <1>2, AgentFacts, ClosureLocal, TakeStep, DecStep
<1>3. CASE OpenGroup
  BY <1>3, AgentFacts, ClosureLocal, OpenStep
<1>4. CASE Sync
  <2>1. UNCHANGED <<_workStack, _latch, job, depth, child>>
    BY <1>4 DEF Sync
  <2> QED BY <1>4, <2>1, AgentFacts, MoveLocal, SyncStep
<1>5. ASSUME NEW a \in Agents,
             \/ NotifyOne(a) \/ Return(a) \/ SpuriousWakeup(a)
             \/ a \in Workers /\ (StartThread(a) \/ LeaveWork(a) \/ WaitForWork(a) \/ DecDone(a))
             \/ StarterWorks \/ DestroyExecutor \/ NotifyWorkers \/ Join
      PROVE  Local' /\ Counted' /\ AbsStep
  <2>1. UNCHANGED <<_workStack, _latch, job, depth, child>>
    BY <1>5 DEF NotifyOne, Return, SpuriousWakeup, StartThread, LeaveWork, WaitForWork,
           DecDone, StarterWorks, DestroyExecutor, NotifyWorkers, Join
  <2>2. Local'
    BY <1>5, <2>1, MoveLocal
  <2>3. Counted' /\ AbsStep
    BY <1>5, MoveStep
  <2> QED BY <2>2, <2>3
<1>6. CASE UNCHANGED vars
  <2>1. /\ _workStack' = _workStack /\ _stop' = _stop /\ _done' = _done
        /\ _latch' = _latch /\ pc' = pc /\ job' = job /\ depth' = depth /\ child' = child
    BY <1>6 DEF vars
  <2>2. Local'
    BY <2>1 DEF Local, TypeOK, PlacesOK, StopIsLast
  <2>3. GroupIsOpen' <=> GroupIsOpen
    BY <2>1 DEF GroupIsOpen
  <2> QED BY <2>1, <2>2, <2>3, QuietStep
<1> QED BY <1>1, <1>2, <1>3, <1>4, <1>5, <1>6, AgentFacts
        DEF Next, RunStep, WorkerStep, MainStep

\* The two halves of the inductive invariant.
LEMMA IInvParts == IInv <=> Local /\ Counted
  BY DEF IInv, Local, Counted

\* The inductive invariant: types, where every thread is, that a closure is in
\* one place, what the latch counts, and when groups and closures exist.
THEOREM InductiveInvariant == Spec => []IInv
<1>1. Init => IInv
  BY InitLocal, InitCounted, IInvParts
<1>2. IInv /\ [Next]_vars => IInv'
  BY Step DEF IInv, Local, Counted
<1> QED BY <1>1, <1>2, PTL DEF Spec

\* Types.
THEOREM TypeCorrect == Spec => []TypeOK
<1>1. IInv => TypeOK
  BY DEF IInv
<1> QED BY <1>1, InductiveInvariant, PTL

\* TaskGroup's latch counts exactly the closures that are still to call dec().
THEOREM LatchIsExact == Spec => []LatchCounts
<1>1. IInv => LatchCounts
  BY DEF IInv
<1> QED BY <1>1, InductiveInvariant, PTL

\* ~TaskGroup returns only when no closure that refers to the group is left.
THEOREM GroupOutlives == Spec => []GroupOutlivesClosures
<1>1. IInv => GroupOutlivesClosures
  BY DEF IInv
<1> QED BY <1>1, InductiveInvariant, PTL

\* The pool implements the task group: every closure runs once, and the group
\* closes when all have run.
THEOREM Refines == Spec => AbsSpec
<1>1. Init => Abs!Init
  BY InitCounted
<1>2. IInv /\ [Next]_vars => [Abs!Next]_(Abs!vars)
  BY Step, IInvParts DEF AbsStep
<1> QED BY <1>1, <1>2, InductiveInvariant, PTL DEF Spec, AbsSpec, Abs!Spec

-----------------------------------------------------------------------------
(* The threads.  With at least one of them counted, _done is exact.        *)

Live == {w \in Workers : pc[w] # "exited"}

Threads == DoneCounts /\ ExecutorOutlivesThreads

LEMMA LiveIsFinite ==
    ASSUME ThreadCount > 0
    PROVE  IsFiniteSet(Live) /\ Cardinality(Live) \in Nat /\ Cardinality(Live) <= ThreadCount
<1>1. ThreadCount \in Nat /\ Workers = 1 .. ThreadCount
  BY ThreadPoolAssumption DEF Workers
<1>2. IsFiniteSet(Workers) /\ Cardinality(Workers) = ThreadCount
  BY <1>1, FS_Interval
<1>3. Live \subseteq Workers
  BY DEF Live
<1>4. IsFiniteSet(Live) /\ Cardinality(Live) <= ThreadCount
  BY <1>2, <1>3, FS_Subset
<1> QED BY <1>4, FS_CardinalityType

LEMMA InitThreads ==
    ASSUME ThreadCount > 0, Init
    PROVE  Threads
<1>1. ThreadCount \in Nat /\ Workers = 1 .. ThreadCount
  BY ThreadPoolAssumption DEF Workers
<1>2. Cardinality(Workers) = ThreadCount
  BY <1>1, FS_Interval
<1>3. /\ \A w \in Workers : pc[w] # "exited"
      /\ pc[Main] = "idle"
  BY AgentFacts DEF Init
<1>4. {w \in Workers : pc[w] # "exited"} = Workers
  BY <1>3
<1> QED BY <1>2, <1>3, <1>4 DEF Threads, DoneCounts, ExecutorOutlivesThreads, Init, DoneInitially

\* A thread that has left stays away, and only DecDone makes one leave.
LEMMA LiveChange ==
    ASSUME Local, [Next]_vars
    PROVE  \/ UNCHANGED <<_done, Live>>
           \/ \E w \in Live : /\ DecDone(w) /\ Live' = Live \ {w}
                              /\ pc'[Main] = "end" => pc[Main] = "end"
<1> USE AgentFacts DEF Local, TypeOK, PlacesOK, Goto, Live, WorkerPCs, MainPCs
<1>1. ASSUME NEW a \in Agents, Spawn(a) \/ Add(a) \/ Return(a) \/ SpuriousWakeup(a)
      PROVE  UNCHANGED <<_done, Live>>
  BY <1>1 DEF Spawn, Add, Return, SpuriousWakeup
<1>2. ASSUME NEW a \in Agents, NotifyOne(a)
      PROVE  UNCHANGED <<_done, Live>>
  <2>1. pc[a] = "notify" /\ pc \in [Agents -> PCs] /\ _done' = _done
    BY <1>2 DEF NotifyOne
  <2>2. CASE pc' = [pc EXCEPT ![a] = "run"]
    BY <2>1, <2>2
  <2>3. ASSUME NEW w \in Workers, pc[w] = "wait",
               pc' = [pc EXCEPT ![a] = "run", ![w] = "work"]
        PROVE  UNCHANGED <<_done, Live>>
    BY <2>1, <2>3
  <2> QED BY <1>2, <2>2, <2>3 DEF NotifyOne
<1>3. ASSUME NEW w \in Workers,
             StartThread(w) \/ LeaveWork(w) \/ TakeClosure(w) \/ WaitForWork(w)
      PROVE  UNCHANGED <<_done, Live>>
  BY <1>3 DEF StartThread, LeaveWork, TakeClosure, WaitForWork
<1>4. ASSUME NEW w \in Workers, Dec(w)
      PROVE  UNCHANGED <<_done, Live>>
  <2>1. pc[w] = "dec" /\ pc \in [Agents -> PCs] /\ _done' = _done
    BY <1>4 DEF Dec
  <2>2. \A v \in Workers : pc'[v] # "exited" <=> pc[v] # "exited"
    BY <1>4, <2>1 DEF Dec, NotifyAll
  <2> QED BY <2>1, <2>2
<1>5. ASSUME NEW w \in Workers, DecDone(w)
      PROVE  /\ w \in Live /\ Live' = Live \ {w}
             /\ pc'[Main] = "end" => pc[Main] = "end"
  <2>1. pc[w] = "stopping" /\ pc \in [Agents -> PCs]
    BY <1>5 DEF DecDone
  <2>2. /\ pc'[w] = "exited" /\ pc'[Main] \in {pc[Main], "join"}
        /\ \A v \in Workers \ {w} : pc'[v] = pc[v]
    BY <1>5, <2>1 DEF DecDone, NotifyAll
  <2> QED BY <2>1, <2>2
<1>6. CASE StarterWorks \/ OpenGroup \/ Sync \/ DestroyExecutor \/ Join
  BY <1>6 DEF StarterWorks, OpenGroup, Sync, DestroyExecutor, Join
<1>7. CASE NotifyWorkers
  BY <1>7 DEF NotifyWorkers, NotifyAll
<1>8. CASE UNCHANGED vars
  BY <1>8 DEF vars
<1> QED BY <1>1, <1>2, <1>3, <1>4, <1>5, <1>6, <1>7, <1>8
        DEF Next, RunStep, WorkerStep, MainStep

\* Only Join ends the destructor, and it does so when _done is zero.
LEMMA EndsInJoin ==
    ASSUME Local, [Next]_vars, pc'[Main] = "end", pc[Main] # "end"
    PROVE  Join /\ _done = 0
<1> USE AgentFacts DEF Local, TypeOK, Goto
<1>1. ASSUME NEW a \in Agents, Spawn(a) \/ Add(a) \/ Return(a) \/ SpuriousWakeup(a)
      PROVE  FALSE
  BY <1>1 DEF Spawn, Add, Return, SpuriousWakeup
<1>2. ASSUME NEW a \in Agents, NotifyOne(a)
      PROVE  FALSE
  BY <1>2 DEF NotifyOne
<1>3. ASSUME NEW w \in Workers, WorkerStep(w)
      PROVE  FALSE
  BY <1>3 DEF WorkerStep, StartThread, LeaveWork, TakeClosure, WaitForWork, Dec,
              DecDone, NotifyAll
<1>4. CASE StarterWorks \/ OpenGroup \/ Sync \/ DestroyExecutor \/ NotifyWorkers
  BY <1>4 DEF StarterWorks, OpenGroup, Sync, DestroyExecutor, NotifyWorkers, NotifyAll
<1>5. CASE Join
  BY <1>5 DEF Join
<1>6. CASE UNCHANGED vars
  BY <1>6 DEF vars
<1> QED BY <1>1, <1>2, <1>3, <1>4, <1>5, <1>6 DEF Next, RunStep, MainStep

LEMMA ThreadsStep ==
    ASSUME ThreadCount > 0, Local, Threads, [Next]_vars
    PROVE  Threads'
<1>1. _done = Cardinality(Live)
  BY DEF Threads, DoneCounts, Live
<1>2. IsFiniteSet(Live) /\ Cardinality(Live) \in Nat
  BY LiveIsFinite
<1>3. pc[Main] = "end" => Live = {}
  BY DEF Threads, ExecutorOutlivesThreads, Live
<1>4. SUFFICES _done' = Cardinality(Live') /\ (pc'[Main] = "end" => Live' = {})
  BY DEF Threads, DoneCounts, ExecutorOutlivesThreads, Live
<1>5. CASE UNCHANGED <<_done, Live>>
  <2>1. CASE pc'[Main] = "end" /\ pc[Main] # "end"
    <3>1. _done = 0
      BY <2>1, EndsInJoin
    <3>2. Live = {}
      BY <1>1, <1>2, <3>1, FS_EmptySet
    <3> QED BY <1>1, <1>5, <3>2
  <2>2. CASE ~(pc'[Main] = "end" /\ pc[Main] # "end")
    BY <1>1, <1>3, <1>5, <2>2
  <2> QED BY <2>1, <2>2
<1>6. ASSUME NEW w \in Live, DecDone(w), Live' = Live \ {w},
             pc'[Main] = "end" => pc[Main] = "end"
      PROVE  _done' = Cardinality(Live') /\ (pc'[Main] = "end" => Live' = {})
  <2>1. Cardinality(Live \ {w}) = Cardinality(Live) - 1
    BY <1>2, FS_RemoveElement
  <2>2. Cardinality(Live \ {w}) \in Nat
    <3>1. IsFiniteSet(Live \ {w})
      BY <1>2, FS_RemoveElement
    <3> QED BY <3>1, FS_CardinalityType
  <2>3. Cardinality(Live) <= ThreadCount /\ ThreadCount < CountSize
        /\ ThreadCount \in Nat /\ CountSize \in Nat
    BY LiveIsFinite, ThreadPoolAssumption
  <2>4. Count(_done - 1) = _done - 1
    <3>1. _done - 1 \in Nat /\ _done - 1 < CountSize
      BY <1>1, <1>2, <2>1, <2>2, <2>3
    <3> QED BY <3>1, CountIsIdentity
  <2>5. _done' = Cardinality(Live')
    BY <1>1, <1>6, <2>1, <2>4 DEF DecDone
  <2> QED BY <1>3, <1>6, <2>5
<1> QED BY <1>5, <1>6, LiveChange

\* With at least one thread, ~ThreadPoolExecutor returns only when every
\* thread has made its last access to the executor.
THEOREM ExecutorOutlives ==
    ASSUME ThreadCount > 0
    PROVE  Spec => []ExecutorOutlivesThreads
<1>1. Init => Threads
  BY InitThreads
<1>2. IInv /\ Threads /\ [Next]_vars => Threads'
  BY ThreadsStep, IInvParts
<1>3. Threads => ExecutorOutlivesThreads
  BY DEF Threads
<1> QED BY <1>1, <1>2, <1>3, InductiveInvariant, PTL DEF Spec

\* With at least one thread, neither latch is decremented at zero.
THEOREM DecDefined ==
    ASSUME ThreadCount > 0
    PROVE  Spec => []DecIsDefined
<1>1. Init => Threads
  BY InitThreads
<1>2. IInv /\ Threads /\ [Next]_vars => Threads'
  BY ThreadsStep, IInvParts
<1>3. IInv /\ Threads => DecIsDefined
  <2> SUFFICES ASSUME Local, Counted, Threads PROVE DecIsDefined
    BY IInvParts
  <2>1. ASSUME NEW w \in Workers, pc[w] = "dec" PROVE _latch > 0
    <3>1. job[w] \in Outstanding
      BY <2>1 DEF Outstanding, Running, Local, PlacesOK
    <3>2. IsFiniteSet(Outstanding) /\ Cardinality(Outstanding) \in Nat
      BY OutstandingAreTasks, TasksAreCountable DEF Local
    <3>3. Cardinality(Outstanding) # 0
      BY <3>1, <3>2, FS_EmptySet
    <3> QED BY <3>2, <3>3 DEF Counted, LatchCounts
  <2>2. ASSUME NEW w \in Workers, pc[w] = "stopping" PROVE _done > 0
    <3>1. w \in Live
      BY <2>2 DEF Live
    <3>2. IsFiniteSet(Live) /\ Cardinality(Live) \in Nat
      BY LiveIsFinite
    <3>3. Cardinality(Live) # 0
      BY <3>1, <3>2, FS_EmptySet
    <3> QED BY <3>2, <3>3 DEF Threads, DoneCounts, Live
  <2> QED BY <2>1, <2>2 DEF DecIsDefined
<1> QED BY <1>1, <1>2, <1>3, InductiveInvariant, PTL DEF Spec
=============================================================================
