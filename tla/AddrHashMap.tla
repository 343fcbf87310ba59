---------------------------- MODULE AddrHashMap ----------------------------
(***************************************************************************)
(* One bucket of the concurrent hash map of the sanitizer runtimes,        *)
(* compiler-rt/lib/sanitizer_common/sanitizer_addrhashmap.h.  Buckets do   *)
(* not share anything, so one bucket is the whole map for the addresses    *)
(* that hash to it.                                                        *)
(*                                                                         *)
(* A bucket has embedded cells, which are searched without any lock, and   *)
(* an array of additional cells, which is searched under the bucket's      *)
(* RWMutex; the mutex is used as RWLock promises it (RWMutex implements    *)
(* RWLock).  What a thread does between taking and giving back the mutex   *)
(* is split only at its stores to embedded cells, the one thing a          *)
(* searching thread without the mutex can see.  Which elements callers     *)
(* remove while another thread has a handle on them is a parameter.        *)
(***************************************************************************)
EXTENDS Integers, FiniteSets

CONSTANTS Threads,
          Addrs,            \* keys that hash to this bucket
          NoAddr,           \* address 0: a free cell
          kBucketSize,      \* number of embedded cells
          kInitCap,         \* capacity of the first array of additional cells
          kHdrCells,        \* whole cells that fit in the array's cap and size
          Contended,        \* keys that callers remove while others use them
          MaxOps            \* bound: handles a thread opens

ASSUME AddrHashMapAssumption ==
    /\ IsFiniteSet(Threads) /\ IsFiniteSet(Addrs)
    /\ NoAddr \notin Addrs
    /\ kBucketSize \in Nat \ {0} /\ kInitCap \in Nat \ {0}
    /\ kHdrCells \in Nat /\ Contended \subseteq Addrs /\ MaxOps \in Nat

VARIABLES cells,            \* Bucket::cells
          add,              \* Bucket::add, capacity 0 for a null pointer
          gen,              \* which array add points to; old ones are freed
          writers, readers, \* Bucket::mtx
          pc, h,            \* each thread's step and its Handle
          ops,              \* handles opened so far
          sawAbsent         \* history: the key was absent during the call

bucketVars == <<cells, add, gen>>
mtxVars    == <<writers, readers>>
vars       == <<bucketVars, mtxVars, pc, h, ops, sawAbsent>>

mtx == INSTANCE RWLock

\* The value of a cell is the key whose owner wrote it.
FreeCell == [addr |-> NoAddr, val |-> NoAddr]
NullAdd  == [cap |-> 0, size |-> 0, cells |-> <<>>]
NoHandle == [addr |-> NoAddr, remove |-> FALSE, create |-> FALSE,
             created |-> FALSE, cell |-> 0, addidx |-> 0, gen |-> 0, i |-> 1]

Init ==
    /\ cells = [i \in 1 .. kBucketSize |-> FreeCell]
    /\ add = NullAdd
    /\ gen = 0
    /\ mtx!Init
    /\ pc = [t \in Threads |-> "idle"]
    /\ h = [t \in Threads |-> NoHandle]
    /\ ops = [t \in Threads |-> 0]
    /\ sawAbsent = [t \in Threads |-> FALSE]

Embedded(a)   == {i \in DOMAIN cells : cells[i].addr = a}
Additional(a) == {i \in 1 .. add.size : add.cells[i].addr = a}
First(S)      == CHOOSE i \in S : \A j \in S : i <= j
Present       == {a \in Addrs : Embedded(a) \cup Additional(a) # {}}

Goto(t, place) == pc' = [pc EXCEPT ![t] = place]

\* The handle gets its cell: an embedded one, or number i of the array.
TakeEmbedded(t, i) == h' = [h EXCEPT ![t] = [@ EXCEPT !.cell = i, !.i = 1]]
TakeAdditional(t, i, g) ==
    h' = [h EXCEPT ![t] = [@ EXCEPT !.cell = i, !.addidx = i, !.gen = g,
                                     !.i = 1]]

\* The handle ends without a cell, or after release.
Finish(t) ==
    /\ h' = [h EXCEPT ![t] = NoHandle]
    /\ Goto(t, "idle")

-----------------------------------------------------------------------------
(* acquire *)

\* A Handle is constructed.
Acquire(t, a, remove, create) ==
    /\ pc[t] = "idle" /\ ops[t] < MaxOps
    /\ a \notin Contended =>
           \A u \in Threads \ {t} : h[u].addr = a => ~remove /\ ~h[u].remove
    /\ ops' = [ops EXCEPT ![t] = @ + 1]
    /\ h' = [h EXCEPT ![t] = [NoHandle EXCEPT !.addr = a, !.remove = remove,
                                              !.create = create]]
    /\ Goto(t, IF remove THEN "lock" ELSE "probe")
    /\ UNCHANGED <<bucketVars, mtxVars>>

\* One load of the lock-free search of the embedded cells; h[t].i is its index.
Probe(t) ==
    LET i == h[t].i
    IN  /\ pc[t] = "probe"
        /\ IF cells[i].addr = h[t].addr
           THEN TakeEmbedded(t, i) /\ Goto(t, "held")
           ELSE /\ h' = [h EXCEPT ![t] = [@ EXCEPT !.i = i + 1]]
                /\ Goto(t, IF i = kBucketSize THEN "load_add" ELSE "probe")
        /\ UNCHANGED <<bucketVars, mtxVars, ops>>

\* The first, unlocked load of b->add.
LoadAdd(t) ==
    /\ pc[t] = "load_add"
    /\ Goto(t, IF add.cap # 0 THEN "read_lock" ELSE "lock")
    /\ UNCHANGED <<bucketVars, mtxVars, h, ops>>

\* Plausible slip: the read lock is kept when nothing was found.
ReadLock_NoUnlock(t) ==
    LET found == Additional(h[t].addr)
    IN  /\ pc[t] = "read_lock"
        /\ mtx!AcquireRead(t)
        /\ IF found # {}
           THEN TakeAdditional(t, First(found), gen) /\ Goto(t, "held")
           ELSE UNCHANGED h /\ Goto(t, "lock")
        /\ UNCHANGED <<bucketVars, ops>>

\* Plausible slip: the read lock is given back although a cell was found.
ReadLock_NotKept(t) ==
    LET found == Additional(h[t].addr)
    IN  /\ pc[t] = "read_lock"
        /\ writers = {}
        /\ IF found # {}
           THEN TakeAdditional(t, First(found), gen) /\ Goto(t, "held")
           ELSE UNCHANGED h /\ Goto(t, "lock")
        /\ UNCHANGED <<bucketVars, mtxVars, ops>>

\* ReadLock, the search of the additional cells, and ReadUnlock if it fails.
ReadLock(t) ==
    LET found == Additional(h[t].addr)
    IN  /\ pc[t] = "read_lock"
        /\ IF found # {}
           THEN /\ mtx!AcquireRead(t)
                /\ TakeAdditional(t, First(found), gen)
                /\ Goto(t, "held")
           ELSE /\ writers = {}
                /\ Goto(t, "lock")
                /\ UNCHANGED <<mtxVars, h>>
        /\ UNCHANGED <<bucketVars, ops>>

\* Plausible slip: only the embedded cells are searched again.
IsAbsent_EmbeddedOnly(t) == Embedded(h[t].addr) = {}

\* Plausible slip: no second search, the first one is trusted.
IsAbsent_NoRecheck(t) == TRUE

\* The second search, under the write lock.
IsAbsent(t) == h[t].addr \notin Present

\* Plausible slip: readers of the additional cells are not waited for.
KeepWriteLock_IgnoreReaders(t) ==
    /\ writers = {} /\ writers' = {t}
    /\ UNCHANGED readers

\* The write lock stays with the handle until release.
KeepWriteLock(t) == mtx!AcquireWrite(t)

\* Under the write lock the key is there: a remover keeps the lock and the
\* cell, another thread unlocks and retries the search from the start.
LockFound(t) ==
    LET a == h[t].addr
    IN  /\ pc[t] = "lock" /\ writers = {} /\ readers = {}
        /\ a \in Present
        /\ IF h[t].remove
           THEN /\ KeepWriteLock(t)
                /\ IF Embedded(a) # {} THEN TakeEmbedded(t, First(Embedded(a)))
                   ELSE TakeAdditional(t, First(Additional(a)), gen)
                /\ Goto(t, "held")
           ELSE /\ h' = [h EXCEPT ![t] = [@ EXCEPT !.i = 1]]
                /\ Goto(t, "probe")
                /\ UNCHANGED mtxVars
        /\ UNCHANGED <<bucketVars, ops>>

\* Under the write lock the key is absent and not to be created.
LockAbsent(t) ==
    /\ pc[t] = "lock" /\ writers = {} /\ readers = {}
    /\ IsAbsent(t)
    /\ h[t].remove \/ ~h[t].create
    /\ Finish(t)
    /\ UNCHANGED <<bucketVars, mtxVars, ops>>

\* The array of additional cells with room for one more: a new one, a copy of
\* a full one in twice its bytes, or the one that is there.
NewCap == IF add.cap = 0 THEN kInitCap
          ELSE IF add.size = add.cap THEN 2 * add.cap + kHdrCells ELSE add.cap
Moved(cap) == [i \in 1 .. cap |->
                   IF i <= add.size THEN add.cells[i]
                   ELSE IF cap = add.cap THEN add.cells[i] ELSE FreeCell]

\* Under the write lock the key is absent and a cell is set aside for it; the
\* lock stays with the handle.
LockCreate(t) ==
    LET free == Embedded(NoAddr)
    IN  /\ pc[t] = "lock"
        /\ IsAbsent(t)
        /\ ~h[t].remove /\ h[t].create
        /\ KeepWriteLock(t)
        /\ IF free # {}
           THEN /\ h' = [h EXCEPT ![t] = [@ EXCEPT !.created = TRUE,
                                                   !.cell = First(free)]]
                /\ UNCHANGED <<add, gen>>
           ELSE /\ add' = [cap |-> NewCap, size |-> add.size + 1,
                           cells |-> Moved(NewCap)]
                /\ gen' = IF NewCap = add.cap THEN gen ELSE gen + 1
                /\ h' = [h EXCEPT ![t] = [@ EXCEPT !.created = TRUE,
                            !.cell = add.size + 1, !.addidx = add.size + 1,
                            !.gen = gen']]
        /\ Goto(t, "held")
        /\ UNCHANGED <<cells, ops>>

-----------------------------------------------------------------------------
(* release *)

\* The cell a handle points to.
CellOf(t) == IF h[t].addidx = 0 THEN cells[h[t].cell] ELSE add.cells[h[t].cell]

\* The CHECK_EQs of release: the cell is still free, or still the element's.
CheckPasses(t) == CellOf(t).addr = IF h[t].created THEN NoAddr ELSE h[t].addr

\* A CHECK that fails ends the process.
CheckFails(t) ==
    /\ pc[t] = "held" /\ ~CheckPasses(t)
    /\ Goto(t, "died")
    /\ UNCHANGED <<bucketVars, mtxVars, h, ops>>

SetEmbedded(i, c)   == cells' = [cells EXCEPT ![i] = c]
SetAdditional(i, c) == add' = [add EXCEPT !.cells = [@ EXCEPT ![i] = c]]

\* A handle that created its element: the key is stored, which publishes the
\* value its owner wrote, and the mutex given back.
ReleaseCreated(t) ==
    LET c == [addr |-> h[t].addr, val |-> h[t].addr]
    IN  /\ pc[t] = "held" /\ h[t].created /\ CheckPasses(t)
        /\ IF h[t].addidx = 0
           THEN SetEmbedded(h[t].cell, c) /\ UNCHANGED add
           ELSE SetAdditional(h[t].cell, c) /\ UNCHANGED cells
        /\ mtx!ReleaseWrite(t)
        /\ Finish(t)
        /\ UNCHANGED <<gen, ops>>

\* A remover clears its cell ...
ReleaseRemove(t) ==
    LET c == [CellOf(t) EXCEPT !.addr = NoAddr]
    IN  /\ pc[t] = "held" /\ h[t].remove /\ CheckPasses(t)
        /\ IF h[t].addidx = 0
           THEN SetEmbedded(h[t].cell, c) /\ UNCHANGED add
           ELSE SetAdditional(h[t].cell, c) /\ UNCHANGED cells
        /\ Goto(t, "compact")
        /\ UNCHANGED <<gen, mtxVars, h, ops>>

\* Plausible slip: the key is stored before the value.
AfterStores_KeyFirst(n, c, last) ==
    [addr |-> last.addr, val |-> IF n = 2 THEN last.val ELSE c.val]

\* A free embedded cell c after the first n of the two stores that move the
\* element of cell last into it: the value, then the key.
AfterStores(n, c, last) ==
    [addr |-> IF n = 2 THEN last.addr ELSE c.addr, val |-> last.val]

\* The array loses its last cell, whose element goes to cell k if that is one
\* of the array.
RemoveLast(k) ==
    LET n == add.size
    IN  add' = [add EXCEPT !.size = n - 1,
                  !.cells = [i \in 1 .. add.cap |->
                      IF i = n THEN [add.cells[i] EXCEPT !.addr = NoAddr]
                      ELSE IF i = k THEN add.cells[n] ELSE add.cells[i]]]

\* ... and fills the gap with the last additional element, if there is one:
\* an embedded cell gets its value ...
MoveValue(t) ==
    LET k == h[t].cell
    IN  /\ pc[t] = "compact" /\ h[t].addidx = 0 /\ add.size # 0
        /\ SetEmbedded(k, AfterStores(1, cells[k], add.cells[add.size]))
        /\ Goto(t, "publish")
        /\ UNCHANGED <<add, gen, mtxVars, h, ops>>

\* ... and then its key, which makes it visible; ...
MoveKey(t) ==
    LET k == h[t].cell
    IN  /\ pc[t] = "publish"
        /\ SetEmbedded(k, AfterStores(2, cells[k], add.cells[add.size]))
        /\ RemoveLast(0)
        /\ mtx!ReleaseWrite(t)
        /\ Finish(t)
        /\ UNCHANGED <<gen, ops>>

\* ... a cell of the array, which nobody sees, is filled at once.
Compact(t) ==
    /\ pc[t] = "compact" /\ (h[t].addidx # 0 \/ add.size = 0)
    /\ IF h[t].addidx # 0 THEN RemoveLast(h[t].addidx) ELSE UNCHANGED add
    /\ mtx!ReleaseWrite(t)
    /\ Finish(t)
    /\ UNCHANGED <<cells, gen, ops>>

\* A handle on an existing element: only the array needs the read lock.
ReleaseFound(t) ==
    /\ pc[t] = "held" /\ ~h[t].created /\ ~h[t].remove /\ CheckPasses(t)
    /\ IF h[t].addidx # 0 THEN mtx!ReleaseRead(t) ELSE UNCHANGED mtxVars
    /\ Finish(t)
    /\ UNCHANGED <<bucketVars, ops>>

-----------------------------------------------------------------------------
Died == \E t \in Threads : pc[t] = "died"

Call(t) ==
    /\ ~Died
    /\ \/ Probe(t) \/ LoadAdd(t) \/ ReadLock(t)
       \/ LockFound(t) \/ LockAbsent(t) \/ LockCreate(t)
       \/ ReleaseCreated(t) \/ ReleaseRemove(t) \/ MoveValue(t) \/ MoveKey(t)
       \/ Compact(t) \/ ReleaseFound(t) \/ CheckFails(t)

\* The three constructors of Handle, with the flags they are used with.
Open(t) ==
    /\ ~Died
    /\ \E a \in Addrs :
          \/ Acquire(t, a, FALSE, TRUE)
          \/ Acquire(t, a, FALSE, FALSE)
          \/ Acquire(t, a, TRUE, TRUE)

\* The history variable: a call starts with what it sees at its first step.
Observe ==
    sawAbsent' = [t \in Threads |->
        /\ h'[t].addr # NoAddr
        /\ \/ h'[t].addr \notin Present'
           \/ h[t].addr # NoAddr /\ sawAbsent[t]]

Next == (\E t \in Threads : Open(t) \/ Call(t)) /\ Observe

Spec == Init /\ [][Next]_vars

\* A thread inside the map goes on, and lets its handles go.  Calls end in the
\* end (MaxOps), so weak fairness is enough for the mutex.
FairSpec == Spec /\ \A t \in Threads : WF_vars(Call(t) /\ Observe)

-----------------------------------------------------------------------------
(* Properties *)

PCs == {"idle", "probe", "load_add", "read_lock", "lock", "held", "compact",
        "publish", "died"}
Cell == [addr : Addrs \cup {NoAddr}, val : Addrs \cup {NoAddr}]

Handle == [addr : Addrs \cup {NoAddr}, remove : BOOLEAN, create : BOOLEAN,
           created : BOOLEAN, cell : Nat, addidx : Nat, gen : Nat, i : Nat]

TypeOK ==
    /\ cells \in [1 .. kBucketSize -> Cell]
    /\ add \in [cap : Nat, size : 0 .. add.cap, cells : [1 .. add.cap -> Cell]]
    /\ gen \in Nat
    /\ writers \subseteq Threads /\ readers \subseteq Threads
    /\ pc \in [Threads -> PCs]
    /\ h \in [Threads -> Handle]
    /\ \A t \in Threads : h[t].addr = NoAddr <=> pc[t] = "idle"
    /\ ops \in [Threads -> 0 .. MaxOps]
    /\ sawAbsent \in [Threads -> BOOLEAN]

Holders == {t \in Threads : pc[t] = "held"}

\* A handle that keeps the mutex until it is released.
Locked(t) == h[t].created \/ h[t].remove \/ h[t].addidx # 0

\* While a thread has a handle on an element, its cell holds this element and
\* the value written by the one who created it, whatever is created, removed or
\* moved next to it; a handle that created its element has a free cell.  A
\* handle without the mutex relies on its callers for that: nobody may remove
\* an element that is in use (Contended has the ones for which they do).
HandleKeepsElement ==
    \A t \in Holders : h[t].addr \notin Contended \/ Locked(t) =>
        IF h[t].created THEN CellOf(t).addr = NoAddr
        ELSE CellOf(t) = [addr |-> h[t].addr, val |-> h[t].addr]

\* No handle points into an array that has been freed.
HandlePointsToLiveArray ==
    \A t \in Holders : h[t].addidx # 0 => h[t].gen = gen /\ h[t].cell <= add.size

\* An element is never in two cells, also if two threads found it missing at
\* the same time and go on to create it.
NoDuplicates ==
    \A a \in Addrs : Cardinality(Embedded(a)) + Cardinality(Additional(a)) <= 1

\* "if h.created() then the element was just created, and the current thread
\* has exclusive access to it": nobody else has a handle on the element, unless
\* it was removed while a handle without the mutex was still in use.
CreatorIsExclusive ==
    \A t, u \in Holders :
        h[t].created /\ h[u].addr = h[t].addr /\ h[t].addr \notin Contended => u = t

\* A search that says an element does not exist is right: there was a moment
\* during the call when it did not, also if elements moved between the
\* additional and the embedded cells meanwhile.
NotFoundIsTrue ==
    [][\A t \in Threads : pc[t] = "lock" /\ pc'[t] = "idle" => sawAbsent[t]]_vars

\* Every constructor and destructor of a handle returns, also when the key that
\* sent it back to the start is gone again, unless the process ends.
EveryCallReturns ==
    \A t \in Threads : pc[t] # "idle" ~> (pc[t] = "idle" \/ Died)

-----------------------------------------------------------------------------
(* The inductive invariant behind the safety properties *)

\* What a handle says about itself at each step of its thread.
HandleSteps ==
    \A t \in Threads :
        /\ pc[t] = "idle" => h[t] = NoHandle
        /\ pc[t] \in {"probe", "load_add", "read_lock"} => ~h[t].remove
        /\ pc[t] \in {"probe", "load_add", "read_lock", "lock"} =>
               ~h[t].created /\ h[t].addidx = 0
        /\ pc[t] = "probe" => h[t].i \in 1 .. kBucketSize
        /\ pc[t] \in {"compact", "publish"} => h[t].remove
        /\ pc[t] = "publish" => h[t].addidx = 0
        /\ ~(h[t].created /\ h[t].remove)

\* A handle that has a cell has one of the bucket or of the current array.
Placed == {t \in Threads : pc[t] \in {"held", "compact", "publish"}}
HandleCells ==
    \A t \in Placed :
        /\ IF h[t].addidx = 0 THEN h[t].cell \in 1 .. kBucketSize
           ELSE /\ h[t].cell = h[t].addidx /\ h[t].cell \in 1 .. add.size
                /\ h[t].gen = gen
        /\ pc[t] = "publish" => add.size # 0

\* Who holds the mutex, told from the handles alone.
LocksMatch ==
    /\ \A t \in Threads : t \in writers <=>
           t \in Placed /\ (h[t].created \/ h[t].remove)
    /\ \A t \in Threads : t \in readers <=>
           t \in Placed /\ ~h[t].created /\ ~h[t].remove /\ h[t].addidx # 0
    /\ \A t, u \in writers : t = u
    /\ writers # {} => readers = {}

\* A handle that removes is alone with its element where callers see to it.
RemoversAlone ==
    \A t, u \in Threads :
        t # u /\ h[t].addr = h[u].addr /\ h[t].addr \notin Contended \cup {NoAddr} =>
            ~h[t].remove

\* Published cells hold their own element, unused ones of the array none.
CellsSound ==
    /\ \A i \in 1 .. kBucketSize : cells[i].addr # NoAddr => cells[i].val = cells[i].addr
    /\ \A i \in 1 .. add.cap :
           add.cells[i].addr # NoAddr => i <= add.size /\ add.cells[i].val = add.cells[i].addr

\* No two cells hold the same element.
CellsDistinct ==
    /\ \A i, j \in 1 .. kBucketSize :
           cells[i].addr # NoAddr /\ cells[i].addr = cells[j].addr => i = j
    /\ \A i, j \in 1 .. add.cap :
           add.cells[i].addr # NoAddr /\ add.cells[i].addr = add.cells[j].addr => i = j
    /\ \A i \in 1 .. kBucketSize, j \in 1 .. add.cap :
           cells[i].addr # NoAddr => cells[i].addr # add.cells[j].addr

\* A handle that created its element, or is done with clearing it, has a free
\* cell; the element of the first is nowhere yet.
GapsFree ==
    \A t \in Placed : h[t].created \/ pc[t] \in {"compact", "publish"} =>
        /\ CellOf(t).addr = NoAddr
        /\ h[t].created => h[t].addr \notin Present

\* A call that finds its key absent right now has recorded it.
AbsenceSeen ==
    \A t \in Threads : h[t].addr # NoAddr /\ h[t].addr \notin Present => sawAbsent[t]

IInv ==
    /\ TypeOK /\ HandleSteps /\ HandleCells /\ LocksMatch /\ RemoversAlone
    /\ CellsSound /\ CellsDistinct /\ GapsFree /\ HandleKeepsElement
    /\ AbsenceSeen
=============================================================================
