------------------------- MODULE AddrHashMapProofs -------------------------
(***************************************************************************)
(* The safety of AddrHashMap for any threads, keys, number of embedded     *)
(* cells and capacity of the array of additional cells: IInv is inductive, *)
(* and the properties the runs check follow from it.                       *)
(***************************************************************************)
EXTENDS AddrHashMap, FiniteSetTheorems, WellFoundedInduction, TLAPS

\* A nonempty set of indices has a first one.
LEMMA FirstInSet ==
    ASSUME NEW S \in SUBSET Nat, S # {}
    PROVE  First(S) \in S
<1> DEFINE R == {ss \in Nat \X Nat : ss[1] < ss[2]}
<1>1. IsWellFoundedOn(R, Nat)
  BY NatLessThanWellFounded, Zenon DEF OpToRel
<1>2. PICK x \in S : \A y \in S : ~(<<y, x>> \in R)
  <2> HIDE DEF R
  <2> QED BY <1>1, WFMin
<1>3. ASSUME NEW y \in S, y < x
      PROVE  FALSE
  <2>1. <<y, x>> \in Nat \X Nat
    OBVIOUS
  <2>2. <<y, x>>[1] < <<y, x>>[2]
    BY <1>3
  <2>3. <<y, x>> \in R
    BY <2>1, <2>2, Zenon
  <2> QED
    BY <2>3, <1>2
<1>4. \A y \in S : x <= y
  BY <1>3
<1> QED
  BY <1>4 DEF First

LEMMA AddTypes ==
    ASSUME TypeOK
    PROVE  /\ add.cap \in Nat /\ add.size \in Nat /\ add.size <= add.cap
           /\ add.cells \in [1 .. add.cap -> Cell]
           /\ add = [cap |-> add.cap, size |-> add.size, cells |-> add.cells]
BY DEF TypeOK

\* The searches look only at cells that are there.
LEMMA SearchesInRange ==
    ASSUME TypeOK, NEW a
    PROVE  /\ Embedded(a) \in SUBSET (1 .. kBucketSize)
           /\ Additional(a) \in SUBSET (1 .. add.size)
           /\ Embedded(a) # {} =>
                  /\ First(Embedded(a)) \in 1 .. kBucketSize
                  /\ First(Embedded(a)) \in Nat
                  /\ cells[First(Embedded(a))].addr = a
           /\ Additional(a) # {} =>
                  /\ First(Additional(a)) \in 1 .. add.size
                  /\ First(Additional(a)) \in Nat
                  /\ add.cells[First(Additional(a))].addr = a
<1>1. DOMAIN cells = 1 .. kBucketSize /\ add.size \in Nat
  BY AddrHashMapAssumption DEF TypeOK
<1>2. Embedded(a) \in SUBSET (1 .. kBucketSize) /\ Additional(a) \in SUBSET (1 .. add.size)
  BY <1>1 DEF Embedded, Additional
<1>3. Embedded(a) \in SUBSET Nat /\ Additional(a) \in SUBSET Nat
  BY <1>1, <1>2, AddrHashMapAssumption
<1>4. /\ Embedded(a) # {} => First(Embedded(a)) \in Embedded(a)
      /\ Additional(a) # {} => First(Additional(a)) \in Additional(a)
  BY <1>3, FirstInSet
<1>5. /\ \A k \in Embedded(a) : cells[k].addr = a
      /\ \A k \in Additional(a) : add.cells[k].addr = a
  BY DEF Embedded, Additional
<1> QED
  BY <1>2, <1>3, <1>4, <1>5

\* What the history variable records, whatever the action is.
LEMMA ObserveRecords ==
    ASSUME Observe
    PROVE  /\ sawAbsent' \in [Threads -> BOOLEAN]
           /\ AbsenceSeen'
BY DEF Observe, AbsenceSeen

LEMMA InitIInv == Init => IInv
<1> SUFFICES ASSUME Init PROVE IInv
  OBVIOUS
<1> USE AddrHashMapAssumption DEF Init, mtx!Init
<1>1. /\ cells \in [1 .. kBucketSize -> Cell]
      /\ \A i \in 1 .. kBucketSize : cells[i].addr = NoAddr
  BY DEF FreeCell, Cell
<1>2. /\ add \in [cap : Nat, size : 0 .. add.cap, cells : [1 .. add.cap -> Cell]]
      /\ add.cap = 0 /\ add.size = 0
  BY DEF NullAdd
<1>3. /\ pc \in [Threads -> PCs]
      /\ \A t \in Threads : pc[t] = "idle"
  BY DEF PCs
<1>4. /\ h \in [Threads -> Handle]
      /\ \A t \in Threads : h[t] = NoHandle
  BY DEF Handle, NoHandle
<1>5. TypeOK
  <2>1. \A t \in Threads : h[t].addr = NoAddr <=> pc[t] = "idle"
    BY <1>3, <1>4 DEF NoHandle
  <2>2. gen \in Nat /\ ops \in [Threads -> 0 .. MaxOps] /\ sawAbsent \in [Threads -> BOOLEAN]
    OBVIOUS
  <2> QED
    BY <1>1, <1>2, <1>3, <1>4, <2>1, <2>2 DEF TypeOK
<1>6. HandleSteps /\ RemoversAlone
  BY <1>3, <1>4 DEF HandleSteps, RemoversAlone, NoHandle
<1>7. Placed = {} /\ Holders = {}
  BY <1>3 DEF Placed, Holders
<1>8. HandleCells /\ LocksMatch /\ GapsFree /\ HandleKeepsElement
  BY <1>7 DEF HandleCells, LocksMatch, GapsFree, HandleKeepsElement
<1>9. CellsSound /\ CellsDistinct
  BY <1>1, <1>2 DEF CellsSound, CellsDistinct
<1>10. AbsenceSeen
  BY <1>4 DEF AbsenceSeen, NoHandle
<1> QED
  BY <1>5, <1>6, <1>8, <1>9, <1>10 DEF IInv

-----------------------------------------------------------------------------
(* Steps that leave the bucket alone: what is to be shown is only about    *)
(* the handle of the thread that takes the step.                           *)

\* What is said of one handle in IInv.
HandleOK(t) ==
    /\ h[t].addr = NoAddr <=> pc[t] = "idle"
    /\ pc[t] = "idle" => h[t] = NoHandle
    /\ pc[t] \in {"probe", "load_add", "read_lock"} => ~h[t].remove
    /\ pc[t] \in {"probe", "load_add", "read_lock", "lock"} =>
           ~h[t].created /\ h[t].addidx = 0
    /\ pc[t] = "probe" => h[t].i \in 1 .. kBucketSize
    /\ pc[t] \in {"compact", "publish"} => h[t].remove
    /\ pc[t] = "publish" => h[t].addidx = 0
    /\ ~(h[t].created /\ h[t].remove)

\* What is said of the cell of one handle in IInv.
CellOK(t) ==
    /\ IF h[t].addidx = 0 THEN h[t].cell \in 1 .. kBucketSize
       ELSE /\ h[t].cell = h[t].addidx /\ h[t].cell \in 1 .. add.size
            /\ h[t].gen = gen
    /\ pc[t] = "publish" => add.size # 0
    /\ h[t].created \/ pc[t] \in {"compact", "publish"} =>
        /\ CellOf(t).addr = NoAddr
        /\ h[t].created => h[t].addr \notin Present
    /\ pc[t] = "held" /\ ~h[t].created /\ (h[t].addr \notin Contended \/ Locked(t)) =>
           CellOf(t) = [addr |-> h[t].addr, val |-> h[t].addr]

LEMMA CellOKOfPlaced ==
    HandleCells /\ GapsFree /\ HandleKeepsElement <=> \A t \in Placed : CellOK(t)
BY DEF HandleCells, GapsFree, HandleKeepsElement, CellOK, Placed, Holders, Locked

LEMMA CellOKOfPlacedNext ==
    (\A t \in Placed' : CellOK(t)') => HandleCells' /\ GapsFree' /\ HandleKeepsElement'
BY DEF HandleCells, GapsFree, HandleKeepsElement, CellOK, Placed, Holders, Locked

\* A step of one thread that changes only its own handle.
LEMMA QuietStep ==
    ASSUME IInv, NEW t \in Threads, UNCHANGED bucketVars, Observe,
           NEW place \in PCs, NEW H \in Handle,
           pc' = [pc EXCEPT ![t] = place], h' = [h EXCEPT ![t] = H],
           ops' \in [Threads -> 0 .. MaxOps],
           HandleOK(t)',
           place \in {"held", "compact", "publish"} => CellOK(t)',
           \A u \in Threads \ {t} :
               h[u].addr = H.addr /\ H.addr \notin Contended \cup {NoAddr} => ~H.remove /\ ~h[u].remove,
           writers' \subseteq Threads, readers' \subseteq Threads,
           LocksMatch'
    PROVE  IInv'
<1> USE DEF IInv
<1>1. /\ pc'[t] = place /\ h'[t] = H
      /\ \A u \in Threads \ {t} : pc'[u] = pc[u] /\ h'[u] = h[u]
      /\ pc' \in [Threads -> PCs] /\ h' \in [Threads -> Handle]
  BY DEF TypeOK
<1>2. \A u \in Threads \ {t} : HandleOK(u)'
  BY <1>1 DEF HandleOK, HandleSteps, TypeOK
<1>3. TypeOK' /\ HandleSteps'
  BY <1>1, <1>2, ObserveRecords DEF HandleOK, HandleSteps, TypeOK, bucketVars
<1>4. ASSUME NEW u \in Placed' PROVE CellOK(u)'
  <2>1. CASE u = t
    BY <2>1, <1>1 DEF Placed
  <2>2. CASE u # t
    <3>1. u \in Placed /\ pc'[u] = pc[u] /\ h'[u] = h[u]
      BY <2>2, <1>1 DEF Placed
    <3>2. CellOK(u)
      BY <3>1, CellOKOfPlaced
    <3>3. CellOf(u)' = CellOf(u) /\ Present' = Present
      BY <3>1 DEF CellOf, Present, Embedded, Additional, bucketVars
    <3> QED
      BY <3>1, <3>2, <3>3 DEF CellOK, Locked, bucketVars
  <2> QED
    BY <2>1, <2>2
<1>5. HandleCells' /\ GapsFree' /\ HandleKeepsElement'
  BY <1>4, CellOKOfPlacedNext
<1>6. RemoversAlone'
  BY <1>1 DEF RemoversAlone
<1>7. CellsSound' /\ CellsDistinct'
  BY DEF CellsSound, CellsDistinct, bucketVars
<1> QED
  BY <1>3, <1>5, <1>6, <1>7, ObserveRecords

LEMMA AcquireStep ==
    ASSUME IInv, Observe, NEW t \in Threads, NEW a \in Addrs,
           NEW remove \in BOOLEAN, NEW create \in BOOLEAN,
           Acquire(t, a, remove, create)
    PROVE  IInv'
<1> DEFINE place == IF remove THEN "lock" ELSE "probe"
           H == [NoHandle EXCEPT !.addr = a, !.remove = remove, !.create = create]
<1> USE DEF IInv
<1>1. /\ H \in Handle /\ H.addr = a /\ H.remove = remove /\ ~H.created
      /\ H.addidx = 0 /\ H.i = 1
  BY DEF NoHandle, Handle
<1>2. /\ pc' = [pc EXCEPT ![t] = place] /\ h' = [h EXCEPT ![t] = H]
      /\ place \in PCs /\ place \notin {"held", "compact", "publish", "idle", "load_add", "read_lock"}
  BY DEF Acquire, Goto, PCs
<1>3. ops' \in [Threads -> 0 .. MaxOps]
  BY AddrHashMapAssumption DEF Acquire, TypeOK
<1>4. pc'[t] = place /\ h'[t] = H
  BY <1>2 DEF TypeOK
<1>5. HandleOK(t)'
  <2>1. 1 \in 1 .. kBucketSize /\ a # NoAddr /\ (place = "probe" => ~remove)
    BY AddrHashMapAssumption
  <2> HIDE DEF place, H
  <2> QED
    BY <1>1, <1>2, <1>4, <2>1 DEF HandleOK
<1>6. LocksMatch' /\ writers' \subseteq Threads /\ readers' \subseteq Threads
  <2>1. t \notin Placed /\ t \notin Placed' /\ writers' = writers /\ readers' = readers
    BY <1>2, <1>4 DEF Acquire, Placed, mtxVars
  <2>2. \A u \in Threads \ {t} : pc'[u] = pc[u] /\ h'[u] = h[u]
    BY <1>2 DEF TypeOK
  <2> QED
    BY <2>1, <2>2 DEF LocksMatch, Placed, TypeOK
<1>7. \A u \in Threads \ {t} : h[u].addr = H.addr /\ H.addr \notin Contended \cup {NoAddr} => ~H.remove /\ ~h[u].remove
  BY <1>1 DEF Acquire
<1>8. UNCHANGED bucketVars
  BY DEF Acquire
<1> HIDE DEF place, H, IInv
<1> QED
  BY <1>1, <1>2, <1>3, <1>5, <1>6, <1>7, <1>8, QuietStep

\* A step that does not touch the mutex, of a thread that does not hold it.
LEMMA LocksKept ==
    ASSUME LocksMatch, TypeOK, NEW t \in Threads, UNCHANGED mtxVars,
           \A u \in Threads \ {t} : pc'[u] = pc[u] /\ h'[u] = h[u],
           t \notin writers, t \notin readers,
           t \notin Placed' \/ (~h'[t].created /\ ~h'[t].remove /\ h'[t].addidx = 0)
    PROVE  LocksMatch' /\ writers' \subseteq Threads /\ readers' \subseteq Threads
BY DEF LocksMatch, Placed, TypeOK, mtxVars

\* A thread whose handle has no cell yet does not hold the mutex.
LEMMA UnplacedUnlocked ==
    ASSUME LocksMatch, NEW t \in Threads, t \notin Placed
    PROVE  t \notin writers /\ t \notin readers
BY DEF LocksMatch

\* What is found in a cell is the element with its value.
LEMMA EmbeddedFound ==
    ASSUME TypeOK, CellsSound, NEW i \in 1 .. kBucketSize, cells[i].addr # NoAddr
    PROVE  cells[i] = [addr |-> cells[i].addr, val |-> cells[i].addr]
BY DEF TypeOK, CellsSound, Cell

LEMMA AdditionalFound ==
    ASSUME TypeOK, CellsSound, NEW i \in 1 .. add.size, add.cells[i].addr # NoAddr
    PROVE  add.cells[i] = [addr |-> add.cells[i].addr, val |-> add.cells[i].addr]
<1>1. i \in 1 .. add.cap /\ add.cells[i] \in Cell
  BY AddTypes
<1> QED
  BY <1>1 DEF CellsSound, Cell

\* The handles the steps make, field by field.
LEMMA EmbeddedHandle ==
    ASSUME NEW H \in Handle, NEW i \in Nat, NEW K, K = [H EXCEPT !.cell = i, !.i = 1]
    PROVE  /\ K \in Handle /\ K.addr = H.addr /\ K.remove = H.remove
           /\ K.created = H.created /\ K.addidx = H.addidx /\ K.cell = i /\ K.i = 1
BY DEF Handle

LEMMA AdditionalHandle ==
    ASSUME NEW H \in Handle, NEW i \in Nat, NEW g \in Nat, NEW K,
           K = [H EXCEPT !.cell = i, !.addidx = i, !.gen = g, !.i = 1]
    PROVE  /\ K \in Handle /\ K.addr = H.addr /\ K.remove = H.remove
           /\ K.created = H.created /\ K.addidx = i /\ K.cell = i /\ K.gen = g
BY DEF Handle

LEMMA SearchingHandle ==
    ASSUME NEW H \in Handle, NEW i \in Nat, NEW K, K = [H EXCEPT !.i = i]
    PROVE  /\ K \in Handle /\ K.addr = H.addr /\ K.remove = H.remove
           /\ K.created = H.created /\ K.addidx = H.addidx /\ K.i = i
BY DEF Handle

\* A handle that takes a cell with its element in it.
LEMMA TakenEmbedded ==
    ASSUME TypeOK, CellsSound, UNCHANGED bucketVars, NEW t \in Threads,
           NEW i \in 1 .. kBucketSize, cells[i].addr # NoAddr,
           pc'[t] = "held", h'[t].addr = cells[i].addr, ~h'[t].created,
           h'[t].addidx = 0, h'[t].cell = i
    PROVE  CellOK(t)'
<1>1. CellOf(t)' = cells[i]
  BY DEF CellOf, bucketVars
<1>2. cells[i] = [addr |-> h'[t].addr, val |-> h'[t].addr]
  BY EmbeddedFound
<1> QED
  BY <1>1, <1>2 DEF CellOK

LEMMA TakenAdditional ==
    ASSUME TypeOK, CellsSound, UNCHANGED bucketVars, NEW t \in Threads,
           NEW i \in 1 .. add.size, add.cells[i].addr # NoAddr,
           pc'[t] = "held", h'[t].addr = add.cells[i].addr, ~h'[t].created,
           h'[t].addidx = i, h'[t].cell = i, h'[t].gen = gen
    PROVE  CellOK(t)'
<1>1. i # 0 /\ add' = add /\ gen' = gen
  BY AddTypes DEF bucketVars
<1>2. CellOf(t)' = add.cells[i]
  BY <1>1 DEF CellOf
<1>3. add.cells[i] = [addr |-> h'[t].addr, val |-> h'[t].addr]
  BY AdditionalFound
<1> QED
  BY <1>1, <1>2, <1>3 DEF CellOK

LEMMA ProbeStep ==
    ASSUME IInv, Observe, NEW t \in Threads, Probe(t)
    PROVE  IInv'
<1> DEFINE i == h[t].i
           found == cells[i].addr = h[t].addr
           place == IF found THEN "held" ELSE IF i = kBucketSize THEN "load_add" ELSE "probe"
           H == IF found THEN [h[t] EXCEPT !.cell = i, !.i = 1]
                         ELSE [h[t] EXCEPT !.i = i + 1]
<1> USE DEF IInv
<1>1. /\ h[t] \in Handle /\ pc[t] = "probe" /\ i \in 1 .. kBucketSize
      /\ ~h[t].created /\ ~h[t].remove /\ h[t].addidx = 0 /\ h[t].addr # NoAddr
  BY DEF Probe, TypeOK, HandleSteps
<1>2. /\ H \in Handle /\ H.addr = h[t].addr /\ ~H.remove /\ ~H.created /\ H.addidx = 0
      /\ found => H.cell = i
      /\ ~found => H.i = i + 1
  <2>1. i \in Nat /\ i + 1 \in Nat
    BY <1>1, AddrHashMapAssumption
  <2>2. CASE found
    <3>1. H = [h[t] EXCEPT !.cell = i, !.i = 1]
      BY <2>2
    <3> HIDE DEF H, i, found
    <3> QED
      BY <1>1, <2>1, <2>2, <3>1 DEF Handle
  <2>3. CASE ~found
    <3>1. H = [h[t] EXCEPT !.i = i + 1]
      BY <2>3
    <3> HIDE DEF H, i, found
    <3> QED
      BY <1>1, <2>1, <2>3, <3>1, SearchingHandle
  <2> QED
    BY <2>2, <2>3
<1>3. pc' = [pc EXCEPT ![t] = place] /\ h' = [h EXCEPT ![t] = H] /\ place \in PCs
  BY DEF Probe, Goto, TakeEmbedded, PCs
<1>4. /\ pc'[t] = place /\ h'[t] = H
      /\ \A u \in Threads \ {t} : pc'[u] = pc[u] /\ h'[u] = h[u]
  BY <1>3 DEF TypeOK
<1>5. /\ UNCHANGED bucketVars /\ UNCHANGED mtxVars
      /\ ops' \in [Threads -> 0 .. MaxOps]
  BY DEF Probe, TypeOK
<1>6. HandleOK(t)'
  <2>1. place = "probe" => H.i \in 1 .. kBucketSize
    BY <1>1, <1>2, AddrHashMapAssumption
  <2>2. place \in {"held", "load_add", "probe"}
    OBVIOUS
  <2> HIDE DEF place, H
  <2> QED
    BY <1>1, <1>2, <1>4, <2>1, <2>2 DEF HandleOK
<1>7. place \in {"held", "compact", "publish"} => CellOK(t)'
  <2> SUFFICES ASSUME found PROVE CellOK(t)'
    OBVIOUS
  <2>1. pc'[t] = "held" /\ h'[t].cell = i /\ cells[i].addr = h'[t].addr
    BY <1>2, <1>4
  <2> HIDE DEF place, H, found, i
  <2> QED
    BY <1>1, <1>2, <1>4, <1>5, <2>1, TakenEmbedded
<1>8. LocksMatch' /\ writers' \subseteq Threads /\ readers' \subseteq Threads
  <2>1. t \notin Placed
    BY <1>1 DEF Placed
  <2> QED
    BY <1>2, <1>4, <1>5, <2>1, UnplacedUnlocked, LocksKept
<1>9. \A u \in Threads \ {t} : h[u].addr = H.addr /\ H.addr \notin Contended \cup {NoAddr} => ~H.remove /\ ~h[u].remove
  BY <1>1, <1>2 DEF RemoversAlone
<1> HIDE DEF place, H, IInv
<1> QED
  BY <1>2, <1>3, <1>5, <1>6, <1>7, <1>8, <1>9, QuietStep

LEMMA LoadAddStep ==
    ASSUME IInv, Observe, NEW t \in Threads, LoadAdd(t)
    PROVE  IInv'
<1> DEFINE place == IF add.cap # 0 THEN "read_lock" ELSE "lock"
<1> USE DEF IInv
<1>1. /\ h[t] \in Handle /\ pc[t] = "load_add"
      /\ ~h[t].created /\ ~h[t].remove /\ h[t].addidx = 0 /\ h[t].addr # NoAddr
  BY DEF LoadAdd, TypeOK, HandleSteps
<1>2. pc' = [pc EXCEPT ![t] = place] /\ h' = [h EXCEPT ![t] = h[t]] /\ place \in PCs
  BY DEF LoadAdd, Goto, PCs, TypeOK
<1>3. /\ pc'[t] = place /\ h'[t] = h[t]
      /\ \A u \in Threads \ {t} : pc'[u] = pc[u] /\ h'[u] = h[u]
  BY <1>2 DEF TypeOK
<1>4. /\ UNCHANGED bucketVars /\ UNCHANGED mtxVars
      /\ ops' \in [Threads -> 0 .. MaxOps]
  BY DEF LoadAdd, TypeOK
<1>5. place \in {"read_lock", "lock"}
  OBVIOUS
<1> HIDE DEF place
<1>6. HandleOK(t)'
  BY <1>1, <1>3, <1>5 DEF HandleOK
<1>7. LocksMatch' /\ writers' \subseteq Threads /\ readers' \subseteq Threads
  <2>1. t \notin Placed
    BY <1>1 DEF Placed
  <2> QED
    BY <1>1, <1>3, <1>4, <2>1, UnplacedUnlocked, LocksKept
<1>8. \A u \in Threads \ {t} : h[u].addr = h[t].addr /\ h[t].addr \notin Contended \cup {NoAddr} => ~h[t].remove /\ ~h[u].remove
  BY DEF RemoversAlone
<1> HIDE DEF IInv
<1> QED
  BY <1>1, <1>2, <1>4, <1>5, <1>6, <1>7, <1>8, QuietStep

LEMMA ReadLockStep ==
    ASSUME IInv, Observe, NEW t \in Threads, ReadLock(t)
    PROVE  IInv'
<1> DEFINE found == Additional(h[t].addr)
           k == First(found)
<1> USE DEF IInv
<1>1. /\ h[t] \in Handle /\ pc[t] = "read_lock"
      /\ ~h[t].created /\ ~h[t].remove /\ h[t].addidx = 0 /\ h[t].addr # NoAddr
  BY DEF ReadLock, TypeOK, HandleSteps
<1>2. t \notin Placed /\ t \notin writers /\ t \notin readers
  BY <1>1, UnplacedUnlocked DEF Placed
<1>3. UNCHANGED bucketVars /\ ops' \in [Threads -> 0 .. MaxOps]
  BY DEF ReadLock, TypeOK
<1>4. \A u \in Threads \ {t} : h[u].addr = h[t].addr /\ h[t].addr \notin Contended => ~h[u].remove
  BY <1>1 DEF RemoversAlone
<1>5. CASE found # {}
  <2> DEFINE H == [h[t] EXCEPT !.cell = k, !.addidx = k, !.gen = gen, !.i = 1]
  <2>1. k \in 1 .. add.size /\ k \in Nat /\ k # 0 /\ add.cells[k].addr = h[t].addr
    BY <1>5, SearchesInRange, AddTypes
  <2>2. gen \in Nat
    BY DEF TypeOK
  <2>3. /\ H \in Handle /\ H.addr = h[t].addr /\ ~H.remove
        /\ ~H.created /\ H.addidx = k /\ H.cell = k /\ H.gen = gen
    <3> HIDE DEF k
    <3> QED
      BY <1>1, <2>1, <2>2 DEF Handle
  <2>4. /\ pc' = [pc EXCEPT ![t] = "held"] /\ h' = [h EXCEPT ![t] = H] /\ "held" \in PCs
        /\ writers = {} /\ writers' = writers /\ readers' = readers \cup {t}
    BY <1>5 DEF ReadLock, Goto, TakeAdditional, PCs, mtx!AcquireRead
  <2>5. /\ pc'[t] = "held" /\ h'[t] = H
        /\ \A u \in Threads \ {t} : pc'[u] = pc[u] /\ h'[u] = h[u]
    BY <2>4 DEF TypeOK
  <2> HIDE DEF H, k, found
  <2>6. HandleOK(t)'
    BY <1>1, <2>3, <2>5 DEF HandleOK
  <2>7. CellOK(t)'
    BY <1>1, <1>3, <2>1, <2>3, <2>5, TakenAdditional
  <2>8. LocksMatch' /\ writers' \subseteq Threads /\ readers' \subseteq Threads
    BY <1>2, <2>1, <2>3, <2>4, <2>5 DEF LocksMatch, Placed, TypeOK
  <2> HIDE DEF IInv
  <2> QED
    BY <1>1, <1>3, <1>4, <2>3, <2>4, <2>6, <2>7, <2>8, QuietStep
<1>6. CASE found = {}
  <2>1. /\ pc' = [pc EXCEPT ![t] = "lock"] /\ h' = [h EXCEPT ![t] = h[t]] /\ "lock" \in PCs
        /\ UNCHANGED mtxVars
    BY <1>6 DEF ReadLock, Goto, PCs, TypeOK
  <2>2. /\ pc'[t] = "lock" /\ h'[t] = h[t]
        /\ \A u \in Threads \ {t} : pc'[u] = pc[u] /\ h'[u] = h[u]
    BY <2>1 DEF TypeOK
  <2>3. HandleOK(t)'
    BY <1>1, <2>2 DEF HandleOK
  <2>4. LocksMatch' /\ writers' \subseteq Threads /\ readers' \subseteq Threads
    BY <1>1, <1>2, <2>1, <2>2, LocksKept
  <2> HIDE DEF IInv
  <2> QED
    BY <1>1, <1>3, <1>4, <2>1, <2>3, <2>4, QuietStep
<1> QED
  BY <1>5, <1>6

LEMMA LockAbsentStep ==
    ASSUME IInv, Observe, NEW t \in Threads, LockAbsent(t)
    PROVE  IInv'
<1> USE DEF IInv
<1>1. pc[t] = "lock" /\ t \notin Placed /\ t \notin writers /\ t \notin readers
  BY UnplacedUnlocked DEF LockAbsent, Placed
<1>2. /\ UNCHANGED bucketVars /\ UNCHANGED mtxVars /\ ops' \in [Threads -> 0 .. MaxOps]
      /\ pc' = [pc EXCEPT ![t] = "idle"] /\ h' = [h EXCEPT ![t] = NoHandle] /\ "idle" \in PCs
  BY DEF LockAbsent, Finish, Goto, PCs, TypeOK
<1>3. /\ pc'[t] = "idle" /\ h'[t] = NoHandle
      /\ \A u \in Threads \ {t} : pc'[u] = pc[u] /\ h'[u] = h[u]
  BY <1>2 DEF TypeOK
<1>4. /\ NoHandle \in Handle /\ NoHandle.addr = NoAddr
      /\ ~NoHandle.created /\ ~NoHandle.remove /\ NoHandle.addidx = 0
  BY DEF NoHandle, Handle
<1>5. HandleOK(t)'
  BY <1>3, <1>4 DEF HandleOK
<1>6. LocksMatch' /\ writers' \subseteq Threads /\ readers' \subseteq Threads
  BY <1>1, <1>2, <1>3, <1>4, LocksKept
<1> HIDE DEF IInv
<1> QED
  BY <1>2, <1>4, <1>5, <1>6, QuietStep

LEMMA ReleaseFoundStep ==
    ASSUME IInv, Observe, NEW t \in Threads, ReleaseFound(t)
    PROVE  IInv'
<1> USE DEF IInv
<1>1. pc[t] = "held" /\ t \in Placed /\ ~h[t].created /\ ~h[t].remove /\ t \notin writers
  BY DEF ReleaseFound, Placed, LocksMatch
<1>2. /\ UNCHANGED bucketVars /\ ops' \in [Threads -> 0 .. MaxOps]
      /\ pc' = [pc EXCEPT ![t] = "idle"] /\ h' = [h EXCEPT ![t] = NoHandle] /\ "idle" \in PCs
  BY DEF ReleaseFound, Finish, Goto, PCs, TypeOK
<1>3. /\ pc'[t] = "idle" /\ h'[t] = NoHandle
      /\ \A u \in Threads \ {t} : pc'[u] = pc[u] /\ h'[u] = h[u]
  BY <1>2 DEF TypeOK
<1>4. /\ NoHandle \in Handle /\ NoHandle.addr = NoAddr
      /\ ~NoHandle.created /\ ~NoHandle.remove /\ NoHandle.addidx = 0
  BY DEF NoHandle, Handle
<1>5. HandleOK(t)'
  BY <1>3, <1>4 DEF HandleOK
<1>6. writers' = writers /\ readers' = readers \ {t}
  BY <1>1 DEF ReleaseFound, mtx!ReleaseRead, mtxVars, LocksMatch
<1>7. LocksMatch' /\ writers' \subseteq Threads /\ readers' \subseteq Threads
  BY <1>1, <1>3, <1>6 DEF LocksMatch, Placed, TypeOK
<1> HIDE DEF IInv
<1> QED
  BY <1>2, <1>4, <1>5, <1>7, QuietStep

LEMMA LockFoundStep ==
    ASSUME IInv, Observe, NEW t \in Threads, LockFound(t)
    PROVE  IInv'
<1> USE DEF IInv
<1>1. /\ h[t] \in Handle /\ pc[t] = "lock"
      /\ ~h[t].created /\ h[t].addidx = 0 /\ h[t].addr # NoAddr
      /\ h[t].addr \in Present
  BY DEF LockFound, TypeOK, HandleSteps
<1>2. t \notin Placed /\ t \notin writers /\ t \notin readers
  BY <1>1, UnplacedUnlocked DEF Placed
<1>3. UNCHANGED bucketVars /\ ops' \in [Threads -> 0 .. MaxOps] /\ gen \in Nat
  BY DEF LockFound, TypeOK
<1>4. \A u \in Threads \ {t} : h[u].addr = h[t].addr /\ h[t].addr \notin Contended => ~h[t].remove /\ ~h[u].remove
  BY <1>1 DEF RemoversAlone
<1>5. CASE ~h[t].remove
  <2> DEFINE H == [h[t] EXCEPT !.i = 1]
  <2>1. /\ pc' = [pc EXCEPT ![t] = "probe"] /\ h' = [h EXCEPT ![t] = H] /\ "probe" \in PCs
        /\ UNCHANGED mtxVars
    BY <1>5 DEF LockFound, Goto, PCs
  <2>2. /\ H \in Handle /\ H.addr = h[t].addr /\ ~H.remove
        /\ ~H.created /\ H.addidx = 0 /\ H.i = 1
    BY <1>1, <1>5 DEF Handle
  <2>3. /\ pc'[t] = "probe" /\ h'[t] = H
        /\ \A u \in Threads \ {t} : pc'[u] = pc[u] /\ h'[u] = h[u]
    BY <2>1 DEF TypeOK
  <2> HIDE DEF H
  <2>4. HandleOK(t)'
    BY <1>1, <2>2, <2>3, AddrHashMapAssumption DEF HandleOK
  <2>5. LocksMatch' /\ writers' \subseteq Threads /\ readers' \subseteq Threads
    BY <1>2, <2>1, <2>2, <2>3, LocksKept
  <2> HIDE DEF IInv
  <2> QED
    BY <1>1, <1>3, <1>4, <2>1, <2>2, <2>4, <2>5, QuietStep
<1>6. CASE h[t].remove
  <2>1. /\ writers = {} /\ readers = {} /\ writers' = {t} /\ readers' = {}
        /\ pc' = [pc EXCEPT ![t] = "held"] /\ "held" \in PCs
    BY <1>6 DEF LockFound, KeepWriteLock, mtx!AcquireWrite, Goto, PCs
  <2>2. PICK H \in Handle :
            /\ h' = [h EXCEPT ![t] = H]
            /\ H.addr = h[t].addr /\ H.remove /\ ~H.created
            /\ \/ /\ H.addidx = 0 /\ H.cell \in 1 .. kBucketSize
                  /\ cells[H.cell].addr = h[t].addr
               \/ /\ H.cell \in 1 .. add.size /\ H.addidx = H.cell
                  /\ add.cells[H.cell].addr = h[t].addr /\ H.gen = gen
    <3>1. CASE Embedded(h[t].addr) # {}
      <4> DEFINE k == First(Embedded(h[t].addr))
                 K == [h[t] EXCEPT !.cell = k, !.i = 1]
      <4>1. k \in 1 .. kBucketSize /\ k \in Nat /\ cells[k].addr = h[t].addr
        BY <3>1, SearchesInRange
      <4>2. h' = [h EXCEPT ![t] = K]
        BY <1>6, <3>1 DEF LockFound, TakeEmbedded
      <4> HIDE DEF k
      <4>3. /\ K \in Handle /\ K.addr = h[t].addr /\ K.remove /\ ~K.created
            /\ K.addidx = 0 /\ K.cell = k
        BY <1>1, <1>6, <4>1 DEF Handle
      <4> HIDE DEF K
      <4> QED
        BY <4>1, <4>2, <4>3
    <3>2. CASE Embedded(h[t].addr) = {}
      <4> DEFINE k == First(Additional(h[t].addr))
                 K == [h[t] EXCEPT !.cell = k, !.addidx = k, !.gen = gen, !.i = 1]
      <4>1. Additional(h[t].addr) # {}
        BY <1>1, <3>2 DEF Present
      <4>2. k \in 1 .. add.size /\ k \in Nat /\ add.cells[k].addr = h[t].addr
        BY <4>1, SearchesInRange
      <4>3. h' = [h EXCEPT ![t] = K]
        BY <1>6, <3>2 DEF LockFound, TakeAdditional
      <4> HIDE DEF k
      <4>4. /\ K \in Handle /\ K.addr = h[t].addr /\ K.remove /\ ~K.created
            /\ K.addidx = k /\ K.cell = k /\ K.gen = gen
        BY <1>1, <1>3, <1>6, <4>2 DEF Handle
      <4> HIDE DEF K
      <4> QED
        BY <4>2, <4>3, <4>4
    <3> QED
      BY <3>1, <3>2
  <2>3. /\ pc'[t] = "held" /\ h'[t] = H
        /\ \A u \in Threads \ {t} : pc'[u] = pc[u] /\ h'[u] = h[u]
    BY <2>1, <2>2 DEF TypeOK
  <2>4. HandleOK(t)'
    BY <1>1, <2>2, <2>3 DEF HandleOK
  <2>5. CellOK(t)'
    BY <1>1, <1>3, <2>2, <2>3, TakenEmbedded, TakenAdditional
  <2>6. LocksMatch' /\ writers' \subseteq Threads /\ readers' \subseteq Threads
    BY <2>1, <2>2, <2>3 DEF LocksMatch, Placed, TypeOK
  <2>7. \A u \in Threads \ {t} : h[u].addr = H.addr /\ H.addr \notin Contended \cup {NoAddr} => ~H.remove /\ ~h[u].remove
    BY <1>4, <1>6, <2>2
  <2> HIDE DEF IInv
  <2> QED
    BY <1>1, <1>3, <2>1, <2>2, <2>4, <2>5, <2>6, <2>7, QuietStep
<1> QED
  BY <1>5, <1>6

-----------------------------------------------------------------------------
(* Steps under the write lock: they may change the bucket, and every other *)
(* handle that has a cell has an embedded one.                             *)

LEMMA OthersEmbedded ==
    ASSUME IInv, NEW t \in Threads, t \in writers \/ (writers = {} /\ readers = {}),
           NEW u \in Placed \ {t}
    PROVE  /\ u \in Threads /\ pc[u] = "held" /\ h[u].addr # NoAddr
           /\ ~h[u].created /\ ~h[u].remove /\ h[u].addidx = 0
           /\ h[u].cell \in 1 .. kBucketSize
           /\ h[u].addr \notin Contended =>
                 /\ cells[h[u].cell] = [addr |-> h[u].addr, val |-> h[u].addr]
                 /\ cells[h[u].cell].addr = h[u].addr
<1> USE DEF IInv
<1>1. u \in Threads /\ u \notin writers /\ u \notin readers
  BY DEF LocksMatch, Placed
<1>2. ~h[u].created /\ ~h[u].remove /\ h[u].addidx = 0
  BY <1>1 DEF LocksMatch
<1>3. pc[u] = "held" /\ h[u].addr # NoAddr
  BY <1>1, <1>2 DEF Placed, HandleSteps, TypeOK
<1>4. CellOK(u)
  BY CellOKOfPlaced
<1> QED
  BY <1>1, <1>2, <1>3, <1>4 DEF CellOK, CellOf

LEMMA BucketStep ==
    ASSUME IInv, NEW t \in Threads, Observe,
           NEW place \in PCs, NEW H \in Handle,
           pc' = [pc EXCEPT ![t] = place], h' = [h EXCEPT ![t] = H], ops' = ops,
           cells' \in [1 .. kBucketSize -> Cell], gen' \in Nat,
           add' \in [cap : Nat, size : 0 .. add'.cap, cells : [1 .. add'.cap -> Cell]],
           CellsSound', CellsDistinct',
           t \in writers \/ (writers = {} /\ readers = {}),
           \A u \in Placed \ {t} : h[u].addr \notin Contended =>
               cells'[h[u].cell] = cells[h[u].cell],
           HandleOK(t)',
           place \in {"held", "compact", "publish"} => CellOK(t)',
           H.addr = NoAddr \/ (H.addr = h[t].addr /\ H.remove = h[t].remove),
           H.addr = NoAddr => ~H.remove,
           writers' \subseteq Threads, readers' \subseteq Threads, LocksMatch'
    PROVE  IInv'
<1> USE DEF IInv
<1>1. /\ pc'[t] = place /\ h'[t] = H
      /\ \A u \in Threads \ {t} : pc'[u] = pc[u] /\ h'[u] = h[u]
      /\ pc' \in [Threads -> PCs] /\ h' \in [Threads -> Handle]
  BY DEF TypeOK
<1>2. \A u \in Threads \ {t} : HandleOK(u)'
  BY <1>1 DEF HandleOK, HandleSteps, TypeOK
<1>3. TypeOK' /\ HandleSteps'
  BY <1>1, <1>2, ObserveRecords DEF HandleOK, HandleSteps, TypeOK
<1>4. ASSUME NEW u \in Placed' PROVE CellOK(u)'
  <2>1. CASE u = t
    BY <2>1, <1>1 DEF Placed
  <2>2. CASE u # t
    <3>1. u \in Placed \ {t} /\ pc'[u] = pc[u] /\ h'[u] = h[u]
      BY <2>2, <1>1 DEF Placed
    <3>2. /\ pc[u] = "held" /\ ~h[u].created /\ ~h[u].remove /\ h[u].addidx = 0
          /\ h[u].cell \in 1 .. kBucketSize
          /\ h[u].addr \notin Contended =>
                cells[h[u].cell] = [addr |-> h[u].addr, val |-> h[u].addr]
      BY <3>1, OthersEmbedded
    <3> QED
      BY <3>1, <3>2 DEF CellOK, CellOf, Locked
  <2> QED
    BY <2>1, <2>2
<1>5. HandleCells' /\ GapsFree' /\ HandleKeepsElement'
  BY <1>4, CellOKOfPlacedNext
<1>6. RemoversAlone'
  BY <1>1 DEF RemoversAlone
<1> QED
  BY <1>3, <1>5, <1>6, ObserveRecords

\* An absent element is in no cell, used or not.
LEMMA AbsentNowhere ==
    ASSUME TypeOK, CellsSound, NEW a \in Addrs, a \notin Present
    PROVE  /\ \A i \in 1 .. kBucketSize : cells[i].addr # a
           /\ \A i \in 1 .. add.cap : add.cells[i].addr # a
<1>1. a # NoAddr /\ Embedded(a) = {} /\ Additional(a) = {}
  BY AddrHashMapAssumption DEF Present
<1>2. \A i \in 1 .. kBucketSize : cells[i].addr # a
  BY <1>1 DEF Embedded, TypeOK
<1>3. \A i \in 1 .. add.size : add.cells[i].addr # a
  BY <1>1 DEF Additional
<1>4. \A i \in 1 .. add.cap : i <= add.size \/ add.cells[i].addr = NoAddr
  BY DEF CellsSound
<1> QED
  BY <1>1, <1>2, <1>3, <1>4, AddTypes

LEMMA NowhereAbsentNext ==
    ASSUME NEW a, cells' \in [1 .. kBucketSize -> Cell],
           \A i \in 1 .. kBucketSize : cells'[i].addr # a,
           \A i \in 1 .. add'.size : add'.cells[i].addr # a
    PROVE  a \notin Present'
BY DEF Present, Embedded, Additional

LEMMA LockCreateStep ==
    ASSUME IInv, Observe, NEW t \in Threads, LockCreate(t)
    PROVE  IInv'
<1> DEFINE a == h[t].addr
           free == Embedded(NoAddr)
<1> USE DEF IInv
<1>1. /\ h[t] \in Handle /\ pc[t] = "lock" /\ ~h[t].remove /\ h[t].create
      /\ ~h[t].created /\ h[t].addidx = 0 /\ a # NoAddr /\ a \notin Present
      /\ a \in Addrs
  BY DEF LockCreate, TypeOK, HandleSteps, IsAbsent, Handle
<1>2. /\ writers = {} /\ readers = {} /\ writers' = {t} /\ readers' = {}
      /\ pc' = [pc EXCEPT ![t] = "held"] /\ "held" \in PCs
      /\ cells' = cells /\ ops' = ops /\ ops \in [Threads -> 0 .. MaxOps]
  BY DEF LockCreate, KeepWriteLock, mtx!AcquireWrite, Goto, PCs, TypeOK
<1>3. pc'[t] = "held" /\ \A u \in Threads \ {t} : pc'[u] = pc[u]
  BY <1>2 DEF TypeOK
<1>4. ASSUME NEW H \in Handle, h' = [h EXCEPT ![t] = H],
             H.addr = a, ~H.remove, H.created
      PROVE  /\ h'[t] = H /\ HandleOK(t)' /\ LocksMatch'
             /\ writers' \subseteq Threads /\ readers' \subseteq Threads
  <2>1. h'[t] = H /\ \A u \in Threads \ {t} : h'[u] = h[u]
    BY <1>4 DEF TypeOK
  <2>2. HandleOK(t)'
    BY <1>1, <1>3, <1>4, <2>1 DEF HandleOK
  <2>3. LocksMatch'
    BY <1>2, <1>3, <1>4, <2>1 DEF LocksMatch, Placed
  <2> QED
    BY <1>2, <2>1, <2>2, <2>3
<1>5. CASE free # {}
  <2> DEFINE k == First(free)
             H == [h[t] EXCEPT !.created = TRUE, !.cell = k]
  <2>1. h' = [h EXCEPT ![t] = H] /\ UNCHANGED bucketVars
    BY <1>2, <1>5 DEF LockCreate, bucketVars
  <2>2. k \in 1 .. kBucketSize /\ k \in Nat /\ cells[k].addr = NoAddr
    BY <1>5, SearchesInRange
  <2> HIDE DEF k
  <2>3. H \in Handle /\ H.addr = a /\ ~H.remove /\ H.created /\ H.addidx = 0 /\ H.cell = k
    BY <1>1, <2>2 DEF Handle
  <2> HIDE DEF H, free
  <2>4. /\ h'[t] = H /\ HandleOK(t)' /\ LocksMatch'
        /\ writers' \subseteq Threads /\ readers' \subseteq Threads
    BY <1>4, <2>1, <2>3
  <2>5. CellOK(t)'
    <3>1. CellOf(t)' = cells[k]
      BY <2>1, <2>3, <2>4 DEF CellOf, bucketVars
    <3>2. a \notin Present'
      BY <1>1, <2>1 DEF Present, Embedded, Additional, bucketVars
    <3> QED
      BY <1>3, <2>2, <2>3, <2>4, <3>1, <3>2 DEF CellOK
  <2>6. \A u \in Threads \ {t} : h[u].addr = H.addr /\ H.addr \notin Contended \cup {NoAddr} => ~H.remove /\ ~h[u].remove
    BY <1>1, <2>3 DEF RemoversAlone
  <2> HIDE DEF IInv, a
  <2> QED
    BY <1>2, <2>1, <2>3, <2>4, <2>5, <2>6, QuietStep
<1>6. CASE free = {}
  <2> DEFINE k == add.size + 1
             H == [h[t] EXCEPT !.created = TRUE, !.cell = k, !.addidx = k, !.gen = gen']
  <2>1. /\ h' = [h EXCEPT ![t] = H]
        /\ add' = [cap |-> NewCap, size |-> k, cells |-> Moved(NewCap)]
        /\ gen' = IF NewCap = add.cap THEN gen ELSE gen + 1
    BY <1>6 DEF LockCreate
  <2>2. gen' \in Nat /\ k \in Nat /\ k # 0
    BY <2>1, AddTypes DEF TypeOK
  <2>3. H \in Handle /\ H.addr = a /\ ~H.remove /\ H.created /\ H.addidx = k /\ H.cell = k
        /\ H.gen = gen'
    <3> HIDE DEF k
    <3> QED
      BY <1>1, <2>2 DEF Handle
  <2>4. /\ NewCap \in Nat /\ add.size < NewCap
        /\ add.cap <= NewCap
    BY AddTypes, AddrHashMapAssumption DEF NewCap
  <2>5. /\ add'.cap = NewCap /\ add'.size = k /\ add'.cells = Moved(NewCap)
        /\ \A i \in 1 .. NewCap :
               /\ add'.cells[i] \in Cell
               /\ i <= add.size => add'.cells[i] = add.cells[i]
               /\ i > add.size => add'.cells[i].addr = NoAddr
    <3>1. add'.cap = NewCap /\ add'.size = k /\ add'.cells = Moved(NewCap)
      BY <2>1
    <3>2. FreeCell \in Cell /\ FreeCell.addr = NoAddr
      BY DEF FreeCell, Cell
    <3>3. \A i \in 1 .. add.cap : add.cells[i] \in Cell /\ (i > add.size => add.cells[i].addr = NoAddr)
      BY AddTypes DEF CellsSound
    <3> HIDE DEF H
    <3> QED
      BY <3>1, <3>2, <3>3, <2>4, AddTypes DEF Moved
  <2>6. add' \in [cap : Nat, size : 0 .. add'.cap, cells : [1 .. add'.cap -> Cell]]
    <3>1. Moved(NewCap) \in [1 .. NewCap -> Cell]
      BY <2>5 DEF Moved
    <3>2. k \in 0 .. NewCap
      BY <2>2, <2>4, AddTypes
    <3> HIDE DEF k
    <3> QED
      BY <2>1, <2>4, <2>5, <3>1, <3>2
  <2>7. \A i \in 1 .. NewCap : add'.cells[i].addr # NoAddr =>
            i \in 1 .. add.cap /\ i <= add.size /\ add'.cells[i] = add.cells[i]
    BY <2>4, <2>5, AddTypes
  <2> HIDE DEF H
  <2>8. CellsSound' /\ CellsDistinct'
    <3>1. CellsSound'
      BY <1>2, <2>5, <2>7, AddTypes DEF CellsSound
    <3>2. CellsDistinct'
      BY <1>2, <2>5, <2>7 DEF CellsDistinct
    <3> QED
      BY <3>1, <3>2
  <2>9. /\ h'[t] = H /\ HandleOK(t)' /\ LocksMatch'
        /\ writers' \subseteq Threads /\ readers' \subseteq Threads
    BY <1>4, <2>1, <2>3
  <2>10. CellOK(t)'
    <3>1. CellOf(t)'.addr = NoAddr
      BY <2>2, <2>3, <2>4, <2>5, <2>9, AddTypes DEF CellOf
    <3>2. a \notin Present'
      <4>1. \A i \in 1 .. kBucketSize : cells'[i].addr # a
        BY <1>1, <1>2, AbsentNowhere
      <4>2. \A i \in 1 .. add'.size : add'.cells[i].addr # a
        BY <1>1, <2>4, <2>5, <2>7, AbsentNowhere, AddTypes
      <4>3. cells' \in [1 .. kBucketSize -> Cell]
        BY <1>2 DEF TypeOK
      <4> HIDE DEF a
      <4> QED
        BY <4>1, <4>2, <4>3, NowhereAbsentNext
    <3>3. k \in 1 .. add'.size
      BY <2>2, <2>5, AddTypes
    <3> HIDE DEF k
    <3> QED
      BY <1>3, <2>2, <2>3, <2>9, <3>1, <3>2, <3>3 DEF CellOK
  <2> HIDE DEF IInv, a, k
  <2>11. cells' \in [1 .. kBucketSize -> Cell] /\ ~h[t].remove
    BY <1>1, <1>2 DEF TypeOK, IInv
  <2>12. H.remove = h[t].remove
    BY <1>1, <2>3 DEF Handle
  <2> QED
    BY <1>1, <1>2, <2>1, <2>2, <2>3, <2>6, <2>8, <2>9, <2>10, <2>11, <2>12, BucketStep DEF a
<1> QED
  BY <1>5, <1>6

\* A writer that lets its handle go: what is left to show is about the cells.
LEMMA WriterFinishes ==
    ASSUME IInv, Observe, NEW t \in writers, t \in Threads,
           mtx!ReleaseWrite(t), Finish(t), gen' = gen, ops' = ops,
           cells' \in [1 .. kBucketSize -> Cell],
           add' \in [cap : Nat, size : 0 .. add'.cap, cells : [1 .. add'.cap -> Cell]],
           CellsSound', CellsDistinct',
           \A u \in Placed \ {t} : h[u].addr \notin Contended =>
               cells'[h[u].cell] = cells[h[u].cell]
    PROVE  IInv'
<1>1. /\ pc' = [pc EXCEPT ![t] = "idle"] /\ h' = [h EXCEPT ![t] = NoHandle] /\ "idle" \in PCs
  BY DEF Finish, Goto, PCs
<1>2. /\ pc'[t] = "idle" /\ h'[t] = NoHandle
      /\ \A u \in Threads \ {t} : pc'[u] = pc[u] /\ h'[u] = h[u]
  BY <1>1 DEF IInv, TypeOK
<1>3. /\ NoHandle \in Handle /\ NoHandle.addr = NoAddr
      /\ ~NoHandle.created /\ ~NoHandle.remove /\ NoHandle.addidx = 0
  BY DEF NoHandle, Handle
<1>4. HandleOK(t)'
  BY <1>2, <1>3 DEF HandleOK
<1>5. writers' = {} /\ readers' = {}
  BY DEF mtx!ReleaseWrite, IInv, LocksMatch
<1>6. LocksMatch'
  BY <1>2, <1>5 DEF IInv, LocksMatch, Placed, mtx!ReleaseWrite
<1>7. gen' \in Nat
  BY DEF IInv, TypeOK
<1> QED
  BY <1>1, <1>3, <1>4, <1>5, <1>6, <1>7, BucketStep

LEMMA ReleaseCreatedStep ==
    ASSUME IInv, Observe, NEW t \in Threads, ReleaseCreated(t)
    PROVE  IInv'
<1> DEFINE a == h[t].addr
           k == h[t].cell
           c == [addr |-> a, val |-> a]
<1>0. TypeOK /\ CellsSound /\ CellsDistinct
  BY DEF IInv
<1>1. /\ pc[t] = "held" /\ h[t].created /\ t \in Placed /\ t \in writers
      /\ h[t] \in Handle /\ a \in Addrs
      /\ mtx!ReleaseWrite(t) /\ Finish(t) /\ gen' = gen /\ ops' = ops
  BY DEF ReleaseCreated, Placed, IInv, LocksMatch, TypeOK, Handle
<1>2. CellOK(t)
  BY <1>1, CellOKOfPlaced DEF IInv
<1>3. c \in Cell /\ c.addr = a /\ c.val = a /\ a # NoAddr /\ a \notin Present
  BY <1>1, <1>2, AddrHashMapAssumption DEF Cell, CellOK
<1>4. /\ \A i \in 1 .. kBucketSize : cells[i].addr # a
      /\ \A i \in 1 .. add.cap : add.cells[i].addr # a
  BY <1>0, <1>1, <1>3, AbsentNowhere
<1>5. CASE h[t].addidx = 0
  <2>1. k \in 1 .. kBucketSize /\ cells[k].addr = NoAddr
    BY <1>1, <1>2, <1>5 DEF CellOK, CellOf
  <2>2. add' = add /\ cells' = [cells EXCEPT ![k] = c]
    BY <1>5 DEF ReleaseCreated, SetEmbedded
  <2> HIDE DEF a, c, k
  <2>3. cells' \in [1 .. kBucketSize -> Cell] /\ cells'[k] = c
        /\ \A i \in 1 .. kBucketSize : i # k => cells'[i] = cells[i]
    BY <1>0, <1>3, <2>1, <2>2 DEF TypeOK
  <2>4. CellsSound'
    BY <1>0, <1>3, <2>2, <2>3 DEF CellsSound
  <2>5. CellsDistinct'
    BY <1>0, <1>3, <1>4, <2>2, <2>3 DEF CellsDistinct
  <2>6. \A u \in Placed \ {t} : h[u].addr \notin Contended =>
           cells'[h[u].cell] = cells[h[u].cell]
    <3> SUFFICES ASSUME NEW u \in Placed \ {t}, h[u].addr \notin Contended
                 PROVE  h[u].cell \in 1 .. kBucketSize \ {k}
      BY <2>3
    <3>1. h[u].cell \in 1 .. kBucketSize /\ cells[h[u].cell].addr # NoAddr
      BY <1>1, OthersEmbedded
    <3> QED
      BY <2>1, <3>1
  <2>7. add' \in [cap : Nat, size : 0 .. add'.cap, cells : [1 .. add'.cap -> Cell]]
    BY <1>0, <2>2 DEF TypeOK
  <2> QED
    BY <1>1, <2>3, <2>4, <2>5, <2>6, <2>7, WriterFinishes
<1>6. CASE h[t].addidx # 0
  <2>1. k \in 1 .. add.size /\ k \in 1 .. add.cap /\ add.cells[k].addr = NoAddr
    BY <1>0, <1>1, <1>2, <1>6, AddTypes DEF CellOK, CellOf
  <2>2. cells' = cells /\ add' = [add EXCEPT !.cells = [@ EXCEPT ![k] = c]]
    BY <1>6 DEF ReleaseCreated, SetAdditional
  <2> HIDE DEF a, c, k
  <2>3. /\ add' = [cap |-> add.cap, size |-> add.size, cells |-> [add.cells EXCEPT ![k] = c]]
        /\ add'.cap = add.cap /\ add'.size = add.size
        /\ add'.cells = [add.cells EXCEPT ![k] = c]
    BY <1>0, <2>2, AddTypes
  <2>4. /\ add'.cells \in [1 .. add.cap -> Cell] /\ add'.cells[k] = c
        /\ \A i \in 1 .. add.cap : i # k => add'.cells[i] = add.cells[i]
    BY <1>0, <1>3, <2>1, <2>3, AddTypes
  <2>5. CellsSound'
    BY <1>0, <1>3, <2>1, <2>2, <2>3, <2>4, AddTypes DEF CellsSound
  <2>6. CellsDistinct'
    BY <1>0, <1>3, <1>4, <2>2, <2>3, <2>4 DEF CellsDistinct
  <2>7. add' \in [cap : Nat, size : 0 .. add'.cap, cells : [1 .. add'.cap -> Cell]]
    BY <1>0, <2>3, <2>4, AddTypes
  <2>8. cells' \in [1 .. kBucketSize -> Cell]
    BY <1>0, <2>2 DEF TypeOK
  <2> QED
    BY <1>1, <2>2, <2>5, <2>6, <2>7, <2>8, WriterFinishes
<1> QED
  BY <1>5, <1>6

LEMMA ReleaseRemoveStep ==
    ASSUME IInv, Observe, NEW t \in Threads, ReleaseRemove(t)
    PROVE  IInv'
<1> DEFINE k == h[t].cell
<1>0. TypeOK /\ CellsSound /\ CellsDistinct
  BY DEF IInv
<1>1. /\ pc[t] = "held" /\ h[t].remove /\ ~h[t].created /\ t \in Placed /\ t \in writers
      /\ h[t] \in Handle /\ h[t].addr # NoAddr
      /\ gen' = gen /\ ops' = ops /\ gen \in Nat
  BY DEF ReleaseRemove, Placed, IInv, LocksMatch, TypeOK, HandleSteps
<1>2. /\ pc' = [pc EXCEPT ![t] = "compact"] /\ h' = [h EXCEPT ![t] = h[t]]
      /\ "compact" \in PCs /\ h' = h /\ writers' = writers /\ readers' = readers
  BY DEF ReleaseRemove, Goto, PCs, IInv, TypeOK, mtxVars
<1>3. pc'[t] = "compact" /\ \A u \in Threads \ {t} : pc'[u] = pc[u]
  BY <1>0, <1>2 DEF TypeOK
<1>4. CellOK(t)
  BY <1>1, CellOKOfPlaced DEF IInv
<1>5. HandleOK(t)'
  BY <1>1, <1>2, <1>3 DEF HandleOK
<1>6. LocksMatch' /\ writers' \subseteq Threads /\ readers' \subseteq Threads
  BY <1>1, <1>2, <1>3 DEF IInv, LocksMatch, Placed, TypeOK
<1>7. ASSUME NEW u \in Placed \ {t}, h[u].addr \notin Contended PROVE h[u].addr # h[t].addr
  BY <1>1, <1>7 DEF IInv, RemoversAlone, Placed
<1>8. CASE h[t].addidx = 0
  <2> DEFINE c == [CellOf(t) EXCEPT !.addr = NoAddr]
  <2>1. /\ k \in 1 .. kBucketSize /\ cells[k].addr = h[t].addr /\ cells[k] \in Cell
        /\ CellOf(t) = cells[k]
    BY <1>0, <1>1, <1>4, <1>8 DEF CellOK, CellOf, TypeOK, Locked
  <2>2. add' = add /\ cells' = [cells EXCEPT ![k] = c]
    BY <1>8 DEF ReleaseRemove, SetEmbedded
  <2>3. c \in Cell /\ c.addr = NoAddr
    BY <2>1 DEF Cell
  <2> HIDE DEF c, k
  <2>4. cells' \in [1 .. kBucketSize -> Cell] /\ cells'[k] = c
        /\ \A i \in 1 .. kBucketSize : i # k => cells'[i] = cells[i]
    BY <1>0, <2>1, <2>2, <2>3 DEF TypeOK
  <2>5. CellsSound'
    BY <1>0, <2>2, <2>3, <2>4 DEF CellsSound
  <2>6. CellsDistinct'
    BY <1>0, <2>2, <2>3, <2>4 DEF CellsDistinct
  <2>7. \A u \in Placed \ {t} : h[u].addr \notin Contended =>
           cells'[h[u].cell] = cells[h[u].cell]
    <3> SUFFICES ASSUME NEW u \in Placed \ {t}, h[u].addr \notin Contended
                 PROVE  h[u].cell \in 1 .. kBucketSize \ {k}
      BY <2>4
    <3>1. h[u].cell \in 1 .. kBucketSize /\ cells[h[u].cell].addr = h[u].addr
      BY <1>1, OthersEmbedded
    <3> QED
      BY <1>7, <2>1, <3>1
  <2>8. add' \in [cap : Nat, size : 0 .. add'.cap, cells : [1 .. add'.cap -> Cell]]
    BY <1>0, <2>2 DEF TypeOK
  <2>9. CellOK(t)'
    BY <1>1, <1>2, <1>3, <1>8, <2>1, <2>3, <2>4 DEF CellOK, CellOf, k
  <2> QED
    BY <1>1, <1>2, <1>5, <1>6, <2>4, <2>5, <2>6, <2>7, <2>8, <2>9, BucketStep
<1>9. CASE h[t].addidx # 0
  <2> DEFINE c == [CellOf(t) EXCEPT !.addr = NoAddr]
  <2>1. /\ k \in 1 .. add.size /\ k \in 1 .. add.cap /\ add.cells[k] \in Cell
        /\ k = h[t].addidx /\ h[t].gen = gen /\ CellOf(t) = add.cells[k]
    BY <1>0, <1>1, <1>4, <1>9, AddTypes DEF CellOK, CellOf
  <2>2. cells' = cells /\ add' = [add EXCEPT !.cells = [@ EXCEPT ![k] = c]]
    BY <1>9 DEF ReleaseRemove, SetAdditional
  <2>3. c \in Cell /\ c.addr = NoAddr
    BY <2>1 DEF Cell
  <2> HIDE DEF c, k
  <2>4. /\ add' = [cap |-> add.cap, size |-> add.size, cells |-> [add.cells EXCEPT ![k] = c]]
        /\ add'.cap = add.cap /\ add'.size = add.size
        /\ add'.cells = [add.cells EXCEPT ![k] = c]
    BY <1>0, <2>2, AddTypes
  <2>5. /\ add'.cells \in [1 .. add.cap -> Cell] /\ add'.cells[k] = c
        /\ \A i \in 1 .. add.cap : i # k => add'.cells[i] = add.cells[i]
    BY <1>0, <2>1, <2>3, <2>4, AddTypes
  <2>6. CellsSound'
    BY <1>0, <2>1, <2>2, <2>3, <2>4, <2>5, AddTypes DEF CellsSound
  <2>7. CellsDistinct'
    BY <1>0, <2>2, <2>3, <2>4, <2>5 DEF CellsDistinct
  <2>8. add' \in [cap : Nat, size : 0 .. add'.cap, cells : [1 .. add'.cap -> Cell]]
    BY <1>0, <2>4, <2>5, AddTypes
  <2>9. cells' \in [1 .. kBucketSize -> Cell]
    BY <1>0, <2>2 DEF TypeOK
  <2>10. CellOK(t)'
    BY <1>1, <1>2, <1>3, <1>9, <2>1, <2>3, <2>4, <2>5 DEF CellOK, CellOf, k
  <2> QED
    BY <1>1, <1>2, <1>5, <1>6, <2>2, <2>6, <2>7, <2>8, <2>9, <2>10, BucketStep
<1> QED
  BY <1>8, <1>9

\* What becomes of the array when its last cell is given up.
LEMMA LastRemoved ==
    ASSUME TypeOK, CellsSound, add.size # 0, NEW k \in Nat, RemoveLast(k)
    PROVE  /\ add.size \in 1 .. add.cap /\ add.cells[add.size] \in Cell
           /\ add.cells[add.size].addr # NoAddr =>
                 add.cells[add.size].val = add.cells[add.size].addr
           /\ add'.cap = add.cap /\ add'.size = add.size - 1 /\ add'.size \in Nat
           /\ add'.cells[add.size].addr = NoAddr
           /\ \A i \in 1 .. add.cap : i # add.size =>
                 add'.cells[i] = IF i = k THEN add.cells[add.size] ELSE add.cells[i]
           /\ add' \in [cap : Nat, size : 0 .. add'.cap, cells : [1 .. add'.cap -> Cell]]
<1> DEFINE n == add.size
           gone == [add.cells[n] EXCEPT !.addr = NoAddr]
           new == [i \in 1 .. add.cap |->
                      IF i = n THEN [add.cells[i] EXCEPT !.addr = NoAddr]
                      ELSE IF i = k THEN add.cells[n] ELSE add.cells[i]]
<1>1. n \in 1 .. add.cap /\ add.cells[n] \in Cell /\ n - 1 \in Nat
  BY AddTypes
<1>2. gone \in Cell /\ gone.addr = NoAddr
  BY <1>1 DEF Cell
<1>3. add.cells[n].addr # NoAddr => add.cells[n].val = add.cells[n].addr
  BY <1>1 DEF CellsSound
<1>4. /\ new[n] = gone
      /\ \A i \in 1 .. add.cap : i # n =>
             new[i] = IF i = k THEN add.cells[n] ELSE add.cells[i]
  BY <1>1
<1>5. new \in [1 .. add.cap -> Cell]
  <2>1. \A i \in 1 .. add.cap : new[i] \in Cell
    <3> HIDE DEF new, gone, n
    <3> QED
      BY <1>1, <1>2, <1>4, AddTypes
  <2> QED
    BY <2>1
<1>6. add' = [add EXCEPT !.size = n - 1, !.cells = new]
  BY DEF RemoveLast
<1> HIDE DEF new, gone
<1>7. /\ add' = [cap |-> add.cap, size |-> n - 1, cells |-> new]
      /\ add'.cap = add.cap /\ add'.size = n - 1 /\ add'.cells = new
  BY <1>6, AddTypes
<1> HIDE DEF n
<1>8. n - 1 \in 0 .. add.cap /\ add.cap \in Nat
  BY <1>1, AddTypes
<1>9. add' \in [cap : Nat, size : 0 .. add'.cap, cells : [1 .. add'.cap -> Cell]]
  BY <1>5, <1>7, <1>8
<1> QED
  BY <1>1, <1>2, <1>3, <1>4, <1>7, <1>9 DEF n

LEMMA MoveValueStep ==
    ASSUME IInv, Observe, NEW t \in Threads, MoveValue(t)
    PROVE  IInv'
<1> DEFINE k == h[t].cell
           c == AfterStores(1, cells[k], add.cells[add.size])
<1>0. TypeOK /\ CellsSound /\ CellsDistinct
  BY DEF IInv
<1>1. /\ pc[t] = "compact" /\ t \in Placed /\ t \in writers /\ h[t].remove /\ ~h[t].created
      /\ h[t].addidx = 0 /\ add.size # 0 /\ h[t] \in Handle /\ h[t].addr # NoAddr
      /\ add' = add /\ gen' = gen /\ ops' = ops /\ gen \in Nat
  BY DEF MoveValue, Placed, IInv, LocksMatch, TypeOK, HandleSteps
<1>2. /\ pc' = [pc EXCEPT ![t] = "publish"] /\ h' = [h EXCEPT ![t] = h[t]]
      /\ "publish" \in PCs /\ h' = h /\ writers' = writers /\ readers' = readers
  BY DEF MoveValue, Goto, PCs, IInv, TypeOK, mtxVars
<1>3. pc'[t] = "publish" /\ \A u \in Threads \ {t} : pc'[u] = pc[u]
  BY <1>0, <1>2 DEF TypeOK
<1>4. CellOK(t)
  BY <1>1, CellOKOfPlaced DEF IInv
<1>5. HandleOK(t)'
  BY <1>1, <1>2, <1>3 DEF HandleOK
<1>6. LocksMatch' /\ writers' \subseteq Threads /\ readers' \subseteq Threads
  BY <1>1, <1>2, <1>3 DEF IInv, LocksMatch, Placed, TypeOK
<1>7. k \in 1 .. kBucketSize /\ cells[k].addr = NoAddr /\ cells[k] \in Cell
  BY <1>0, <1>1, <1>4 DEF CellOK, CellOf, TypeOK
<1>8. c \in Cell /\ c.addr = NoAddr
  <2>1. add.cells[add.size] \in Cell
    BY <1>0, <1>1, AddTypes
  <2> QED
    BY <1>7, <2>1 DEF Cell, AfterStores
<1>9. cells' = [cells EXCEPT ![k] = c]
  BY DEF MoveValue, SetEmbedded
<1> HIDE DEF c, k
<1>10. /\ cells' \in [1 .. kBucketSize -> Cell] /\ cells'[k] = c
       /\ \A i \in 1 .. kBucketSize : i # k => cells'[i] = cells[i]
  BY <1>0, <1>7, <1>8, <1>9 DEF TypeOK
<1>11. CellsSound'
  BY <1>0, <1>1, <1>8, <1>10 DEF CellsSound
<1>12. CellsDistinct'
  BY <1>0, <1>1, <1>8, <1>10 DEF CellsDistinct
<1>13. \A u \in Placed \ {t} : h[u].addr \notin Contended =>
          cells'[h[u].cell] = cells[h[u].cell]
  <2> SUFFICES ASSUME NEW u \in Placed \ {t}, h[u].addr \notin Contended
               PROVE  h[u].cell \in 1 .. kBucketSize \ {k}
    BY <1>10
  <2>1. t \in writers
    BY <1>1
  <2>2. h[u].cell \in 1 .. kBucketSize /\ cells[h[u].cell].addr # NoAddr
    BY <2>1, OthersEmbedded
  <2> QED
    BY <1>7, <2>2
<1>14. add' \in [cap : Nat, size : 0 .. add'.cap, cells : [1 .. add'.cap -> Cell]]
  BY <1>0, <1>1 DEF TypeOK
<1>15. CellOK(t)'
  BY <1>1, <1>2, <1>3, <1>7, <1>8, <1>10 DEF CellOK, CellOf, k
<1> QED
  BY <1>1, <1>2, <1>5, <1>6, <1>10, <1>11, <1>12, <1>13, <1>14, <1>15, BucketStep

LEMMA MoveKeyStep ==
    ASSUME IInv, Observe, NEW t \in Threads, MoveKey(t)
    PROVE  IInv'
<1> DEFINE k == h[t].cell
           n == add.size
           last == add.cells[n]
<1>0. TypeOK /\ CellsSound /\ CellsDistinct
  BY DEF IInv
<1>1. /\ pc[t] = "publish" /\ t \in Placed /\ t \in writers /\ h[t].addidx = 0
      /\ mtx!ReleaseWrite(t) /\ Finish(t) /\ gen' = gen /\ ops' = ops /\ RemoveLast(0)
  BY DEF MoveKey, Placed, IInv, LocksMatch, HandleSteps
<1>2. CellOK(t)
  BY <1>1, CellOKOfPlaced DEF IInv
<1>3. k \in 1 .. kBucketSize /\ cells[k].addr = NoAddr /\ n # 0
  BY <1>1, <1>2 DEF CellOK, CellOf
<1>4. /\ n \in 1 .. add.cap /\ last \in Cell
      /\ last.addr # NoAddr => last.val = last.addr
      /\ add'.cap = add.cap /\ add'.size = n - 1 /\ n - 1 \in Nat
      /\ add'.cells[n].addr = NoAddr
      /\ \A i \in 1 .. add.cap : i # n => add'.cells[i] = add.cells[i]
      /\ add' \in [cap : Nat, size : 0 .. add'.cap, cells : [1 .. add'.cap -> Cell]]
  <2>1. 0 \in Nat /\ \A i \in 1 .. add.cap : i # 0
    BY <1>0, AddTypes
  <2> QED
    BY <1>0, <1>1, <1>3, <2>1, LastRemoved
<1>5. cells' = [cells EXCEPT ![k] = last]
  <2>1. AfterStores(2, cells[k], last) = last
    BY <1>4 DEF AfterStores, Cell
  <2> QED
    BY <2>1 DEF MoveKey, SetEmbedded
<1> HIDE DEF k, n
<1>6. /\ cells' \in [1 .. kBucketSize -> Cell] /\ cells'[k] = last
      /\ \A i \in 1 .. kBucketSize : i # k => cells'[i] = cells[i]
  <2> HIDE DEF last
  <2> QED
    BY <1>0, <1>3, <1>4, <1>5 DEF TypeOK
<1>7. CellsSound'
  <2>1. ASSUME NEW i \in 1 .. kBucketSize, cells'[i].addr # NoAddr
        PROVE  cells'[i].val = cells'[i].addr
    BY <1>0, <1>4, <1>6, <2>1 DEF CellsSound
  <2>2. ASSUME NEW i \in 1 .. add.cap, add'.cells[i].addr # NoAddr
        PROVE  i <= n - 1 /\ add'.cells[i].val = add'.cells[i].addr
    <3>1. i # n /\ add'.cells[i] = add.cells[i]
      BY <1>4, <2>2
    <3>2. i <= n /\ add'.cells[i].val = add'.cells[i].addr
      BY <1>0, <2>2, <3>1 DEF CellsSound, n
    <3> QED
      BY <1>0, <1>4, <3>1, <3>2, AddTypes DEF n
  <2> QED
    BY <1>4, <2>1, <2>2 DEF CellsSound
<1>8. CellsDistinct'
  <2>1. ASSUME NEW i \in 1 .. add.cap, i # n, last.addr # NoAddr
        PROVE  add'.cells[i].addr # last.addr
    BY <1>0, <1>4, <2>1 DEF CellsDistinct, last
  <2>2. ASSUME NEW i \in 1 .. kBucketSize, last.addr # NoAddr
        PROVE  cells[i].addr # last.addr
    BY <1>0, <1>4, <2>2 DEF CellsDistinct, last
  <2>3. ASSUME NEW i \in 1 .. kBucketSize, NEW j \in 1 .. kBucketSize,
               cells'[i].addr # NoAddr, cells'[i].addr = cells'[j].addr
        PROVE  i = j
    <3> HIDE DEF last
    <3> QED
      BY <1>0, <1>6, <2>2, <2>3 DEF CellsDistinct
  <2>4. ASSUME NEW i \in 1 .. add.cap, NEW j \in 1 .. add.cap,
               add'.cells[i].addr # NoAddr, add'.cells[i].addr = add'.cells[j].addr
        PROVE  i = j
    <3> HIDE DEF last
    <3> QED
      BY <1>0, <1>4, <2>4 DEF CellsDistinct
  <2>5. ASSUME NEW i \in 1 .. kBucketSize, NEW j \in 1 .. add.cap,
               cells'[i].addr # NoAddr
        PROVE  cells'[i].addr # add'.cells[j].addr
    <3> HIDE DEF last
    <3> QED
      BY <1>0, <1>4, <1>6, <2>1, <2>5 DEF CellsDistinct
  <2> HIDE DEF last
  <2> QED
    BY <1>4, <2>3, <2>4, <2>5 DEF CellsDistinct
<1>9. \A u \in Placed \ {t} : h[u].addr \notin Contended =>
          cells'[h[u].cell] = cells[h[u].cell]
  <2> SUFFICES ASSUME NEW u \in Placed \ {t}, h[u].addr \notin Contended
               PROVE  h[u].cell \in 1 .. kBucketSize \ {k}
    BY <1>6
  <2>1. h[u].cell \in 1 .. kBucketSize /\ cells[h[u].cell].addr # NoAddr
    BY <1>1, OthersEmbedded
  <2> QED
    BY <1>3, <2>1
<1> QED
  BY <1>1, <1>4, <1>6, <1>7, <1>8, <1>9, WriterFinishes

LEMMA CompactStep ==
    ASSUME IInv, Observe, NEW t \in Threads, Compact(t)
    PROVE  IInv'
<1> DEFINE k == h[t].cell
           n == add.size
           last == add.cells[n]
<1>0. TypeOK /\ CellsSound /\ CellsDistinct
  BY DEF IInv
<1>1. /\ pc[t] = "compact" /\ t \in Placed /\ t \in writers
      /\ mtx!ReleaseWrite(t) /\ Finish(t) /\ gen' = gen /\ ops' = ops /\ cells' = cells
  BY DEF Compact, Placed, IInv, LocksMatch, HandleSteps
<1>2. CellOK(t)
  BY <1>1, CellOKOfPlaced DEF IInv
<1>3. cells' \in [1 .. kBucketSize -> Cell]
  BY <1>0, <1>1 DEF TypeOK
<1>4. CASE h[t].addidx = 0
  <2>1. add' = add
    BY <1>4 DEF Compact
  <2>2. CellsSound' /\ CellsDistinct'
    BY <1>0, <1>1, <2>1 DEF CellsSound, CellsDistinct
  <2>3. add' \in [cap : Nat, size : 0 .. add'.cap, cells : [1 .. add'.cap -> Cell]]
    BY <1>0, <2>1 DEF TypeOK
  <2> QED
    BY <1>1, <1>3, <2>1, <2>2, <2>3, WriterFinishes
<1>5. CASE h[t].addidx # 0
  <2>1. /\ k \in 1 .. add.size /\ k \in 1 .. add.cap /\ k = h[t].addidx
        /\ add.cells[k].addr = NoAddr /\ n # 0 /\ k \in Nat
    BY <1>0, <1>1, <1>2, <1>5, AddTypes DEF CellOK, CellOf
  <2>2. RemoveLast(k)
    BY <1>5, <2>1 DEF Compact
  <2> HIDE DEF k
  <2>3. /\ n \in 1 .. add.cap /\ last \in Cell
        /\ last.addr # NoAddr => last.val = last.addr
        /\ add'.cap = add.cap /\ add'.size = n - 1 /\ n - 1 \in Nat
        /\ add'.cells[n].addr = NoAddr
        /\ \A i \in 1 .. add.cap : i # n =>
              add'.cells[i] = IF i = k THEN last ELSE add.cells[i]
        /\ add' \in [cap : Nat, size : 0 .. add'.cap, cells : [1 .. add'.cap -> Cell]]
    BY <1>0, <2>1, <2>2, LastRemoved
  <2> HIDE DEF n
  <2>4. CellsSound'
    BY <1>0, <1>1, <2>1, <2>3, AddTypes DEF CellsSound, n
  <2>5. CellsDistinct'
    <3>1. ASSUME NEW i \in 1 .. add.cap, NEW j \in 1 .. add.cap,
                 add'.cells[i].addr # NoAddr, add'.cells[i].addr = add'.cells[j].addr
          PROVE  i = j
      BY <1>0, <2>1, <2>3, <3>1 DEF CellsDistinct, last
    <3>2. ASSUME NEW i \in 1 .. kBucketSize, NEW j \in 1 .. add.cap,
                 cells[i].addr # NoAddr
          PROVE  cells[i].addr # add'.cells[j].addr
      BY <1>0, <2>1, <2>3, <3>2 DEF CellsDistinct, last
    <3> HIDE DEF last
    <3> QED
      BY <1>0, <1>1, <2>3, <3>1, <3>2 DEF CellsDistinct
  <2> QED
    BY <1>1, <1>3, <2>3, <2>4, <2>5, WriterFinishes
<1> QED
  BY <1>4, <1>5

\* Only a handle without the mutex can find its cell changed.
LEMMA CheckFailsStep ==
    ASSUME IInv, Observe, NEW t \in Threads, CheckFails(t)
    PROVE  IInv'
<1> USE DEF IInv
<1>1. pc[t] = "held" /\ t \in Placed /\ ~CheckPasses(t) /\ h[t] \in Handle /\ h[t].addr # NoAddr
  BY DEF CheckFails, Placed, TypeOK
<1>2. ~h[t].created /\ ~h[t].remove /\ h[t].addidx = 0
  <2>1. CellOK(t)
    BY <1>1, CellOKOfPlaced
  <2> QED
    BY <1>1, <2>1 DEF CellOK, CheckPasses, Locked
<1>3. t \notin writers /\ t \notin readers
  BY <1>2 DEF LocksMatch
<1>4. /\ UNCHANGED bucketVars /\ UNCHANGED mtxVars /\ ops' \in [Threads -> 0 .. MaxOps]
      /\ pc' = [pc EXCEPT ![t] = "died"] /\ h' = [h EXCEPT ![t] = h[t]] /\ "died" \in PCs
  BY DEF CheckFails, Goto, PCs, TypeOK
<1>5. /\ pc'[t] = "died" /\ h'[t] = h[t]
      /\ \A u \in Threads \ {t} : pc'[u] = pc[u] /\ h'[u] = h[u]
  BY <1>4 DEF TypeOK
<1>6. HandleOK(t)'
  BY <1>1, <1>2, <1>5 DEF HandleOK
<1>7. LocksMatch' /\ writers' \subseteq Threads /\ readers' \subseteq Threads
  BY <1>2, <1>3, <1>4, <1>5, LocksKept
<1>8. \A u \in Threads \ {t} :
          h[u].addr = h[t].addr /\ h[t].addr \notin Contended \cup {NoAddr} => ~h[t].remove /\ ~h[u].remove
  BY DEF RemoversAlone
<1> HIDE DEF IInv
<1> QED
  BY <1>1, <1>4, <1>6, <1>7, <1>8, QuietStep

-----------------------------------------------------------------------------
(* The theorems *)

LEMMA NextIInv == IInv /\ [Next]_vars => IInv'
<1> SUFFICES ASSUME IInv, [Next]_vars PROVE IInv'
  OBVIOUS
<1>1. CASE Next
  <2>1. PICK t \in Threads : Open(t) \/ Call(t)
    BY <1>1 DEF Next
  <2>2. Observe
    BY <1>1 DEF Next
  <2>3. CASE Open(t)
    BY <2>2, <2>3, AcquireStep DEF Open
  <2>4. CASE Call(t)
    BY <2>2, <2>4, ProbeStep, LoadAddStep, ReadLockStep, LockFoundStep, LockAbsentStep,
       LockCreateStep, ReleaseCreatedStep, ReleaseRemoveStep, MoveValueStep, MoveKeyStep,
       CompactStep, ReleaseFoundStep, CheckFailsStep DEF Call
  <2> QED
    BY <2>1, <2>3, <2>4
<1>2. CASE UNCHANGED vars
  <2>1. /\ UNCHANGED <<cells, add, gen, writers, readers, pc, h, ops, sawAbsent>>
    BY <1>2 DEF vars, bucketVars, mtxVars
  <2>2. TypeOK' /\ HandleSteps' /\ RemoversAlone'
    BY <2>1 DEF IInv, TypeOK, HandleSteps, RemoversAlone
  <2>3. LocksMatch' /\ CellsSound' /\ CellsDistinct'
    BY <2>1 DEF IInv, LocksMatch, Placed, CellsSound, CellsDistinct
  <2>4. HandleCells' /\ GapsFree' /\ HandleKeepsElement' /\ AbsenceSeen'
    BY <2>1 DEF IInv, HandleCells, GapsFree, HandleKeepsElement, AbsenceSeen, Placed,
                Holders, CellOf, Locked, Present, Embedded, Additional
  <2> QED
    BY <2>2, <2>3, <2>4 DEF IInv
<1> QED
  BY <1>1, <1>2

LEMMA Invariance == Spec => []IInv
BY InitIInv, NextIInv, PTL DEF Spec

\* The types of the bucket, the handles and the mutex, for every instance.
THEOREM TypeCorrect == Spec => []TypeOK
BY Invariance, PTL DEF IInv

\* A handle keeps its element: while a thread holds one with the mutex, or
\* without it and nobody removes what is in use, no create, remove or move beside it
\* changes its cell (the CHECK_EQs of release).
THEOREM HandlesKeepElements == Spec => []HandleKeepsElement
BY Invariance, PTL DEF IInv

\* No handle points into an array that a growing create has freed.
THEOREM HandlesPointToLiveArray == Spec => []HandlePointsToLiveArray
<1>1. IInv => HandlePointsToLiveArray
  <2> SUFFICES ASSUME IInv, NEW t \in Holders, h[t].addidx # 0
               PROVE  h[t].gen = gen /\ h[t].cell <= add.size
    BY DEF HandlePointsToLiveArray
  <2>1. t \in Placed /\ add.size \in Nat
    BY AddTypes DEF Holders, Placed, IInv
  <2>2. h[t].gen = gen /\ h[t].cell \in 1 .. add.size
    BY <2>1 DEF IInv, HandleCells
  <2> QED
    BY <2>1, <2>2
<1> QED
  BY <1>1, Invariance, PTL

LEMMA AtMostOne ==
    ASSUME NEW S, \A x, y \in S : x = y
    PROVE  /\ Cardinality(S) \in Nat /\ Cardinality(S) <= 1
           /\ S = {} => Cardinality(S) = 0
<1>1. CASE S = {}
  BY <1>1, FS_EmptySet
<1>2. CASE S # {}
  <2>1. PICK x : S = {x}
    BY <1>2
  <2> QED
    BY <1>2, <2>1, FS_Singleton
<1> QED
  BY <1>1, <1>2

\* An element is never in two cells, whoever creates, removes and moves.
THEOREM ElementsUnique == Spec => []NoDuplicates
<1>1. ASSUME IInv, NEW a \in Addrs
      PROVE  Cardinality(Embedded(a)) + Cardinality(Additional(a)) <= 1
  <2>1. /\ TypeOK /\ CellsDistinct /\ a # NoAddr
        /\ Embedded(a) \in SUBSET (1 .. kBucketSize)
        /\ Additional(a) \in SUBSET (1 .. add.cap)
    BY <1>1, SearchesInRange, AddTypes, AddrHashMapAssumption DEF IInv
  <2>2. \A i, j \in Embedded(a) : i = j
    BY <2>1 DEF CellsDistinct, Embedded
  <2>3. \A i, j \in Additional(a) : i = j
    BY <2>1 DEF CellsDistinct, Additional
  <2>4. Embedded(a) = {} \/ Additional(a) = {}
    BY <2>1 DEF CellsDistinct, Embedded, Additional
  <2> HIDE DEF Embedded, Additional
  <2> QED
    BY <2>2, <2>3, <2>4, AtMostOne
<1>2. IInv => NoDuplicates
  BY <1>1 DEF NoDuplicates
<1> QED
  BY <1>2, Invariance, PTL

\* The thread that creates an element is the only one with a handle on it, unless
\* the element is one that callers remove while it is in use.
THEOREM CreatorAlone == Spec => []CreatorIsExclusive
<1>1. ASSUME IInv, NEW t \in Holders, NEW u \in Holders,
             h[t].created, h[u].addr = h[t].addr, h[t].addr \notin Contended
      PROVE  u = t
  <2> SUFFICES ASSUME u # t PROVE FALSE
    OBVIOUS
  <2>1. t \in Threads /\ t \in Placed /\ u \in Placed \ {t} /\ t \in writers
    BY <1>1 DEF IInv, LocksMatch, Placed, Holders
  <2>2. h[u].cell \in 1 .. kBucketSize /\ cells[h[u].cell].addr = h[t].addr
        /\ h[u].addr # NoAddr
    BY <1>1, <2>1, OthersEmbedded
  <2>3. h[t].addr \in Addrs /\ h[t].addr \notin Present
    BY <1>1, <2>1, <2>2 DEF IInv, GapsFree, TypeOK, Handle
  <2> QED
    BY <1>1, <2>2, <2>3, AbsentNowhere DEF IInv
<1>2. IInv => CreatorIsExclusive
  BY <1>1 DEF CreatorIsExclusive
<1> QED
  BY <1>2, Invariance, PTL

\* A call answers that an element does not exist only if there was a moment
\* during the call when it did not, whatever moved meanwhile.
THEOREM NotFoundTrue == Spec => NotFoundIsTrue
<1>1. ASSUME IInv, Next, NEW t \in Threads, pc[t] = "lock", pc'[t] = "idle"
      PROVE  sawAbsent[t]
  <2>1. PICK u \in Threads : Open(u) \/ Call(u)
    BY <1>1 DEF Next
  <2>2. pc \in [Threads -> PCs]
    BY <1>1 DEF IInv, TypeOK
  <2>3. LockAbsent(t)
    <3>1. \E p \in PCs : pc' = [pc EXCEPT ![u] = p]
      BY <2>1 DEF Open, Call, Acquire, Probe, LoadAdd, ReadLock, LockFound, LockAbsent,
                  LockCreate, ReleaseCreated, ReleaseRemove, MoveValue, MoveKey, Compact,
                  ReleaseFound, CheckFails, Finish, Goto, PCs
    <3>2. u = t
      BY <1>1, <2>2, <3>1
    <3>3. \A p \in PCs : pc' = [pc EXCEPT ![t] = p] => p = "idle"
      BY <1>1, <2>2
    <3> QED
      BY <1>1, <2>1, <2>2, <3>2, <3>3
         DEF Open, Call, Acquire, Probe, LoadAdd, ReadLock, LockFound, LockCreate,
             ReleaseCreated, ReleaseRemove, MoveValue, MoveKey, Compact, ReleaseFound,
             CheckFails, Goto, PCs
  <2> QED
    BY <1>1, <2>3 DEF LockAbsent, IsAbsent, IInv, AbsenceSeen, TypeOK
<1>2. IInv /\ [Next]_vars =>
        [\A t \in Threads : pc[t] = "lock" /\ pc'[t] = "idle" => sawAbsent[t]]_vars
  BY <1>1
<1> QED
  BY <1>2, Invariance, PTL DEF Spec, NotFoundIsTrue
=============================================================================
