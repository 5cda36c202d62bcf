---------------------------- MODULE FutureProofs -----------------------------
(***************************************************************************)
(* Proofs about sync2.Future: the type invariant, and that the map Wait   *)
(* returns holds every worker's key, for any finite set of workers.       *)
(***************************************************************************)
EXTENDS Future, FiniteSetTheorems, TLAPS

USE FutureAssumption

\* The workers whose Done has passed f.wait.Done().
Signalled == {w \in Workers : wpc[w] \in {"unlock", "done"}}

\* The workers inside Done's critical section.
InDone == {w \in Workers : wpc[w] \in {"init", "make", "store", "signal", "unlock"}}

(* The inductive strengthening.  The WaitGroup counts the workers added   *)
(* and not yet signalled; the mutex is held by whoever is inside a        *)
(* critical section; a lazyInit that found f.vmap nil still finds it nil  *)
(* when it makes the map, so there is only ever one map; a worker past    *)
(* its store has its key in that map, and only added workers' keys are   *)
(* stored; and Wait is past f.wait.Wait() only when every added worker    *)
(* has signalled.                                                          *)
Counted ==
  /\ \A w \in Workers : wpc[w] # "new" => w \in added
  /\ cpc = "go" => next \in added /\ wpc[next] = "new"
  /\ wg = Cardinality(added \ Signalled)

Exclusive ==
  /\ \A w \in InDone : mu = w
  /\ cpc \in {"init", "make", "read"} => mu = Caller
  /\ mu \in Workers => mu \in InDone
  /\ mu = Caller => cpc \in {"init", "make", "read"}

OneMap ==
  /\ nmaps \in 0 .. 1
  /\ vmap = nmaps
  /\ \A w \in Workers : wpc[w] = "make" => vmap = 0
  /\ cpc = "make" => vmap = 0
  /\ \A w \in Workers : wpc[w] \in {"store", "signal", "unlock", "done"} => vmap # 0
  /\ cpc \in {"read", "done"} => vmap # 0

Stored ==
  /\ \A w \in Workers : wpc[w] \in {"signal", "unlock", "done"} => w \in contents[vmap]
  /\ \A m \in Maps : contents[m] \subseteq added
  /\ cpc \in {"lock", "init", "make", "read", "done"} => Signalled = added
  /\ cpc = "done" => res = vmap

IInv == TypeOK /\ Counted /\ Exclusive /\ OneMap /\ Stored
-----------------------------------------------------------------------------
LEMMA MaxMapsPositive == MaxMaps \in Nat \ {0}
BY FS_CardinalityType DEF MaxMaps

LEMMA AddedFinite == ASSUME NEW S \in SUBSET Workers PROVE IsFiniteSet(S)
BY FS_Subset

LEMMA InitIInv == Init => IInv
<1> SUFFICES ASSUME Init PROVE IInv
  OBVIOUS
<1>1. TypeOK
  BY MaxMapsPositive DEF Init, TypeOK, Maps, Goroutines
<1>2. Signalled = {} /\ InDone = {}
  BY DEF Init, Signalled, InDone
<1>3. Counted
  BY <1>2, FS_EmptySet DEF Init, Counted
<1> QED
  BY <1>1, <1>2, <1>3 DEF Init, IInv, Exclusive, OneMap, Stored

\* One step of a worker w keeps the invariant.
LEMMA WorkerIInv ==
  ASSUME IInv, NEW w \in Workers, Worker(w)
  PROVE  IInv'
<1> USE MaxMapsPositive
<1>1. CASE DoneLock(w)
  <2>1. mu = NoG /\ w \notin InDone /\ mu' = w /\ InDone' = InDone \cup {w}
    BY <1>1 DEF DoneLock, LockFree, Lock, InDone, IInv, TypeOK
  <2>2. Signalled' = Signalled
    BY <1>1 DEF DoneLock, Signalled, IInv, TypeOK
  <2>3. TypeOK'
    BY <1>1 DEF DoneLock, Lock, IInv, TypeOK, Goroutines
  <2>4. Counted'
    BY <1>1, <2>2 DEF DoneLock, IInv, Counted
  <2>5. InDone = {} /\ cpc \notin {"init", "make", "read"}
    BY <2>1 DEF IInv, Exclusive, InDone
  <2>7. Exclusive'
    <3>1. \A x \in InDone' : mu' = x
      BY <2>1, <2>5
    <3>2. mu' \in Workers /\ mu' \in InDone'
      BY <2>1
    <3> QED
      BY <1>1, <3>1, <3>2, <2>5 DEF DoneLock, Exclusive
  <2>6. OneMap' /\ Stored'
    BY <1>1, <2>2 DEF DoneLock, IInv, TypeOK, OneMap, Stored
  <2> QED
    BY <2>3, <2>4, <2>7, <2>6 DEF IInv
<1>2. CASE DoneInit(w)
  <2>1. Signalled' = Signalled /\ InDone' = InDone
    BY <1>2 DEF DoneInit, Signalled, InDone, IInv, TypeOK
  <2> QED
    BY <1>2, <2>1 DEF DoneInit, IInv, TypeOK, Counted, Exclusive, OneMap, Stored, InDone
<1>3. CASE DoneMake(w)
  <2>1. Signalled' = Signalled /\ InDone' = InDone
    BY <1>3 DEF DoneMake, Signalled, InDone, IInv, TypeOK
  <2>2. vmap = 0 /\ nmaps = 0 /\ vmap' = 1 /\ nmaps' = 1
    BY <1>3 DEF DoneMake, MakeMap, IInv, OneMap
  <2>3. \A x \in Workers : x # w => wpc[x] \notin {"store", "signal", "unlock", "done", "make"}
    BY <1>3, <2>2 DEF DoneMake, IInv, OneMap, Exclusive, InDone
  <2>4. TypeOK'
    BY <1>3, <2>2 DEF DoneMake, MakeMap, IInv, TypeOK, Maps
  <2>5. cpc \notin {"make", "read", "done"}
    BY <1>3, <2>2 DEF DoneMake, IInv, OneMap, Exclusive, InDone
  <2>6. cpc \notin {"lock", "init"}
    BY <1>3 DEF DoneMake, IInv, Stored, Signalled, Counted
  <2>7. Counted' /\ Exclusive'
    BY <1>3, <2>1 DEF DoneMake, MakeMap, IInv, Counted, Exclusive
  <2>8. OneMap'
    BY <1>3, <2>2, <2>3, <2>5 DEF DoneMake, MakeMap, IInv, OneMap, TypeOK
  <2>9. Stored'
    BY <1>3, <2>1, <2>2, <2>3, <2>5, <2>6 DEF DoneMake, MakeMap, IInv, Stored, TypeOK
  <2> QED
    BY <2>4, <2>7, <2>8, <2>9 DEF IInv
<1>4. CASE DoneStore(w)
  <2>1. Signalled' = Signalled /\ InDone' = InDone
    BY <1>4 DEF DoneStore, Signalled, InDone, IInv, TypeOK
  <2>2. vmap \in Maps
    BY <1>4 DEF DoneStore, IInv, OneMap, Maps
  <2>3. w \in added
    BY <1>4 DEF DoneStore, IInv, Counted
  <2> QED
    BY <1>4, <2>1, <2>2, <2>3 DEF DoneStore, IInv, TypeOK, Counted, Exclusive, OneMap, Stored
<1>5. CASE DoneSignal(w)
  <2>1. InDone' = InDone /\ Signalled' = Signalled \cup {w} /\ w \notin Signalled
    BY <1>5 DEF DoneSignal, Signalled, InDone, IInv, TypeOK
  <2>2. w \in added
    BY <1>5 DEF DoneSignal, IInv, Counted
  <2>3. IsFiniteSet(added \ Signalled) /\ Cardinality(added \ Signalled) \in Nat
    BY AddedFinite, FS_CardinalityType DEF IInv, TypeOK
  <2>4. (added \ Signalled') = (added \ Signalled) \ {w}
    BY <2>1
  <2>5. Cardinality(added \ Signalled') = Cardinality(added \ Signalled) - 1
    BY <2>1, <2>2, <2>3, <2>4, FS_RemoveElement
  <2>6. Cardinality(added \ Signalled) > 0
    BY <2>1, <2>2, <2>3, FS_EmptySet
  <2>7. Counted'
    BY <1>5, <2>5, <2>6, <2>3 DEF DoneSignal, WgDone, IInv, Counted
  <2>8. cpc \notin {"lock", "init", "make", "read", "done"}
    BY <1>5, <2>1, <2>2 DEF DoneSignal, IInv, Stored
  <2>9. TypeOK'
    BY <1>5, <2>3, <2>5, <2>6, <2>7 DEF DoneSignal, WgDone, IInv, TypeOK, Counted
  <2>10. Exclusive' /\ OneMap'
    BY <1>5, <2>1 DEF DoneSignal, IInv, TypeOK, Exclusive, OneMap
  <2>11. Stored'
    BY <1>5, <2>8 DEF DoneSignal, IInv, TypeOK, Stored
  <2> QED
    BY <2>7, <2>9, <2>10, <2>11 DEF IInv
<1>6. CASE DoneUnlock(w)
  <2>1. InDone' = InDone \ {w} /\ Signalled' = Signalled
    BY <1>6 DEF DoneUnlock, Signalled, InDone, IInv, TypeOK
  <2>2. \A x \in InDone : x = w
    BY <1>6 DEF DoneUnlock, IInv, Exclusive, InDone
  <2>3. cpc \notin {"init", "make", "read"}
    BY <1>6 DEF DoneUnlock, IInv, Exclusive, InDone
  <2> QED
    BY <1>6, <2>1, <2>2, <2>3 DEF DoneUnlock, IInv, TypeOK, Counted, Exclusive, OneMap, Stored
<1> QED
  BY <1>1, <1>2, <1>3, <1>4, <1>5, <1>6 DEF Worker

\* One step of the caller keeps the invariant.
LEMMA CallerIInv ==
  ASSUME IInv, CallerStep
  PROVE  IInv'
<1> USE MaxMapsPositive
<1>1. CASE \E w \in Workers : Add(w)
  <2>1. PICK w \in Workers : Add(w)
    BY <1>1
  <2>2. wpc[w] = "new" /\ w \notin Signalled
    BY <2>1 DEF Add, IInv, Counted, Signalled
  <2>3. Signalled' = Signalled /\ InDone' = InDone
    BY <2>1 DEF Add, Signalled, InDone
  <2>4. IsFiniteSet(added \ Signalled) /\ Cardinality(added \ Signalled) \in Nat
    BY AddedFinite, FS_CardinalityType DEF IInv, TypeOK
  <2>5. (added' \ Signalled') = (added \ Signalled) \cup {w} /\ w \notin added \ Signalled
    BY <2>1, <2>2, <2>3 DEF Add
  <2>6. Cardinality(added' \ Signalled') = Cardinality(added \ Signalled) + 1
    BY <2>4, <2>5, FS_AddElement
  <2>7. Counted'
    BY <2>1, <2>2, <2>6 DEF Add, AddDelta, IInv, Counted
  <2>8. TypeOK'
    BY <2>1, <2>4, <2>6 DEF Add, AddDelta, IInv, TypeOK, Counted
  <2>9. mu # Caller
    BY <2>1 DEF Add, IInv, Exclusive
  <2> QED
    BY <2>1, <2>3, <2>7, <2>8, <2>9 DEF Add, IInv, Exclusive, OneMap, Stored
<1>2. CASE Go
  <2>1. Signalled' = Signalled /\ InDone' = InDone
    BY <1>2 DEF Go, Signalled, InDone, IInv, TypeOK, Counted
  <2> QED
    BY <1>2, <2>1 DEF Go, IInv, TypeOK, Counted, Exclusive, OneMap, Stored
<1>3. CASE WaitGroupWait
  <2>1. IsFiniteSet(added \ Signalled)
    BY AddedFinite DEF IInv, TypeOK
  <2>2. added \ Signalled = {}
    BY <1>3, <2>1, FS_EmptySet DEF WaitGroupWait, IInv, Counted
  <2>3. Signalled = added
    BY <2>2 DEF Signalled, IInv, Counted
  <2> QED
    BY <1>3, <2>3 DEF WaitGroupWait, IInv, TypeOK, Counted, Exclusive, OneMap, Stored,
                      Signalled, InDone
<1>4. CASE WaitLock
  <2>1. InDone = {}
    BY <1>4 DEF WaitLock, LockFree, IInv, Exclusive, InDone
  <2> QED
    BY <1>4, <2>1 DEF WaitLock, LockFree, Lock, IInv, TypeOK, Counted, Exclusive, OneMap,
                      Stored, Goroutines, Signalled, InDone
<1>5. CASE WaitInit
  BY <1>5 DEF WaitInit, IInv, TypeOK, Counted, Exclusive, OneMap, Stored, Signalled, InDone
<1>6. CASE WaitMake
  <2>1. vmap = 0 /\ nmaps = 0 /\ vmap' = 1 /\ nmaps' = 1
    BY <1>6 DEF WaitMake, MakeMap, IInv, OneMap
  <2>2. \A x \in Workers : wpc[x] \notin {"store", "signal", "unlock", "done"}
    BY <1>6, <2>1 DEF WaitMake, IInv, OneMap
  <2>3. TypeOK'
    BY <1>6, <2>1 DEF WaitMake, MakeMap, IInv, TypeOK, Maps
  <2> QED
    BY <1>6, <2>1, <2>2, <2>3 DEF WaitMake, MakeMap, IInv, Counted, Exclusive, OneMap, Stored,
                                  Signalled, InDone
<1>7. CASE WaitRead
  <2>1. InDone = {}
    BY <1>7 DEF WaitRead, IInv, Exclusive, InDone
  <2> QED
    BY <1>7, <2>1 DEF WaitRead, IInv, TypeOK, Counted, Exclusive, OneMap, Stored,
                      Signalled, InDone
<1> QED
  BY <1>1, <1>2, <1>3, <1>4, <1>5, <1>6, <1>7 DEF CallerStep

LEMMA NextIInv == IInv /\ [Next]_vars => IInv'
<1> SUFFICES ASSUME IInv, [Next]_vars PROVE IInv'
  OBVIOUS
<1>1. CASE CallerStep
  BY <1>1, CallerIInv
<1>2. CASE \E w \in Workers : Worker(w)
  BY <1>2, WorkerIInv
<1>3. CASE UNCHANGED vars
  BY <1>3 DEF vars, IInv, TypeOK, Counted, Exclusive, OneMap, Stored, Signalled, InDone,
              Goroutines, Maps, MaxMaps
<1> QED
  BY <1>1, <1>2, <1>3 DEF Next

\* sync2.Future's state keeps its types: the WaitGroup counter never goes
\* negative and f.vmap is nil or the one map.
THEOREM FutureTypeCorrect == Spec => []TypeOK
<1>1. IInv => TypeOK
  BY DEF IInv
<1> QED
  BY <1>1, InitIInv, NextIInv, PTL DEF Spec

\* For every finite set of workers, the map f.Wait() returns holds exactly
\* the keys of the goroutines the caller ran f.Add() for.
THEOREM WaitSeesEveryDoneHolds == Spec => []WaitSeesEveryDone
<1>1. IInv => WaitSeesEveryDone
  <2> SUFFICES ASSUME IInv, cpc = "done" PROVE contents[res] = added
    BY DEF WaitSeesEveryDone
  <2>1. res = vmap /\ vmap = 1 /\ Signalled = added
    BY DEF IInv, Stored, OneMap
  <2>2. \A w \in added : w \in contents[res]
    BY <2>1 DEF IInv, Stored, Signalled, TypeOK
  <2>3. contents[res] \subseteq added
    BY <2>1, MaxMapsPositive DEF IInv, Stored, Maps
  <2> QED
    BY <2>2, <2>3
<1> QED
  BY <1>1, InitIInv, NextIInv, PTL DEF Spec

=============================================================================
