-------------------- MODULE SharedBackendConnPoolProofs --------------------
(***************************************************************************)
(* Proofs about the shared backend pool of module SharedBackendConnPool,  *)
(* for every value of its constants.                                      *)
(***************************************************************************)
EXTENDS SharedBackendConnPool, FiniteSetTheorems, TLAPS

USE PoolAssumption

(* MapPointsToLive is not inductive by itself: a Retain through a held or *)
(* kept pointer must not revive a closed object, and the object numbered  *)
(* nobj + 1 that the next creation uses must be fresh.                    *)
EntriesLive ==
  \A a \in Addrs : pool[a] # NoObj => addrOf[pool[a]] = a /\ refcnt[pool[a]] > 0

ClosedStayClosed == \A o \in Objs : closedW[o] => refcnt[o] = 0

FreshAboveNobj == \A o \in Objs : o > nobj => refcnt[o] = 0 /\ ~closedW[o]

IInv == TypeOK /\ EntriesLive /\ ClosedStayClosed /\ FreshAboveNobj

LEMMA InitIInv == Init => IInv
<1> SUFFICES ASSUME Init PROVE IInv
  OBVIOUS
<1>1. conn \in [Objs -> [DBs -> [Idx -> BOOLEAN]]]
  BY DEF Init
<1>2. nobj \in 0 .. MaxObjs /\ refcnt \in [Objs -> Nat]
  BY DEF Init
<1>3. pool \in [Addrs -> Objs \cup {NoObj}] /\ addrOf \in [Objs -> Addrs \cup {NoAddr}]
  BY DEF Init
<1>4. held \in [Holders -> Objs \cup {NoObj}] /\ stale \in [Holders -> Objs \cup {NoObj}]
  BY DEF Init
<1>5. TypeOK
  BY <1>1, <1>2, <1>3, <1>4 DEF Init, TypeOK
<1>6. QED
  BY <1>5 DEF Init, IInv, EntriesLive, ClosedStayClosed, FreshAboveNobj

(* A Release or StaleRelease of object o keeps the invariant: a count that *)
(* reaches zero closes o and deletes the one entry that can point to it.  *)
LEMMA SharedReleaseIInv ==
  ASSUME IInv, NEW o \in Objs, SharedRelease(o),
         UNCHANGED <<nobj, addrOf, conn>>,
         held' \in [Holders -> Objs \cup {NoObj}],
         stale' \in [Holders -> Objs \cup {NoObj}],
         misused' \in BOOLEAN
  PROVE  IInv'
<1> USE DEF IInv, TypeOK
<1>1. CASE Closed(o)
  BY <1>1 DEF SharedRelease, EntriesLive, ClosedStayClosed, FreshAboveNobj
<1>2. CASE ~Closed(o) /\ refcnt[o] = 1
  <2>1. refcnt' = [refcnt EXCEPT ![o] = 0] /\ closedW' = [closedW EXCEPT ![o] = TRUE]
        /\ pool' = [pool EXCEPT ![addrOf[o]] = NoObj] /\ panicked' = panicked
    BY <1>2 DEF SharedRelease, LastReference, DeleteEntry, Closed
  <2>2. \A a \in Addrs : pool[a] = o => a = addrOf[o]
    BY DEF EntriesLive, Objs
  <2>3. TypeOK'
    BY <2>1
  <2>4. EntriesLive'
    BY <2>1, <2>2 DEF EntriesLive
  <2>5. ClosedStayClosed' /\ FreshAboveNobj'
    BY <1>2, <2>1 DEF ClosedStayClosed, FreshAboveNobj, Closed
  <2>6. QED
    BY <2>3, <2>4, <2>5
<1>3. CASE ~Closed(o) /\ refcnt[o] # 1
  <2>1. refcnt' = [refcnt EXCEPT ![o] = @ - 1] /\ refcnt[o] > 1
        /\ UNCHANGED <<closedW, pool, panicked>>
    BY <1>3 DEF SharedRelease, LastReference, Closed
  <2>2. QED
    BY <2>1 DEF EntriesLive, ClosedStayClosed, FreshAboveNobj
<1>4. QED
  BY <1>1, <1>2, <1>3

(* s.Retain() on object o, by the pool's Retain or through a holder's     *)
(* pointer, keeps the invariant: it panics on a closed object.            *)
LEMMA SharedRetainIInv ==
  ASSUME IInv, NEW o \in Objs, NEW h \in Holders, SharedRetain(o, h),
         UNCHANGED <<pool, nobj, addrOf, closedW, conn, stale, misused>>
  PROVE  IInv'
<1> USE DEF IInv, TypeOK
<1>1. CASE Closed(o)
  BY <1>1 DEF SharedRetain, EntriesLive, ClosedStayClosed, FreshAboveNobj
<1>2. CASE ~Closed(o)
  <2>1. refcnt' = [refcnt EXCEPT ![o] = @ + 1] /\ held' = [held EXCEPT ![h] = o]
        /\ panicked' = panicked /\ refcnt[o] > 0
    BY <1>2 DEF SharedRetain, Closed
  <2>2. o <= nobj
    BY <2>1 DEF FreshAboveNobj, Objs
  <2>3. QED
    BY <2>1, <2>2 DEF EntriesLive, ClosedStayClosed, FreshAboveNobj, Objs
<1>3. QED
  BY <1>1, <1>2

LEMMA NextIInv == IInv /\ [Next]_vars => IInv'
<1> SUFFICES ASSUME IInv, [Next]_vars PROVE IInv'
  OBVIOUS
<1> USE DEF IInv, TypeOK
<1>1. ASSUME NEW h \in Holders, NEW a \in Addrs, PoolRetain(h, a) PROVE IInv'
  <2>1. CASE pool[a] # NoObj
    <3>1. pool[a] \in Objs /\ SharedRetain(pool[a], h)
          /\ UNCHANGED <<pool, nobj, addrOf, closedW, conn, stale, misused>>
      BY <1>1, <2>1 DEF PoolRetain
    <3>2. QED
      BY <3>1, SharedRetainIInv
  <2>2. CASE pool[a] = NoObj
    <3> DEFINE o == nobj + 1
    <3>1. /\ nobj < MaxObjs /\ nobj' = o /\ o \in Objs
          /\ addrOf' = [addrOf EXCEPT ![o] = a]
          /\ refcnt' = [refcnt EXCEPT ![o] = 1]
          /\ pool' = [pool EXCEPT ![a] = o]
          /\ held' = [held EXCEPT ![h] = o]
          /\ UNCHANGED <<closedW, conn, panicked, stale, misused>>
      BY <1>1, <2>2 DEF PoolRetain, NewSharedBackendConn, Objs
    <3>2. refcnt[o] = 0 /\ ~closedW[o]
      BY <3>1 DEF FreshAboveNobj
    <3>3. \A b \in Addrs : pool[b] # o
      <4> SUFFICES ASSUME NEW b \in Addrs, pool[b] = o PROVE FALSE
        OBVIOUS
      <4>1. o # NoObj
        BY <3>1 DEF Objs
      <4>2. refcnt[o] > 0
        BY <4>1 DEF EntriesLive
      <4>3. QED
        BY <3>2, <4>2
    <3>4. TypeOK'
      BY <3>1 DEF Objs
    <3>5. EntriesLive'
      BY <3>1, <3>3 DEF EntriesLive
    <3>6. ClosedStayClosed' /\ FreshAboveNobj'
      BY <3>1, <3>2 DEF ClosedStayClosed, FreshAboveNobj, Objs
    <3>7. QED
      BY <3>4, <3>5, <3>6
  <2>3. QED
    BY <2>1, <2>2
<1>2. ASSUME NEW h1 \in Holders, NEW h2 \in Holders, ShareRetain(h1, h2) PROVE IInv'
  BY <1>2, SharedRetainIInv DEF ShareRetain
<1>3. ASSUME NEW h \in Holders, Release(h) PROVE IInv'
  BY <1>3, SharedReleaseIInv DEF Release
<1>4. ASSUME NEW h \in Holders, StaleRelease(h) PROVE IInv'
  BY <1>4, SharedReleaseIInv DEF StaleRelease
<1>5. ASSUME NEW o \in Objs, NEW d \in DBs, NEW i \in Idx,
             WorkerUp(o, d, i) \/ WorkerDown(o, d, i)
      PROVE IInv'
  <2>1. conn' \in [Objs -> [DBs -> [Idx -> BOOLEAN]]]
    <3>1. CASE WorkerUp(o, d, i)
      BY <3>1 DEF WorkerUp
    <3>2. CASE WorkerDown(o, d, i)
      BY <3>2 DEF WorkerDown
    <3>3. QED
      BY <1>5, <3>1, <3>2
  <2>2. UNCHANGED <<pool, nobj, addrOf, refcnt, closedW, held, stale, panicked, misused>>
    BY <1>5 DEF WorkerUp, WorkerDown
  <2>3. QED
    BY <2>1, <2>2 DEF EntriesLive, ClosedStayClosed, FreshAboveNobj
<1>6. CASE UNCHANGED vars
  BY <1>6 DEF vars, EntriesLive, ClosedStayClosed, FreshAboveNobj
<1>7. QED
  BY <1>1, <1>2, <1>3, <1>4, <1>5, <1>6 DEF Next

(* Every reachable state of the pool is well typed; in particular no      *)
(* s.refcnt ever goes below zero, whatever Retain / Release sequence the  *)
(* holders run, misuse included: Release panics first.                    *)
THEOREM PoolTypeCorrect == Spec => []TypeOK
BY InitIInv, NextIInv, PTL DEF Spec, IInv

(* The pool's Retain never hands out a closed sharedBackendConn: every    *)
(* entry of p.pool is a live object created for its address, whatever the *)
(* holders do, including releasing a pointer twice.                       *)
THEOREM PoolEntriesLive == Spec => []MapPointsToLive
<1>1. IInv => MapPointsToLive
  BY DEF IInv, TypeOK, EntriesLive, ClosedStayClosed, MapPointsToLive
<1>2. QED
  BY InitIInv, NextIInv, <1>1, PTL DEF Spec
-----------------------------------------------------------------------------
(* Reference counting.  While no holder has released a pointer it no      *)
(* longer held, s.refcnt is the number of holders holding the object: the *)
(* pool's Retain and s.Retain add the holder they hand the reference to,  *)
(* Release removes the holder that gives it back.  Since a holder holds   *)
(* only created objects, the fresh object nobj + 1 has no holder.         *)

\* The holders that hold a reference to object o.
Holding(o) == {h \in Holders : held[h] = o}

HeldCreated == \A h \in Holders : held[h] # NoObj => held[h] \in 1 .. nobj

Counted == ~misused => \A o \in Objs : refcnt[o] = Cardinality(Holding(o))

CInv == IInv /\ HeldCreated /\ Counted /\ NoPanicWithoutMisuse

\* The number of holders that a holder-to-object function f maps to p.
HolderCount(f, p) == Cardinality({x \in Holders : f[x] = p})

\* The holders of a function f that map to p form a finite set.
LEMMA HoldersOfFinite ==
  ASSUME NEW f, NEW p
  PROVE  /\ IsFiniteSet({x \in Holders : f[x] = p})
         /\ Cardinality({x \in Holders : f[x] = p}) \in Nat
BY FS_Subset, FS_CardinalityType

\* Handing a reference to o to a holder h that held none (g is f with h
\* now mapped to o) adds h to the holders of o and changes no other
\* object's holders.
LEMMA CountAdd ==
  ASSUME NEW f, NEW g, NEW h \in Holders, NEW o, NEW p, p # NoObj,
         f[h] = NoObj, g[h] = o, \A x \in Holders \ {h} : g[x] = f[x]
  PROVE  HolderCount(g, p) = IF p = o THEN HolderCount(f, p) + 1 ELSE HolderCount(f, p)
<1> DEFINE S == {x \in Holders : f[x] = p}
           T == {x \in Holders : g[x] = p}
<1>1. h \notin S /\ IsFiniteSet(S)
  BY HoldersOfFinite
<1>2. CASE p = o
  <2>1. T = S \cup {h}
    BY <1>2
  <2>2. Cardinality(S \cup {h}) = Cardinality(S) + 1
    BY <1>1, FS_AddElement
  <2> QED
    BY <1>2, <2>1, <2>2 DEF HolderCount
<1>3. CASE p # o
  <2>1. T = S
    BY <1>3
  <2> QED
    BY <1>3, <2>1 DEF HolderCount
<1> QED
  BY <1>2, <1>3

\* Taking back the reference of a holder h that held o (g is f with h now
\* mapped to NoObj) removes h from the holders of o and changes no other
\* object's holders.
LEMMA CountRemove ==
  ASSUME NEW f, NEW g, NEW h \in Holders, NEW o, NEW p, p # NoObj,
         f[h] = o, g[h] = NoObj, \A x \in Holders \ {h} : g[x] = f[x]
  PROVE  HolderCount(g, p) = IF p = o THEN HolderCount(f, p) - 1 ELSE HolderCount(f, p)
<1> DEFINE S == {x \in Holders : f[x] = p}
           T == {x \in Holders : g[x] = p}
<1>1. IsFiniteSet(S)
  BY HoldersOfFinite
<1>2. CASE p = o
  <2>1. T = S \ {h} /\ h \in S
    BY <1>2
  <2>2. Cardinality(S \ {h}) = Cardinality(S) - 1
    BY <1>1, <2>1, FS_RemoveElement
  <2> QED
    BY <1>2, <2>1, <2>2 DEF HolderCount
<1>3. CASE p # o
  <2>1. T = S
    BY <1>3
  <2> QED
    BY <1>3, <2>1 DEF HolderCount
<1> QED
  BY <1>2, <1>3

\* A holder's reference keeps its object's count positive.
LEMMA HeldPositive ==
  ASSUME TypeOK, Counted, ~misused, NEW h \in Holders, held[h] # NoObj
  PROVE  held[h] \in Objs /\ refcnt[held[h]] > 0
<1>1. held[h] \in Objs
  BY DEF TypeOK
<1>2. h \in Holding(held[h])
  BY DEF Holding
<1>3. IsFiniteSet(Holding(held[h])) /\ Cardinality(Holding(held[h])) \in Nat
  BY HoldersOfFinite DEF Holding
<1>4. Cardinality(Holding(held[h])) # 0
  BY <1>2, <1>3, FS_EmptySet
<1>5. refcnt[held[h]] = Cardinality(Holding(held[h]))
  BY <1>1 DEF Counted
<1> QED
  BY <1>1, <1>3, <1>4, <1>5

LEMMA InitCInv == Init => CInv
<1> SUFFICES ASSUME Init PROVE CInv
  OBVIOUS
<1>1. \A o \in Objs : Holding(o) = {}
  BY DEF Init, Holding, Objs
<1> QED
  BY InitIInv, <1>1, FS_EmptySet DEF Init, CInv, HeldCreated, Counted, NoPanicWithoutMisuse

\* s.Retain() of a live, created object o for a holder h that held none.
LEMMA RetainStep ==
  ASSUME CInv, NEW o \in 1 .. nobj, NEW h \in Holders, held[h] = NoObj, refcnt[o] > 0,
         SharedRetain(o, h), misused' = misused, nobj' = nobj
  PROVE  HeldCreated' /\ Counted' /\ NoPanicWithoutMisuse'
<1> USE DEF CInv, IInv, TypeOK
<1>1. o \in Objs
  BY DEF Objs
<1>2. refcnt' = [refcnt EXCEPT ![o] = @ + 1] /\ held' = [held EXCEPT ![h] = o]
      /\ panicked' = panicked
  BY <1>1 DEF SharedRetain, Closed
<1>3. HeldCreated'
  BY <1>2 DEF HeldCreated
<1>4. Counted'
  <2> SUFFICES ASSUME ~misused, NEW p \in Objs PROVE refcnt'[p] = Cardinality(Holding(p))'
    BY DEF Counted
  <2>0. p # NoObj /\ held'[h] = o /\ \A x \in Holders \ {h} : held'[x] = held[x]
    BY <1>1, <1>2 DEF Objs
  <2>1. Cardinality(Holding(p))' = IF p = o THEN Cardinality(Holding(p)) + 1
                                            ELSE Cardinality(Holding(p))
    <3>1. HolderCount(held', p) = IF p = o THEN HolderCount(held, p) + 1 ELSE HolderCount(held, p)
      <4> HIDE DEF CInv, IInv, TypeOK
      <4> QED
        BY <2>0, CountAdd
    <3> QED
      BY <3>1 DEF Holding, HolderCount
  <2> QED
    BY <1>2, <2>1 DEF Counted
<1>5. NoPanicWithoutMisuse'
  BY <1>2 DEF NoPanicWithoutMisuse
<1> QED
  BY <1>3, <1>4, <1>5

LEMMA PoolRetainStep ==
  ASSUME CInv, NEW h \in Holders, NEW a \in Addrs, PoolRetain(h, a)
  PROVE  HeldCreated' /\ Counted' /\ NoPanicWithoutMisuse'
<1> USE DEF CInv, IInv, TypeOK
<1>1. CASE pool[a] # NoObj
  <2>1. pool[a] \in Objs /\ refcnt[pool[a]] > 0
    BY <1>1 DEF EntriesLive
  <2>2. pool[a] \in 1 .. nobj
    BY <2>1 DEF FreshAboveNobj, Objs
  <2> QED
    BY <1>1, <2>1, <2>2, RetainStep DEF PoolRetain
<1>2. CASE pool[a] = NoObj
  <2> DEFINE o == nobj + 1
  <2>1. /\ nobj < MaxObjs /\ nobj' = o /\ o \in Objs /\ held[h] = NoObj
        /\ refcnt' = [refcnt EXCEPT ![o] = 1]
        /\ held' = [held EXCEPT ![h] = o]
        /\ UNCHANGED <<panicked, misused>>
    BY <1>2 DEF PoolRetain, NewSharedBackendConn, Objs
  <2>2. HeldCreated'
    BY <2>1 DEF HeldCreated
  <2>3. Counted'
    <3> SUFFICES ASSUME ~misused, NEW p \in Objs PROVE refcnt'[p] = Cardinality(Holding(p))'
      BY <2>1 DEF Counted
    <3>0. p # NoObj /\ held[h] = NoObj /\ held'[h] = o
          /\ \A x \in Holders \ {h} : held'[x] = held[x]
      BY <2>1 DEF Objs
    <3>1. Cardinality(Holding(p))' = IF p = o THEN Cardinality(Holding(p)) + 1
                                              ELSE Cardinality(Holding(p))
      <4>1. HolderCount(held', p) = IF p = o THEN HolderCount(held, p) + 1 ELSE HolderCount(held, p)
        <5> HIDE DEF CInv, IInv, TypeOK
        <5> QED
          BY <3>0, CountAdd
      <4> QED
        BY <4>1 DEF Holding, HolderCount
    <3>2. refcnt[o] = 0
      BY <2>1 DEF FreshAboveNobj
    <3> QED
      BY <2>1, <3>1, <3>2 DEF Counted
  <2>4. NoPanicWithoutMisuse'
    BY <2>1 DEF NoPanicWithoutMisuse
  <2> QED
    BY <2>2, <2>3, <2>4
<1> QED
  BY <1>1, <1>2

LEMMA ShareRetainStep ==
  ASSUME CInv, NEW h1 \in Holders, NEW h2 \in Holders, ShareRetain(h1, h2)
  PROVE  HeldCreated' /\ Counted' /\ NoPanicWithoutMisuse'
<1> USE DEF CInv, IInv, TypeOK
<1>1. held[h1] \in 1 .. nobj /\ held[h2] = NoObj /\ UNCHANGED <<nobj, misused>>
  BY DEF ShareRetain, HeldCreated
<1>2. CASE ~misused
  BY <1>1, <1>2, HeldPositive, RetainStep DEF ShareRetain
<1>3. CASE misused
  <2>1. held' = held \/ held' = [held EXCEPT ![h2] = held[h1]]
    BY DEF ShareRetain, SharedRetain
  <2>2. HeldCreated'
    BY <1>1, <2>1 DEF HeldCreated
  <2> QED
    BY <1>1, <1>3, <2>2 DEF Counted, NoPanicWithoutMisuse
<1> QED
  BY <1>2, <1>3

LEMMA ReleaseStep ==
  ASSUME CInv, NEW h \in Holders, Release(h)
  PROVE  HeldCreated' /\ Counted' /\ NoPanicWithoutMisuse'
<1> USE DEF CInv, IInv, TypeOK
<1> DEFINE o == held[h]
<1>1. o # NoObj /\ held' = [held EXCEPT ![h] = NoObj] /\ UNCHANGED <<nobj, misused>>
  BY DEF Release
<1>2. HeldCreated'
  BY <1>1 DEF HeldCreated
<1>3. CASE misused
  BY <1>1, <1>2, <1>3 DEF Counted, NoPanicWithoutMisuse
<1>4. CASE ~misused
  <2>1. o \in Objs /\ refcnt[o] > 0
    BY <1>1, <1>4, HeldPositive
  <2>2. refcnt' = [refcnt EXCEPT ![o] = @ - 1] /\ panicked' = panicked
    BY <2>1 DEF Release, SharedRelease, Closed
  <2>3. Counted'
    <3> SUFFICES ASSUME NEW p \in Objs PROVE refcnt'[p] = Cardinality(Holding(p))'
      BY <1>1 DEF Counted
    <3>0. p # NoObj /\ held'[h] = NoObj /\ \A x \in Holders \ {h} : held'[x] = held[x]
      BY <1>1 DEF Objs
    <3>1. Cardinality(Holding(p))' = IF p = o THEN Cardinality(Holding(p)) - 1
                                              ELSE Cardinality(Holding(p))
      <4>1. HolderCount(held', p) = IF p = o THEN HolderCount(held, p) - 1 ELSE HolderCount(held, p)
        <5> HIDE DEF CInv, IInv, TypeOK
        <5> QED
          BY <3>0, CountRemove
      <4> QED
        BY <4>1 DEF Holding, HolderCount
    <3> QED
      BY <1>4, <2>2, <3>1 DEF Counted
  <2>4. NoPanicWithoutMisuse'
    BY <1>1, <2>2 DEF NoPanicWithoutMisuse
  <2> QED
    BY <1>2, <2>3, <2>4
<1> QED
  BY <1>3, <1>4

LEMMA NextCInv == CInv /\ [Next]_vars => CInv'
<1> SUFFICES ASSUME CInv, [Next]_vars PROVE CInv'
  OBVIOUS
<1>1. IInv'
  BY NextIInv DEF CInv
<1>2. HeldCreated' /\ Counted' /\ NoPanicWithoutMisuse'
  <2>1. CASE \E h \in Holders, a \in Addrs : PoolRetain(h, a)
    BY <2>1, PoolRetainStep
  <2>2. CASE \E h1, h2 \in Holders : ShareRetain(h1, h2)
    BY <2>2, ShareRetainStep
  <2>3. CASE \E h \in Holders : Release(h)
    BY <2>3, ReleaseStep
  <2>4. CASE \E h \in Holders : StaleRelease(h)
    <3>1. misused' /\ UNCHANGED <<nobj, held>>
      BY <2>4 DEF StaleRelease
    <3> QED
      BY <3>1 DEF CInv, HeldCreated, Counted, NoPanicWithoutMisuse
  <2>5. CASE \E o \in Objs, d \in DBs, i \in Idx : WorkerUp(o, d, i) \/ WorkerDown(o, d, i)
    BY <2>5 DEF WorkerUp, WorkerDown, CInv, HeldCreated, Counted, NoPanicWithoutMisuse, Holding
  <2>6. CASE UNCHANGED vars
    BY <2>6 DEF vars, CInv, HeldCreated, Counted, NoPanicWithoutMisuse, Holding
  <2> QED
    BY <2>1, <2>2, <2>3, <2>4, <2>5, <2>6 DEF Next
<1> QED
  BY <1>1, <1>2 DEF CInv

(* Retain and Release never reach their log.Panicf unless some holder has *)
(* released a pointer it no longer held: balanced Retain / Release calls, *)
(* interleaved in any order across holders and addresses, never panic.    *)
THEOREM PoolNoPanicWithoutMisuse == Spec => []NoPanicWithoutMisuse
<1>1. CInv => NoPanicWithoutMisuse
  BY DEF CInv
<1> QED
  BY <1>1, InitCInv, NextCInv, PTL DEF Spec

(* While no pointer is released twice, no holder holds a sharedBackendConn *)
(* whose BackendConns Release has closed: they are closed only when the   *)
(* count, which is the number of holders, reaches zero.                   *)
THEOREM PoolHeldWorkersOpen == Spec => []HeldWorkersOpen
<1>1. CInv => HeldWorkersOpen
  <2> SUFFICES ASSUME CInv, ~misused, NEW h \in Holders, held[h] # NoObj
               PROVE  ~closedW[held[h]]
    BY DEF HeldWorkersOpen
  <2>1. held[h] \in Objs /\ refcnt[held[h]] > 0
    BY HeldPositive DEF CInv, IInv
  <2> QED
    BY <2>1 DEF CInv, IInv, ClosedStayClosed
<1> QED
  BY <1>1, InitCInv, NextCInv, PTL DEF Spec
=============================================================================
