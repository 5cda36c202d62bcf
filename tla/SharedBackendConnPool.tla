------------------------ MODULE SharedBackendConnPool ------------------------
(***************************************************************************)
(* The shared backend pool (sharedBackendConn, sharedBackendConnPool,      *)
(* part_002 lines 393-553).  The pool maps an address to a reference-     *)
(* counted sharedBackendConn that owns NumDBs x Parallel BackendConns.    *)
(* Holders (the router's slots) take a reference with the pool's Retain,  *)
(* copy one with sharedBackendConn.Retain, give it back with Release, and *)
(* route requests with BackendConn(db, seed, must).  The pool is not      *)
(* synchronised: its callers serialise every call, so each call is one    *)
(* atomic step.  A BackendConn is reduced to whether it has been closed   *)
(* and whether IsConnected() holds.  A holder may also keep the pointer   *)
(* after its Release and release it again: the misuse Release's panic is  *)
(* there to catch.                                                        *)
(***************************************************************************)
EXTENDS Naturals, FiniteSets

CONSTANTS
  Addrs,        \* backend addresses
  Holders,      \* holders of references (router slots)
  NumDBs,       \* config.BackendNumberDatabases
  Parallel,     \* pool.parallel = MaxInt(1, parallel)
  MaxObjs,      \* bound: sharedBackendConn objects ever created
  MaxSeed,      \* bound: the seeds given to BackendConn(db, seed, must)
  NoObj,        \* a nil *sharedBackendConn
  NoAddr,       \* the address of an object not yet created
  NoWorker      \* a nil *BackendConn

ASSUME PoolAssumption ==
  /\ IsFiniteSet(Holders)
  /\ NumDBs \in Nat \ {0}
  /\ Parallel \in Nat \ {0}
  /\ MaxObjs \in Nat
  /\ MaxSeed \in Nat
  /\ NoObj \notin 1 .. MaxObjs
  /\ NoAddr \notin Addrs
  /\ NoWorker \notin Nat

Objs == 1 .. MaxObjs
DBs == 0 .. NumDBs - 1
Idx == 0 .. Parallel - 1
Seeds == 0 .. MaxSeed

VARIABLES
  pool,       \* p.pool: address -> *sharedBackendConn (NoObj when absent)
  nobj,       \* number of sharedBackendConn objects created so far
  addrOf,     \* per object: s.addr
  refcnt,     \* per object: s.refcnt
  closedW,    \* per object: bc.Close() has been called on all its conns
  conn,       \* per object, db, index: conns[db][i].IsConnected()
  held,       \* per holder: the reference it holds (NoObj if none)
  stale,      \* per holder: a pointer it kept after releasing it
  panicked,   \* a log.Panicf has fired
  misused     \* some holder has released a pointer it no longer held

vars == <<pool, nobj, addrOf, refcnt, closedW, conn, held, stale, panicked, misused>>

-----------------------------------------------------------------------------
\* Mutant: the over-release check of Retain and Release dropped.
ClosedUnchecked(o) == FALSE

\* Mutant: the check off by one.
ClosedAtOne(o) == refcnt[o] <= 1

\* `if s.refcnt <= 0 { log.Panicf(...) }`: the object has been closed.
Closed(o) == refcnt[o] <= 0

(* s.Retain(): panics on a closed object, else counts one more reference. *)
SharedRetain(o, h) ==
  IF Closed(o)
    THEN /\ panicked' = TRUE
         /\ UNCHANGED <<refcnt, held>>
    ELSE /\ refcnt' = [refcnt EXCEPT ![o] = @ + 1]
         /\ held' = [held EXCEPT ![h] = o]
         /\ UNCHANGED panicked

\* Mutant: `if s.refcnt != 1 { return }`, the last-reference test off by one.
LastReferenceEarly(o) == refcnt'[o] <= 1

\* The last reference is gone: the conns are closed and the entry deleted.
LastReference(o) == refcnt'[o] = 0

\* Mutant: the map entry is not deleted.
DeleteEntryMissing(o) == UNCHANGED pool

\* delete(s.owner.pool, s.addr)
DeleteEntry(o) == pool' = [pool EXCEPT ![addrOf[o]] = NoObj]

\* s.Release(): panics below one reference, else counts one less; at zero
\* closes every BackendConn it owns and deletes the pool's entry.
SharedRelease(o) ==
  IF Closed(o)
    THEN /\ panicked' = TRUE
         /\ UNCHANGED <<refcnt, closedW, pool>>
    ELSE /\ refcnt' = [refcnt EXCEPT ![o] = @ - 1]
         /\ IF LastReference(o)
              THEN /\ closedW' = [closedW EXCEPT ![o] = TRUE]
                   /\ DeleteEntry(o)
              ELSE UNCHANGED <<closedW, pool>>
         /\ UNCHANGED panicked

\* newSharedBackendConn(addr, p) with refcnt 1, stored as p.pool[addr]
\* and handed to h; its NumDBs x Parallel conns start disconnected.
NewSharedBackendConn(h, a) ==
  LET o == nobj + 1
  IN  /\ nobj < MaxObjs
      /\ nobj' = o
      /\ addrOf' = [addrOf EXCEPT ![o] = a]
      /\ refcnt' = [refcnt EXCEPT ![o] = 1]
      /\ pool' = [pool EXCEPT ![a] = o]
      /\ held' = [held EXCEPT ![h] = o]
      /\ UNCHANGED <<closedW, conn, panicked>>

\* p.Retain(addr): retain the object in the map, or create one.
PoolRetain(h, a) ==
  /\ ~panicked
  /\ held[h] = NoObj
  /\ IF pool[a] # NoObj
       THEN /\ SharedRetain(pool[a], h)
            /\ UNCHANGED <<pool, nobj, addrOf, closedW, conn>>
       ELSE NewSharedBackendConn(h, a)
  /\ UNCHANGED <<stale, misused>>

\* A holder copies another's reference with s.Retain().
ShareRetain(h1, h2) ==
  /\ ~panicked
  /\ held[h1] # NoObj
  /\ held[h2] = NoObj
  /\ SharedRetain(held[h1], h2)
  /\ UNCHANGED <<pool, nobj, addrOf, closedW, conn, stale, misused>>

\* A holder gives its reference back with s.Release() and keeps the pointer.
Release(h) ==
  /\ ~panicked
  /\ held[h] # NoObj
  /\ SharedRelease(held[h])
  /\ held' = [held EXCEPT ![h] = NoObj]
  /\ stale' = [stale EXCEPT ![h] = held[h]]
  /\ UNCHANGED <<nobj, addrOf, conn, misused>>

\* The misuse: s.Release() again on the pointer kept after a Release.
StaleRelease(h) ==
  /\ ~panicked
  /\ stale[h] # NoObj
  /\ SharedRelease(stale[h])
  /\ stale' = [stale EXCEPT ![h] = NoObj]
  /\ misused' = TRUE
  /\ UNCHANGED <<nobj, addrOf, conn, held>>

\* A BackendConn's round starts (state Connected) or ends (state 0).  A
\* closed one never starts another round.
WorkerUp(o, d, i) ==
  /\ ~panicked
  /\ o \in 1 .. nobj
  /\ ~closedW[o]
  /\ ~conn[o][d][i]
  /\ conn' = [conn EXCEPT ![o][d][i] = TRUE]
  /\ UNCHANGED <<pool, nobj, addrOf, refcnt, closedW, held, stale, panicked, misused>>

WorkerDown(o, d, i) ==
  /\ ~panicked
  /\ conn[o][d][i]
  /\ conn' = [conn EXCEPT ![o][d][i] = FALSE]
  /\ UNCHANGED <<pool, nobj, addrOf, refcnt, closedW, held, stale, panicked, misused>>

-----------------------------------------------------------------------------
(* s.BackendConn(database, seed, must): the index of the chosen conn of   *)
(* conns[d], or NoWorker for nil.                                         *)

\* Mutant: the scan starts at seed instead of seed + 1.
ScanIndexFromSeed(seed, k) == (seed + k - 1) % Parallel

\* The index the loop looks at in its k-th iteration: i = (i + 1) % N,
\* starting from i = seed.
ScanIndex(seed, k) == (seed + k) % Parallel

\* Mutant: the single[] path returns its conn without IsConnected().
SingleConnUnchecked(o, d, must) == 0

\* `bc := s.single[database]; if must || bc.IsConnected() { return bc };
\* return nil`
SingleConn(o, d, must) == IF must \/ conn[o][d][0] THEN 0 ELSE NoWorker

BackendConn(o, d, seed, must) ==
  IF Parallel = 1
    THEN SingleConn(o, d, must)
    ELSE LET scan[k \in 1 .. Parallel + 1] ==
               IF k > Parallel THEN IF must THEN 0 ELSE NoWorker
               ELSE IF conn[o][d][ScanIndex(seed, k)] THEN ScanIndex(seed, k)
               ELSE scan[k + 1]
         IN  scan[1]

-----------------------------------------------------------------------------
Init ==
  /\ pool = [a \in Addrs |-> NoObj]
  /\ nobj = 0
  /\ addrOf = [o \in Objs |-> NoAddr]
  /\ refcnt = [o \in Objs |-> 0]
  /\ closedW = [o \in Objs |-> FALSE]
  /\ conn = [o \in Objs |-> [d \in DBs |-> [i \in Idx |-> FALSE]]]
  /\ held = [h \in Holders |-> NoObj]
  /\ stale = [h \in Holders |-> NoObj]
  /\ panicked = FALSE
  /\ misused = FALSE

Next ==
  \/ \E h \in Holders, a \in Addrs : PoolRetain(h, a)
  \/ \E h1, h2 \in Holders : ShareRetain(h1, h2)
  \/ \E h \in Holders : Release(h) \/ StaleRelease(h)
  \/ \E o \in Objs, d \in DBs, i \in Idx : WorkerUp(o, d, i) \/ WorkerDown(o, d, i)

Spec == Init /\ [][Next]_vars

-----------------------------------------------------------------------------
(* Properties.                                                            *)

TypeOK ==
  /\ pool \in [Addrs -> Objs \cup {NoObj}]
  /\ nobj \in 0 .. MaxObjs
  /\ addrOf \in [Objs -> Addrs \cup {NoAddr}]
  /\ refcnt \in [Objs -> Nat]
  /\ closedW \in [Objs -> BOOLEAN]
  /\ conn \in [Objs -> [DBs -> [Idx -> BOOLEAN]]]
  /\ held \in [Holders -> Objs \cup {NoObj}]
  /\ stale \in [Holders -> Objs \cup {NoObj}]
  /\ panicked \in BOOLEAN
  /\ misused \in BOOLEAN

\* The log.Panicf of Retain and Release fire only after a holder released
\* a pointer it no longer held: balanced Retain / Release never panic,
\* however the holders interleave and however often an address's object
\* is closed and created again.
NoPanicWithoutMisuse == panicked => misused

\* While no holder misuses a pointer, no holder holds a reference to a
\* sharedBackendConn whose BackendConns have been closed: Release closes
\* them exactly when the last reference goes.
HeldWorkersOpen ==
  ~misused => \A h \in Holders : held[h] # NoObj => ~closedW[held[h]]

\* Every entry of p.pool is a live object created for that address: the
\* pool's Retain never hands out a closed sharedBackendConn.
MapPointsToLive ==
  \A a \in Addrs : pool[a] # NoObj => addrOf[pool[a]] = a /\ ~closedW[pool[a]]

\* Spec (4.6): the selection starts at (seed + 1) mod N and scans round
\* robin for a connected conn; if none, nil, or conns[db][0] when must.
ScanDistance(seed, i) == (i - seed - 1) % Parallel

SelectRef(o, d, seed, must) ==
  LET up == {i \in Idx : conn[o][d][i]}
  IN  IF up # {}
        THEN CHOOSE i \in up : \A j \in up : ScanDistance(seed, i) <= ScanDistance(seed, j)
        ELSE IF must THEN 0 ELSE NoWorker

\* BackendConn(db, seed, must) of every object in the pool returns the
\* conn the specification's selection policy names, for every database,
\* seed and must, whatever the connected conns are.
SelectionFollowsSpec ==
  \A a \in Addrs, d \in DBs, seed \in Seeds, must \in BOOLEAN :
    pool[a] # NoObj =>
      BackendConn(pool[a], d, seed, must) = SelectRef(pool[a], d, seed, must)

=============================================================================
