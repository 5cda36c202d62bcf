-------------------------------- MODULE Future -------------------------------
(***************************************************************************)
(* sync2.Future (src/pkg/utils/sync2/future.go): a WaitGroup and a map    *)
(* under a mutex.  The caller runs f.Add() and starts a goroutine for     *)
(* some of Workers (none, or all), then calls f.Wait(); each goroutine    *)
(* calls f.Done(key, val) with its own key.  The steps are the mutex      *)
(* operations, the two halves of lazyInit (the nil test and the make),    *)
(* the map store, the WaitGroup operations and the map read.  A map is a  *)
(* number 1 .. MaxMaps; contents[m] is the set of keys stored in map m.  *)
(***************************************************************************)
EXTENDS Naturals, FiniteSets

CONSTANTS
  Workers,    \* the goroutines calling Done, each with its own key
  Caller,     \* the goroutine calling Add and Wait
  NoG         \* the mutex is free

ASSUME FutureAssumption ==
  /\ IsFiniteSet(Workers)
  /\ Caller \notin Workers
  /\ NoG \notin Workers \cup {Caller}

\* One map per goroutine at most: every lazyInit makes at most one.
MaxMaps == Cardinality(Workers) + 1
Maps == 1 .. MaxMaps

VARIABLES
  mu,         \* the sync.Mutex: its holder, or NoG
  wg,         \* the sync.WaitGroup counter
  vmap,       \* f.vmap: a map, or 0 for nil
  nmaps,      \* maps made so far
  contents,   \* per map: the keys stored in it
  added,      \* the workers the caller has run f.Add() for
  wpc,        \* per worker: its place in Done
  cpc,        \* the caller's place: "spawn", "go", then in Wait
  next,       \* the worker the caller is starting
  res         \* the map Wait returned (0 before)

vars == <<mu, wg, vmap, nmaps, contents, added, wpc, cpc, next, res>>

Goroutines == Workers \cup {Caller}

-----------------------------------------------------------------------------
\* Mutant: the mutex ignored.
LockFreeIgnored(g) == TRUE

\* f.Lock() can be taken by g.
LockFree(g) == mu = NoG

Lock(g) == mu' = g

\* Mutant: `f.wait.Add(1)` forgotten.
AddDeltaMissing == 0

\* f.wait.Add(1)
AddDelta == 1

\* Mutant: `f.wait.Done()` forgotten.
WgDoneMissing(c) == c

\* f.wait.Done()
WgDone(c) == c - 1

\* lazyInit's make: a new map, stored in f.vmap.
MakeMap ==
  /\ nmaps' = nmaps + 1
  /\ vmap' = nmaps + 1
  /\ contents' = [contents EXCEPT ![nmaps + 1] = {}]

-----------------------------------------------------------------------------
(* The caller.                                                             *)

\* f.Add() for worker w, before its goroutine starts.
Add(w) ==
  /\ cpc = "spawn"
  /\ w \notin added
  /\ wg' = wg + AddDelta
  /\ added' = added \cup {w}
  /\ next' = w
  /\ cpc' = "go"
  /\ UNCHANGED <<mu, vmap, nmaps, contents, wpc, res>>

\* go func() { ... f.Done(key, val) }()
Go ==
  /\ cpc = "go"
  /\ wpc' = [wpc EXCEPT ![next] = "lock"]
  /\ cpc' = "spawn"
  /\ UNCHANGED <<mu, wg, vmap, nmaps, contents, added, next, res>>

\* f.Wait(): f.wait.Wait() returns once the counter is zero.  The caller
\* may wait after any number of f.Add() calls.
WaitGroupWait ==
  /\ cpc = "spawn"
  /\ wg = 0
  /\ cpc' = "lock"
  /\ UNCHANGED <<mu, wg, vmap, nmaps, contents, added, wpc, next, res>>

\* The rest of Wait: f.Lock(); f.lazyInit(); return f.vmap; f.Unlock().
WaitLock ==
  /\ cpc = "lock"
  /\ LockFree(Caller)
  /\ Lock(Caller)
  /\ cpc' = "init"
  /\ UNCHANGED <<wg, vmap, nmaps, contents, added, wpc, next, res>>

WaitInit ==
  /\ cpc = "init"
  /\ cpc' = IF vmap = 0 THEN "make" ELSE "read"
  /\ UNCHANGED <<mu, wg, vmap, nmaps, contents, added, wpc, next, res>>

WaitMake ==
  /\ cpc = "make"
  /\ MakeMap
  /\ cpc' = "read"
  /\ UNCHANGED <<mu, wg, added, wpc, next, res>>

WaitRead ==
  /\ cpc = "read"
  /\ res' = vmap
  /\ mu' = NoG
  /\ cpc' = "done"
  /\ UNCHANGED <<wg, vmap, nmaps, contents, added, wpc, next>>

-----------------------------------------------------------------------------
(* f.Done(key, val) by worker w.                                           *)

DoneLock(w) ==
  /\ wpc[w] = "lock"
  /\ LockFree(w)
  /\ Lock(w)
  /\ wpc' = [wpc EXCEPT ![w] = "init"]
  /\ UNCHANGED <<wg, vmap, nmaps, contents, added, cpc, next, res>>

\* lazyInit: `if f.vmap == nil`
DoneInit(w) ==
  /\ wpc[w] = "init"
  /\ wpc' = [wpc EXCEPT ![w] = IF vmap = 0 THEN "make" ELSE "store"]
  /\ UNCHANGED <<mu, wg, vmap, nmaps, contents, added, cpc, next, res>>

\* lazyInit: `f.vmap = make(map[string]interface{})`
DoneMake(w) ==
  /\ wpc[w] = "make"
  /\ MakeMap
  /\ wpc' = [wpc EXCEPT ![w] = "store"]
  /\ UNCHANGED <<mu, wg, added, cpc, next, res>>

\* f.vmap[key] = val
DoneStore(w) ==
  /\ wpc[w] = "store"
  /\ contents' = [contents EXCEPT ![vmap] = @ \cup {w}]
  /\ wpc' = [wpc EXCEPT ![w] = "signal"]
  /\ UNCHANGED <<mu, wg, vmap, nmaps, added, cpc, next, res>>

\* f.wait.Done(), then the deferred f.Unlock().
DoneSignal(w) ==
  /\ wpc[w] = "signal"
  /\ wg' = WgDone(wg)
  /\ wpc' = [wpc EXCEPT ![w] = "unlock"]
  /\ UNCHANGED <<mu, vmap, nmaps, contents, added, cpc, next, res>>

DoneUnlock(w) ==
  /\ wpc[w] = "unlock"
  /\ mu' = NoG
  /\ wpc' = [wpc EXCEPT ![w] = "done"]
  /\ UNCHANGED <<wg, vmap, nmaps, contents, added, cpc, next, res>>

-----------------------------------------------------------------------------
Init ==
  /\ mu = NoG
  /\ wg = 0
  /\ vmap = 0
  /\ nmaps = 0
  /\ contents = [m \in Maps |-> {}]
  /\ added = {}
  /\ wpc = [w \in Workers |-> "new"]
  /\ cpc = "spawn"
  /\ next = Caller
  /\ res = 0

Worker(w) ==
  DoneLock(w) \/ DoneInit(w) \/ DoneMake(w) \/ DoneStore(w) \/ DoneSignal(w) \/ DoneUnlock(w)

CallerStep ==
  \/ \E w \in Workers : Add(w)
  \/ Go \/ WaitGroupWait \/ WaitLock \/ WaitInit \/ WaitMake \/ WaitRead

Next == CallerStep \/ \E w \in Workers : Worker(w)

Spec == Init /\ [][Next]_vars

\* Every goroutine keeps running; each takes the mutex once, so weak
\* fairness lets every one of them take it.
FairSpec == Spec /\ WF_vars(CallerStep) /\ \A w \in Workers : WF_vars(Worker(w))

-----------------------------------------------------------------------------
(* Properties.                                                            *)

TypeOK ==
  /\ mu \in Goroutines \cup {NoG}
  /\ wg \in Nat
  /\ vmap \in 0 .. MaxMaps
  /\ nmaps \in 0 .. MaxMaps
  /\ contents \in [Maps -> SUBSET Workers]
  /\ added \subseteq Workers
  /\ wpc \in [Workers -> {"new", "lock", "init", "make", "store", "signal", "unlock", "done"}]
  /\ cpc \in {"spawn", "go", "lock", "init", "make", "read", "done"}
  /\ next \in Workers \cup {Caller}
  /\ res \in 0 .. MaxMaps

\* The map f.Wait() returns holds exactly the keys of the goroutines the
\* caller ran f.Add() for, each stored by its f.Done(), whatever the
\* order of the Dones, of their lazyInits and of Wait's own lazyInit: no
\* Done's store is lost to a second map and Wait does not return before
\* the last store.
WaitSeesEveryDone == cpc = "done" => contents[res] = added

\* f.Wait() returns once every goroutine has called f.Done().
WaitReturns == <>(cpc = "done")
=============================================================================
