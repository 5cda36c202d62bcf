----------------------------- MODULE OffheapAlloc ----------------------------
(***************************************************************************)
(* The off-heap slices of src/pkg/utils/unsafe2/cgo_slice.go and their    *)
(* entry points MakeSlice, MakeOffheapSlice and FreeSlice (part_001).     *)
(* Goroutines allocate concurrently: newCGoSlice reserves its size on the *)
(* atomic counter allocOffheapBytes with one Add, checks the value the    *)
(* Add returned against MaxOffheapBytes(), and gives the reservation back *)
(* with a Sub when the check or cgo_malloc fails.  reclaim, called by the *)
(* owner through FreeSlice or by the runtime's finalizer goroutine once   *)
(* the slice is unreachable, frees the memory and then Subs its size.     *)
(* Every atomic operation on the counter and every cgo call is one step;  *)
(* the steps between them that touch no shared state are folded into     *)
(* them.  Each goroutine owns at most one slice at a time.                *)
(***************************************************************************)
EXTENDS Naturals, Integers, FiniteSets

CONSTANTS
  Threads,          \* goroutines allocating slices
  Sizes,            \* the sizes n they request
  MinOffheapSlice,  \* 1024 * 16: MakeSlice's threshold for off-heap
  MaxOffheap,       \* MaxOffheapBytes()
  MaxSlices,        \* bound: off-heap slices ever created
  NoThread,         \* no goroutine
  NoSlice           \* a nil Slice

ASSUME OffheapAssumption ==
  /\ Sizes \subseteq Nat \ {0}
  /\ MinOffheapSlice \in Nat
  /\ MaxOffheap \in Nat
  /\ MaxSlices \in Nat
  /\ NoThread \notin Threads
  /\ NoSlice \notin Nat

Ids == 1 .. MaxSlices

VARIABLES
  counter,   \* allocOffheapBytes
  nslices,   \* slices created so far; slice k is the k-th
  slice,     \* per slice: [n, force, mem, fin, owner, frees]
  pc,        \* per goroutine: "idle", "malloc", "undo", "own", "sub"
  req,       \* per goroutine: its request [n, force]
  cur,       \* per goroutine: the slice it owns (NoSlice if none)
  fpc        \* the finalizer goroutine: NoSlice, or the slice whose Sub is due

vars == <<counter, nslices, slice, pc, req, cur, fpc>>

(* A slice's mem: "held" while s.ptr is cgo memory, "freed" once cgo_free  *)
(* has run and before s.ptr = nil, "nil" after.  frees counts the calls   *)
(* of cgo_free on it.                                                       *)
Created == 1 .. nslices
Held == {s \in Created : slice[s].mem = "held"}

\* The bound: a request starts only while MaxSlices leaves room for it
\* and for the requests in progress.
Room == nslices + Cardinality({t \in Threads : pc[t] \in {"malloc", "undo"}}) < MaxSlices

-----------------------------------------------------------------------------
(* newCGoSlice(n, force) and its callers.                                   *)

\* Mutant: the cap checked against the counter before this Add.
WithinCapBefore(after, n) == after - n <= MaxOffheap

\* `!force && after > MaxOffheapBytes()` refuses: the check passes when
\* forced or within the cap.
WithinCap(after, n) == after <= MaxOffheap

\* `after := allocOffheapBytes.Add(int64(n))`, and the check of after.
Reserve(t, n, force) ==
  /\ counter' = counter + n
  /\ req' = [req EXCEPT ![t] = [n |-> n, force |-> force]]
  /\ pc' = [pc EXCEPT ![t] = IF force \/ WithinCap(counter + n, n) THEN "malloc" ELSE "undo"]

\* MakeSlice(n): off-heap from MinOffheapSlice on (a heap slice below it
\* changes nothing here).  MakeOffheapSlice(n): forced.
MakeSlice(t, n) ==
  /\ pc[t] = "idle"
  /\ Room
  /\ n >= MinOffheapSlice
  /\ Reserve(t, n, FALSE)
  /\ UNCHANGED <<nslices, slice, cur, fpc>>

MakeOffheapSlice(t, n) ==
  /\ pc[t] = "idle"
  /\ Room
  /\ Reserve(t, n, TRUE)
  /\ UNCHANGED <<nslices, slice, cur, fpc>>

\* Mutant: SetFinalizer forgotten.
FinalizerMissing == FALSE

\* runtime.SetFinalizer(s, (*cgoSlice).reclaim)
FinalizerSet == TRUE

\* `p := cgo_malloc(n)` succeeds: the slice, with its finalizer.
MallocOK(t) ==
  LET s == nslices + 1
  IN  /\ pc[t] = "malloc"
      /\ nslices' = s
      /\ slice' = [slice EXCEPT ![s] = [n |-> req[t].n, force |-> req[t].force, mem |-> "held",
                                        fin |-> FinalizerSet, owner |-> t, frees |-> 0]]
      /\ cur' = [cur EXCEPT ![t] = s]
      /\ pc' = [pc EXCEPT ![t] = "own"]
      /\ UNCHANGED <<counter, req, fpc>>

\* Mutant: a failed cgo_malloc returns nil and keeps its reservation.
MallocFailedKeeps(t) == "idle"

\* `if p == nil { allocOffheapBytes.Sub(int64(n)); return nil }`
MallocFailed(t) == "undo"

MallocFail(t) ==
  /\ pc[t] = "malloc"
  /\ pc' = [pc EXCEPT ![t] = MallocFailed(t)]
  /\ UNCHANGED <<counter, nslices, slice, req, cur, fpc>>

\* `allocOffheapBytes.Sub(int64(n)); return nil`: MakeSlice falls back to
\* newGoSlice(n), MakeOffheapSlice returns nil.
Undo(t) ==
  /\ pc[t] = "undo"
  /\ counter' = counter - req[t].n
  /\ pc' = [pc EXCEPT ![t] = "idle"]
  /\ UNCHANGED <<nslices, slice, req, cur, fpc>>

-----------------------------------------------------------------------------
(* reclaim(), by FreeSlice or by the finalizer goroutine.                  *)

\* Mutant: reclaim without the `if s.ptr == nil { return }` guard.
PtrSetUnchecked(s) == TRUE

\* `if s.ptr == nil { return }`: s.ptr is still set after cgo_free, until
\* `s.ptr = nil`.
PtrSet(s) == slice[s].mem # "nil"

\* FreeSlice(s): s.reclaim(); past the guard, `cgo_free(s.ptr)`.
FreeSlice(t) ==
  LET s == cur[t]
  IN  /\ pc[t] = "own"
      /\ IF PtrSet(s)
           THEN /\ slice' = [slice EXCEPT ![s].mem = "freed", ![s].frees = @ + 1]
                /\ pc' = [pc EXCEPT ![t] = "sub"]
           ELSE UNCHANGED <<slice, pc>>
      /\ UNCHANGED <<counter, nslices, req, cur, fpc>>

\* Mutant: `s.ptr = nil` forgotten.
ReclaimRestPtrKept(s) ==
  /\ counter' = counter - slice[s].n
  /\ slice' = [slice EXCEPT ![s].fin = FALSE]

\* `allocOffheapBytes.Sub(int64(len(s.buf))); s.ptr = nil; s.buf = nil;
\* runtime.SetFinalizer(s, nil)`
ReclaimRest(s) ==
  /\ counter' = counter - slice[s].n
  /\ slice' = [slice EXCEPT ![s].mem = "nil", ![s].fin = FALSE]

FreeSliceSub(t) ==
  /\ pc[t] = "sub"
  /\ ReclaimRest(cur[t])
  /\ pc' = [pc EXCEPT ![t] = "own"]
  /\ UNCHANGED <<nslices, req, cur, fpc>>

\* The goroutine drops its last reference to the slice.
Drop(t) ==
  /\ pc[t] = "own"
  /\ slice' = [slice EXCEPT ![cur[t]].owner = NoThread]
  /\ cur' = [cur EXCEPT ![t] = NoSlice]
  /\ pc' = [pc EXCEPT ![t] = "idle"]
  /\ UNCHANGED <<counter, nslices, req, fpc>>

\* The finalizer goroutine runs the finalizer of an unreachable slice,
\* which the runtime clears first: reclaim, up to its cgo_free.
Finalize(s) ==
  /\ fpc = NoSlice
  /\ s \in Created
  /\ slice[s].owner = NoThread
  /\ slice[s].fin
  /\ IF PtrSet(s)
       THEN /\ slice' = [slice EXCEPT ![s].fin = FALSE, ![s].mem = "freed", ![s].frees = @ + 1]
            /\ fpc' = s
       ELSE /\ slice' = [slice EXCEPT ![s].fin = FALSE]
            /\ UNCHANGED fpc
  /\ UNCHANGED <<counter, nslices, pc, req, cur>>

FinalizeSub ==
  /\ fpc # NoSlice
  /\ ReclaimRest(fpc)
  /\ fpc' = NoSlice
  /\ UNCHANGED <<nslices, pc, req, cur>>

-----------------------------------------------------------------------------
Init ==
  /\ counter = 0
  /\ nslices = 0
  /\ slice = [s \in Ids |-> [n |-> 0, force |-> FALSE, mem |-> "nil", fin |-> FALSE,
                             owner |-> NoThread, frees |-> 0]]
  /\ pc = [t \in Threads |-> "idle"]
  /\ req = [t \in Threads |-> [n |-> 0, force |-> FALSE]]
  /\ cur = [t \in Threads |-> NoSlice]
  /\ fpc = NoSlice

Next ==
  \/ \E t \in Threads, n \in Sizes : MakeSlice(t, n) \/ MakeOffheapSlice(t, n)
  \/ \E t \in Threads :
       MallocOK(t) \/ MallocFail(t) \/ Undo(t) \/ FreeSlice(t) \/ FreeSliceSub(t) \/ Drop(t)
  \/ \E s \in Ids : Finalize(s)
  \/ FinalizeSub

Spec == Init /\ [][Next]_vars

\* A goroutine that has started a reclaim finishes it, and the runtime
\* runs the finalizer of an unreachable slice (specification 4.3).
Fairness ==
  /\ \A t \in Threads : WF_vars(FreeSliceSub(t)) /\ WF_vars(Undo(t))
  /\ \A s \in Ids : WF_vars(Finalize(s))
  /\ WF_vars(FinalizeSub)

FairSpec == Spec /\ Fairness
-----------------------------------------------------------------------------
(* Properties.                                                            *)

TypeOK ==
  /\ counter \in Nat
  /\ nslices \in 0 .. MaxSlices
  /\ slice \in [Ids -> [n : Sizes \cup {0}, force : BOOLEAN, mem : {"held", "freed", "nil"},
                        fin : BOOLEAN, owner : Threads \cup {NoThread}, frees : Nat]]
  /\ pc \in [Threads -> {"idle", "malloc", "undo", "own", "sub"}]
  /\ req \in [Threads -> [n : Sizes \cup {0}, force : BOOLEAN]]
  /\ cur \in [Threads -> Ids \cup {NoSlice}]
  /\ fpc \in Ids \cup {NoSlice}

\* No allocation and no reclaim is between its counter operations.
Quiescent == fpc = NoSlice /\ \A t \in Threads : pc[t] \in {"idle", "own"}

\* cgo_free runs at most once on a slice, when FreeSlice is called again
\* after a reclaim and when the slice is dropped after FreeSlice.
NoDoubleFree == \A s \in Ids : slice[s].frees <= 1

\* A slice dropped while its memory is held is eventually reclaimed by its
\* finalizer, and its bytes subtracted from allocOffheapBytes.
UnreachableReclaimed ==
  \A s \in Ids :
    (s \in Created /\ slice[s].owner = NoThread /\ slice[s].mem = "held")
      ~> slice[s].mem = "nil"

=============================================================================
