--------------------------- MODULE OffheapAllocProofs --------------------------
(***************************************************************************)
(* The step of the proof that cgo_free runs at most once on an off-heap    *)
(* slice: FreeSlice and the finalizer goroutine both reach reclaim, whose  *)
(* `s.ptr == nil` guard turns away a slice whose s.ptr was set to nil.     *)
(* The guard does not see a slice between its cgo_free and its            *)
(* `s.ptr = nil`; that reclaim never meets one is Reentry, which the       *)
(* ownership invariant of OffheapAccountingProofs provides.                *)
(***************************************************************************)
EXTENDS OffheapAlloc, TLAPS

\* The fields of a slice.
SliceRec == [n : Sizes \cup {0}, force : BOOLEAN, mem : {"held", "freed", "nil"},
             fin : BOOLEAN, owner : Threads \cup {NoThread}, frees : Nat]

\* The part of TypeOK the argument needs: every slice is a record of
\* SliceRec and every request a size.  (allocOffheapBytes is left out: its
\* range is a statement about sums, which OffheapAccounting states.)
ShapeOK ==
  /\ slice \in [Ids -> SliceRec]
  /\ req \in [Threads -> [n : Sizes \cup {0}, force : BOOLEAN]]

\* A slice has been freed at most once, and not at all while its memory is
\* still held.
FreedOnce ==
  \A s \in Ids : /\ slice[s].frees \in {0, 1}
                 /\ slice[s].mem = "held" => slice[s].frees = 0

IInv == ShapeOK /\ FreedOnce

\* reclaim is never entered on a slice between its cgo_free and its
\* `s.ptr = nil`: not by its owner's FreeSlice, nor by the finalizer of an
\* unreachable slice while the finalizer goroutine is idle.
Reentry ==
  /\ \A t \in Threads : pc[t] = "own" /\ cur[t] \in Ids => slice[cur[t]].mem # "freed"
  /\ \A s \in Created : fpc = NoSlice /\ slice[s].owner = NoThread => slice[s].mem # "freed"

\* Setting one field of a slice record to a value of its type keeps it a
\* slice record.
LEMMA SetFrees ==
  ASSUME NEW x \in SliceRec, NEW v \in Nat PROVE [x EXCEPT !.frees = v] \in SliceRec
BY DEF SliceRec

LEMMA SetMem ==
  ASSUME NEW x \in SliceRec, NEW v \in {"held", "freed", "nil"}
  PROVE  [x EXCEPT !.mem = v] \in SliceRec
BY DEF SliceRec

LEMMA SetFin ==
  ASSUME NEW x \in SliceRec, NEW v \in BOOLEAN PROVE [x EXCEPT !.fin = v] \in SliceRec
BY DEF SliceRec

\* reclaim's cgo_free on a slice not yet freed: its memory is "freed" and
\* it has been freed once.
LEMMA FreeRec ==
  ASSUME NEW x \in SliceRec, x.frees = 0
  PROVE  LET r == [x EXCEPT !.mem = "freed", !.frees = @ + 1]
         IN  r \in SliceRec /\ r.frees = 1 /\ r.mem = "freed"
<1> DEFINE y == [x EXCEPT !.mem = "freed"]
<1>1. y \in SliceRec
  BY SetMem
<1>2. y.frees = 0 /\ y.mem = "freed"
  BY DEF SliceRec
<1>3. [y EXCEPT !.frees = 1] \in SliceRec
  BY <1>1, SetFrees
<1>4. [y EXCEPT !.frees = 1].frees = 1 /\ [y EXCEPT !.frees = 1].mem = "freed"
  BY <1>1, <1>2 DEF SliceRec
<1>5. [x EXCEPT !.mem = "freed", !.frees = @ + 1] = [y EXCEPT !.frees = 1]
  BY <1>2
<1> QED
  BY <1>3, <1>4, <1>5

LEMMA InitIInv == Init => IInv
BY OffheapAssumption DEF Init, IInv, ShapeOK, FreedOnce, SliceRec

\* An update of the fields of one slice that keeps it in SliceRec and
\* FreedOnce keeps IInv, whether or not the index is a slice.
LEMMA SliceUpdate ==
  ASSUME IInv, NEW x, NEW r,
         x \in Ids => /\ r \in SliceRec /\ r.frees \in {0, 1}
                      /\ r.mem = "held" => r.frees = 0,
         slice' = [slice EXCEPT ![x] = r], req' = req
  PROVE  IInv'
BY DEF IInv, ShapeOK, FreedOnce

LEMMA NextIInv == IInv /\ Reentry /\ [Next]_vars => IInv'
<1> SUFFICES ASSUME IInv, Reentry, [Next]_vars PROVE IInv'
  OBVIOUS
<1> USE DEF IInv, ShapeOK, FreedOnce
<1>1. ASSUME NEW t \in Threads, NEW n \in Sizes, MakeSlice(t, n) \/ MakeOffheapSlice(t, n)
      PROVE  IInv'
  <2>1. /\ slice' = slice
        /\ \E force \in BOOLEAN : req' = [req EXCEPT ![t] = [n |-> n, force |-> force]]
    BY <1>1 DEF MakeSlice, MakeOffheapSlice, Reserve
  <2>2. req' \in [Threads -> [n : Sizes \cup {0}, force : BOOLEAN]]
    BY <2>1
  <2> QED
    BY <2>1, <2>2
<1>2. ASSUME NEW t \in Threads, MallocOK(t) PROVE IInv'
  <2> DEFINE r == [n |-> req[t].n, force |-> req[t].force, mem |-> "held",
                   fin |-> FinalizerSet, owner |-> t, frees |-> 0]
  <2>1. r \in SliceRec /\ r.frees \in {0, 1} /\ (r.mem = "held" => r.frees = 0)
    BY DEF SliceRec, FinalizerSet
  <2> QED
    BY <1>2, <2>1, SliceUpdate DEF MallocOK
<1>3. ASSUME NEW t \in Threads, MallocFail(t) \/ Undo(t) PROVE IInv'
  BY <1>3 DEF MallocFail, Undo
<1>4. ASSUME NEW t \in Threads, FreeSlice(t) PROVE IInv'
  <2> DEFINE s == cur[t]
  <2>1. CASE PtrSet(s)
    <3> DEFINE r == [slice[s] EXCEPT !.mem = "freed", !.frees = @ + 1]
    <3>0. s \in Ids => slice[s].mem = "held"
      BY <1>4, <2>1 DEF FreeSlice, PtrSet, Reentry, SliceRec
    <3>1. s \in Ids => /\ r \in SliceRec /\ r.frees \in {0, 1}
                       /\ r.mem = "held" => r.frees = 0
      BY <3>0, FreeRec
    <3>2. slice' = [slice EXCEPT ![s] = r] /\ req' = req
      BY <1>4, <2>1 DEF FreeSlice
    <3> QED
      BY <3>1, <3>2, SliceUpdate
  <2>2. CASE ~PtrSet(s)
    BY <1>4, <2>2 DEF FreeSlice
  <2> QED
    BY <2>1, <2>2
<1>5. ASSUME NEW s, ReclaimRest(s), req' = req PROVE IInv'
  <2> DEFINE r == [slice[s] EXCEPT !.mem = "nil", !.fin = FALSE]
  <2>1. s \in Ids => /\ r \in SliceRec /\ r.frees \in {0, 1}
                     /\ r.mem = "held" => r.frees = 0
    BY DEF SliceRec
  <2> QED
    BY <1>5, <2>1, SliceUpdate DEF ReclaimRest
<1>6. ASSUME NEW t \in Threads, FreeSliceSub(t) PROVE IInv'
  BY <1>6, <1>5 DEF FreeSliceSub
<1>7. ASSUME NEW t \in Threads, Drop(t) PROVE IInv'
  <2> DEFINE s == cur[t]
             r == [slice[s] EXCEPT !.owner = NoThread]
  <2>1. s \in Ids => /\ r \in SliceRec /\ r.frees \in {0, 1}
                     /\ r.mem = "held" => r.frees = 0
    BY DEF SliceRec
  <2> QED
    BY <1>7, <2>1, SliceUpdate DEF Drop
<1>8. ASSUME NEW s \in Ids, Finalize(s) PROVE IInv'
  <2>1. CASE PtrSet(s)
    <3> DEFINE z == [slice[s] EXCEPT !.fin = FALSE]
               r == [slice[s] EXCEPT !.fin = FALSE, !.mem = "freed", !.frees = @ + 1]
    <3>1. z \in SliceRec /\ z.frees = 0
      <4>0. slice[s].mem = "held"
        BY <1>8, <2>1 DEF Finalize, PtrSet, Reentry, SliceRec
      <4>1. slice[s] \in SliceRec /\ slice[s].frees = 0
        BY <4>0
      <4>2. z \in SliceRec
        BY <4>1, SetFin
      <4> QED
        BY <4>1, <4>2 DEF SliceRec
    <3>2. r = [z EXCEPT !.mem = "freed", !.frees = @ + 1]
      BY <3>1
    <3>3. /\ r \in SliceRec /\ r.frees \in {0, 1}
          /\ r.mem = "held" => r.frees = 0
      BY <3>1, <3>2, FreeRec
    <3> QED
      BY <1>8, <2>1, <3>3, SliceUpdate DEF Finalize
  <2>2. CASE ~PtrSet(s)
    <3> DEFINE r == [slice[s] EXCEPT !.fin = FALSE]
    <3>1. /\ r \in SliceRec /\ r.frees \in {0, 1}
          /\ r.mem = "held" => r.frees = 0
      BY DEF SliceRec
    <3> QED
      BY <1>8, <2>2, <3>1, SliceUpdate DEF Finalize
  <2> QED
    BY <2>1, <2>2
<1>9. CASE FinalizeSub
  BY <1>9, <1>5 DEF FinalizeSub
<1>10. CASE UNCHANGED vars
  BY <1>10 DEF vars
<1> QED
  BY <1>1, <1>2, <1>3, <1>4, <1>6, <1>7, <1>8, <1>9, <1>10 DEF Next

=============================================================================
