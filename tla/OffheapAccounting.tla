-------------------------- MODULE OffheapAccounting --------------------------
(***************************************************************************)
(* The byte accounting of OffheapAlloc: what allocOffheapBytes should     *)
(* equal, and the refinement of OffheapSpec, both stated with sums over   *)
(* the held slices (ByteSums).                                             *)
(***************************************************************************)
EXTENDS OffheapAlloc, ByteSums

\* The bytes the held slices own: `len(s.buf)` of every slice whose s.ptr
\* is still cgo memory.
HeldBytes == SumBytes(Held, [s \in Ids |-> slice[s].n])

\* OffheapBytes() is exact whenever no goroutine is between its Add and its
\* Sub: every reservation refused by the cap or by cgo_malloc has been
\* given back, and every reclaimed slice, whether by FreeSlice or by the
\* finalizer, has been subtracted once, however the goroutines interleave.
OffheapBytesExact == Quiescent => counter = HeldBytes

\* The allocator implements OffheapSpec: a slice's memory is taken when
\* cgo_malloc returns and given back at its cgo_free, and a MakeSlice
\* allocation is granted only while the slices that honour the cap hold
\* at most MaxOffheapBytes() with it, although the check is made on the
\* counter, at the Add, before the cgo_malloc and among the reservations
\* of the other goroutines.
Abs == INSTANCE OffheapSpec WITH
         held <- [s \in Held |-> [n |-> slice[s].n, force |-> slice[s].force]]

ImplementsOffheapSpec == Abs!Spec

\* The goroutines whose reservation passed the cap check (or was forced)
\* and which are in cgo_malloc.
Granted == {t \in Threads : pc[t] = "malloc"}

\* The bytes the counter rightly holds: the slices whose memory is held or
\* whose reclaim has not reached its Sub yet, and the reservations that
\* passed the check.  Only the reservations refused by the check or by
\* cgo_malloc and not yet given back with their Sub are left out.
CommittedBytes ==
  SumBytes({s \in Created : slice[s].mem \in {"held", "freed"}}, [s \in Ids |-> slice[s].n])
    + SumBytes(Granted, [t \in Threads |-> req[t].n])

\* Specification 4.3: MakeSlice falls back to the GC heap "when the cap is
\* reached".  Stated so that only the Add-then-check of newCGoSlice can
\* break it: an unforced request is refused only if the committed bytes
\* with it pass MaxOffheapBytes(), i.e. never because of another
\* goroutine's reservation that was itself refused and awaits its Sub.
RefusedOnlyAtCap ==
  [][\A t \in Threads :
       pc[t] = "idle" /\ pc'[t] = "undo" => CommittedBytes + req'[t].n > MaxOffheap]_vars

=============================================================================
