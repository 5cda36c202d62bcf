----------------------------- MODULE OffheapSpec -----------------------------
(***************************************************************************)
(* What the off-heap slice allocator promises (specification 4.3), with  *)
(* no reservation counter: a slice's memory is taken in one step and      *)
(* given back in one step.  An allocation that honours the cap            *)
(* (MakeSlice) is granted only while the memory held by such slices stays *)
(* within the cap; a forced one (MakeOffheapSlice) is always granted; any *)
(* allocation may be refused, the caller then falling back to the GC      *)
(* heap.  Freed memory is given back exactly once.                         *)
(***************************************************************************)
EXTENDS Naturals, FiniteSets, ByteSums

CONSTANTS
  Ids,          \* slice identities
  Sizes,        \* the sizes requested
  MaxOffheap    \* MaxOffheapBytes()

VARIABLE held   \* the slices holding memory: id -> [n, force]

\* The bytes held by the slices that honour the cap.
CappedBytes(h) == SumBytes({id \in DOMAIN h : ~h[id].force}, [id \in DOMAIN h |-> h[id].n])

\* h with slice id added to it.
Extend(h, id, s) == [x \in DOMAIN h \cup {id} |-> IF x = id THEN s ELSE h[x]]

Alloc(id, n, force) ==
  /\ id \notin DOMAIN held
  /\ force \/ CappedBytes(held) + n <= MaxOffheap
  /\ held' = Extend(held, id, [n |-> n, force |-> force])

Free(id) ==
  /\ id \in DOMAIN held
  /\ held' = [x \in DOMAIN held \ {id} |-> held[x]]

Init == held = [x \in {} |-> [n |-> 0, force |-> FALSE]]

Next ==
  \/ \E id \in Ids, n \in Sizes, force \in BOOLEAN : Alloc(id, n, force)
  \/ \E id \in Ids : Free(id)

Spec == Init /\ [][Next]_held

\* The cap: the slices that honour it never hold more than MaxOffheap.
CapRespected == CappedBytes(held) <= MaxOffheap
=============================================================================
