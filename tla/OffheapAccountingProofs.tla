------------------------ MODULE OffheapAccountingProofs ------------------------
(***************************************************************************)
(* Proofs about the byte accounting of the off-heap allocator, for every  *)
(* number of goroutines, sizes, cap and bound on slices: allocOffheapBytes *)
(* counts exactly the bytes of the live slices and of the reservations in  *)
(* progress, so OffheapBytes() is exact when no goroutine is between its   *)
(* Add and its Sub, and the allocator implements OffheapSpec.              *)
(***************************************************************************)
EXTENDS OffheapAccounting, OffheapAllocProofs, FiniteSetTheorems

-----------------------------------------------------------------------------
(* The inductive invariant.                                                *)

\* The size of every slice and of every goroutine's request.
SliceSize == [s \in Ids |-> slice[s].n]
ReqSize == [t \in Threads |-> req[t].n]

\* The slices whose bytes allocOffheapBytes still counts: held, or freed by
\* cgo_free with the Sub of reclaim still to come.
Live == {s \in Created : slice[s].mem \in {"held", "freed"}}

\* The goroutines between the Add of newCGoSlice and its cgo_malloc or its
\* Sub.
InFlight == {t \in Threads : pc[t] \in {"malloc", "undo"}}

\* The held slices that honour the cap, and the unforced reservations that
\* passed the check and wait for cgo_malloc.
CappedHeld == {s \in Held : ~slice[s].force}
CappedInFlight == {t \in Threads : pc[t] = "malloc" /\ ~req[t].force}

\* The shape of the state: TypeOK, with allocOffheapBytes any integer.
Shape ==
  /\ counter \in Int
  /\ nslices \in 0 .. MaxSlices
  /\ slice \in [Ids -> SliceRec]
  /\ pc \in [Threads -> {"idle", "malloc", "undo", "own", "sub"}]
  /\ req \in [Threads -> [n : Sizes \cup {0}, force : BOOLEAN]]
  /\ cur \in [Threads -> Ids \cup {NoSlice}]
  /\ fpc \in Ids \cup {NoSlice}

\* A goroutine owns a created slice exactly while it is past cgo_malloc,
\* no two goroutines own the same one, and each freed slice has exactly
\* one Sub to come: its owner's, in FreeSlice, or the finalizer's.  The
\* slice a goroutine owns is reachable (its owner field names it), and the
\* slice the finalizer goroutine reclaims is not.
Owners ==
  /\ \A t \in Threads : (cur[t] = NoSlice) <=> pc[t] \in {"idle", "malloc", "undo"}
  /\ \A t \in Threads : cur[t] # NoSlice => cur[t] \in Created
  /\ \A t, u \in Threads : t # u /\ cur[t] # NoSlice => cur[t] # cur[u]
  /\ \A t \in InFlight : req[t].n \in Sizes
  /\ \A t \in Threads : pc[t] = "sub" => slice[cur[t]].mem = "freed" /\ fpc # cur[t]
  /\ fpc # NoSlice => fpc \in Created /\ slice[fpc].mem = "freed"
  /\ \A s \in Created :
       slice[s].mem = "freed" => fpc = s \/ \E t \in Threads : pc[t] = "sub" /\ cur[t] = s
  /\ \A t \in Threads : cur[t] # NoSlice => slice[cur[t]].owner = t
  /\ fpc # NoSlice => slice[fpc].owner = NoThread

\* Room keeps the slices created and those being created within MaxSlices.
Bound == IsFiniteSet(InFlight) /\ nslices + Cardinality(InFlight) <= MaxSlices

\* allocOffheapBytes is the bytes of the live slices and of the
\* reservations in flight.
Acct ==
  /\ IsFiniteSet(ByteSet(Live, SliceSize)) /\ IsFiniteSet(ByteSet(InFlight, ReqSize))
  /\ counter = SumBytes(Live, SliceSize) + SumBytes(InFlight, ReqSize)

\* The held slices that honour the cap, with the unforced reservations
\* that passed the check, stay within MaxOffheapBytes().
Cap == SumBytes(CappedHeld, SliceSize) + SumBytes(CappedInFlight, ReqSize) <= MaxOffheap

AInv == Shape /\ IInv /\ Owners /\ Bound /\ Acct /\ Cap

-----------------------------------------------------------------------------
(* Lemmas on SumBytes: what adding, removing and keeping objects does to  *)
(* the bytes they hold.                                                    *)

LEMMA ByteSetEmpty ==
  ASSUME NEW f PROVE ByteSet({}, f) = {} /\ IsFiniteSet(ByteSet({}, f)) /\ SumBytes({}, f) = 0
<1>1. ByteSet({}, f) = {}
  BY DEF ByteSet
<1> QED
  BY <1>1, FS_EmptySet DEF SumBytes

\* The bytes of objects are the same when their sizes are.
LEMMA ByteSetExt ==
  ASSUME NEW S, NEW f, NEW g, \A x \in S : f[x] = g[x]
  PROVE  ByteSet(S, f) = ByteSet(S, g)
BY DEF ByteSet

\* A slice's or a request's size is a natural number.
LEMMA SizeNat ==
  ASSUME NEW v \in Sizes \cup {0} PROVE v \in Nat
<1>1. CASE v = 0
  BY <1>1
<1>2. CASE v \in Sizes
  BY <1>2, OffheapAssumption
<1> QED
  BY <1>1, <1>2

\* A finite set of bytes has a natural number of them.
LEMMA SumBytesNat ==
  ASSUME NEW S, NEW f, IsFiniteSet(ByteSet(S, f)) PROVE SumBytes(S, f) \in Nat
BY FS_CardinalityType DEF SumBytes

\* The bytes of fewer objects are fewer.
LEMMA ByteSetMono ==
  ASSUME NEW S, NEW T \in SUBSET S, NEW f, IsFiniteSet(ByteSet(S, f))
  PROVE  /\ IsFiniteSet(ByteSet(T, f))
         /\ SumBytes(T, f) <= SumBytes(S, f)
         /\ SumBytes(T, f) \in Nat
<1>1. ByteSet(T, f) \subseteq ByteSet(S, f)
  BY DEF ByteSet
<1>2. IsFiniteSet(ByteSet(T, f)) /\ Cardinality(ByteSet(T, f)) <= Cardinality(ByteSet(S, f))
  BY <1>1, FS_Subset
<1> QED
  BY <1>2, FS_CardinalityType DEF SumBytes

\* The bytes of one object of size n are n.
LEMMA OneObject ==
  ASSUME NEW x, NEW n \in Nat
  PROVE  IsFiniteSet({x} \X (1 .. n)) /\ Cardinality({x} \X (1 .. n)) = n
<1>1. IsFiniteSet({x}) /\ Cardinality({x}) = 1
  BY FS_Singleton
<1>2. IsFiniteSet(1 .. n) /\ Cardinality(1 .. n) = n
  BY FS_Interval
<1>3. /\ IsFiniteSet({x} \X (1 .. n))
      /\ Cardinality({x} \X (1 .. n)) = Cardinality({x}) * Cardinality(1 .. n)
  BY <1>1, <1>2, FS_Product
<1> QED
  BY <1>1, <1>2, <1>3

\* Adding an object of size f[x] adds f[x] bytes.
LEMMA ByteSetAdd ==
  ASSUME NEW S, NEW f, NEW x, x \notin S, f[x] \in Nat, IsFiniteSet(ByteSet(S, f))
  PROVE  /\ IsFiniteSet(ByteSet(S \cup {x}, f))
         /\ SumBytes(S \cup {x}, f) = SumBytes(S, f) + f[x]
<1> DEFINE A == ByteSet(S, f)  B == {x} \X (1 .. f[x])
<1>1. ByteSet(S \cup {x}, f) = A \cup B
  BY DEF ByteSet
<1>2. A \cap B = {}
  BY DEF ByteSet
<1>3. IsFiniteSet(B) /\ Cardinality(B) = f[x]
  BY OneObject
<1>0. IsFiniteSet(A)
  OBVIOUS
<1>4. IsFiniteSet(A \cup B) /\ Cardinality(A \cup B) = Cardinality(A) + Cardinality(B) - Cardinality(A \cap B)
  <2> HIDE DEF A, B
  <2> QED
    BY <1>0, <1>3, FS_Union
<1>5. Cardinality(A \cap B) = 0 /\ Cardinality(A) \in Nat
  BY <1>2, FS_EmptySet, FS_CardinalityType
<1>6. SumBytes(S \cup {x}, f) = Cardinality(A \cup B) /\ SumBytes(S, f) = Cardinality(A)
  BY <1>1 DEF SumBytes
<1>7. IsFiniteSet(ByteSet(S \cup {x}, f))
  BY <1>1, <1>4
<1> HIDE DEF A, B
<1> QED
  BY <1>3, <1>4, <1>5, <1>6, <1>7

\* Removing an object of size f[x] takes f[x] bytes away.
LEMMA ByteSetRemove ==
  ASSUME NEW S, NEW f, NEW x \in S, f[x] \in Nat, IsFiniteSet(ByteSet(S, f))
  PROVE  /\ IsFiniteSet(ByteSet(S \ {x}, f))
         /\ SumBytes(S \ {x}, f) = SumBytes(S, f) - f[x]
         /\ SumBytes(S \ {x}, f) \in Nat
<1>1. IsFiniteSet(ByteSet(S \ {x}, f)) /\ SumBytes(S \ {x}, f) \in Nat
  BY ByteSetMono
<1>2. SumBytes((S \ {x}) \cup {x}, f) = SumBytes(S \ {x}, f) + f[x]
  <2>1. x \notin S \ {x}
    OBVIOUS
  <2> QED
    BY <1>1, <2>1, ByteSetAdd
<1>3. SumBytes((S \ {x}) \cup {x}, f) = SumBytes(S, f)
  <2>1. (S \ {x}) \cup {x} = S
    OBVIOUS
  <2> QED
    BY <2>1
<1> QED
  BY <1>1, <1>2, <1>3

-----------------------------------------------------------------------------
(* The invariant holds initially and is kept by every step.                *)

\* reclaim never meets a slice between its cgo_free and `s.ptr = nil`: the
\* Sub still owed on such a slice is its owner's while the owner holds it,
\* and the finalizer's once it is unreachable, so neither the owner's
\* FreeSlice nor the finalizer of an unreachable slice can come to it.
LEMMA AInvReentry == AInv => Reentry
<1> SUFFICES ASSUME AInv PROVE Reentry
  OBVIOUS
<1>0. Shape /\ Owners
  BY DEF AInv
<1>1. ASSUME NEW t \in Threads, pc[t] = "own", cur[t] \in Ids, slice[cur[t]].mem = "freed"
      PROVE  FALSE
  <2>1. cur[t] # NoSlice /\ cur[t] \in Created /\ slice[cur[t]].owner = t
    BY <1>0, <1>1 DEF Owners
  <2>2. fpc = cur[t] \/ \E u \in Threads : pc[u] = "sub" /\ cur[u] = cur[t]
    BY <1>0, <1>1, <2>1 DEF Owners
  <2>3. CASE fpc = cur[t]
    BY <1>0, <2>1, <2>3, OffheapAssumption DEF Owners
  <2>4. CASE \E u \in Threads : pc[u] = "sub" /\ cur[u] = cur[t]
    BY <1>0, <1>1, <2>1, <2>4 DEF Owners
  <2> QED
    BY <2>2, <2>3, <2>4
<1>2. ASSUME NEW x \in Created, fpc = NoSlice, slice[x].owner = NoThread,
             slice[x].mem = "freed"
      PROVE  FALSE
  <2>1. fpc # x
    BY <1>2, OffheapAssumption DEF Created
  <2>2. PICK u \in Threads : pc[u] = "sub" /\ cur[u] = x
    BY <1>0, <1>2, <2>1 DEF Owners
  <2>3. cur[u] # NoSlice
    BY <1>0, <2>2 DEF Owners
  <2> QED
    BY <1>0, <1>2, <2>2, <2>3, OffheapAssumption DEF Owners
<1> QED
  BY <1>1, <1>2 DEF Reentry

\* So past reclaim's guard the owner's slice is held ...
LEMMA FreeSliceHeld ==
  ASSUME AInv, NEW t \in Threads, pc[t] = "own", PtrSet(cur[t])
  PROVE  cur[t] \in Ids /\ slice[cur[t]].mem = "held"
<1>1. cur[t] \in Ids /\ slice[cur[t]] \in SliceRec
  BY OffheapAssumption DEF AInv, Owners, Shape, Created, Ids
<1>2. slice[cur[t]].mem # "freed"
  BY <1>1, AInvReentry DEF Reentry
<1> QED
  BY <1>1, <1>2 DEF PtrSet, SliceRec

\* ... and so is the finalizer's.
LEMMA FinalizeHeld ==
  ASSUME AInv, NEW s \in Ids, Finalize(s), PtrSet(s)
  PROVE  slice[s].mem = "held"
<1>1. slice[s] \in SliceRec
  BY DEF AInv, Shape
<1>2. slice[s].mem # "freed"
  BY AInvReentry DEF Finalize, Reentry
<1> QED
  BY <1>1, <1>2 DEF PtrSet, SliceRec

LEMMA InitAInv == Init => AInv
<1> SUFFICES ASSUME Init PROVE AInv
  OBVIOUS
<1>1. Created = {} /\ Held = {} /\ Live = {} /\ InFlight = {}
      /\ CappedHeld = {} /\ CappedInFlight = {}
  BY DEF Init, Created, Held, Live, InFlight, CappedHeld, CappedInFlight
<1>2. Shape
  BY OffheapAssumption DEF Init, Shape, SliceRec
<1>3. IInv
  BY InitIInv
<1>4. Owners
  BY <1>1, OffheapAssumption DEF Init, Owners
<1>5. Bound
  BY <1>1, FS_EmptySet, OffheapAssumption DEF Init, Bound
<1>6. Acct
  BY <1>1, ByteSetEmpty DEF Init, Acct
<1>7. Cap
  BY <1>1, ByteSetEmpty, OffheapAssumption DEF Cap
<1> QED
  BY <1>2, <1>3, <1>4, <1>5, <1>6, <1>7 DEF AInv

\* The Add of newCGoSlice, for MakeSlice and MakeOffheapSlice alike: the
\* reservation joins those in flight, and when it passes the cap check
\* unforced, the counter it was checked against bounds the capped bytes.
LEMMA ReserveStep ==
  ASSUME AInv, IInv', NEW t \in Threads, NEW n \in Sizes, NEW force \in BOOLEAN,
         pc[t] = "idle", Room, Reserve(t, n, force), UNCHANGED <<nslices, slice, cur, fpc>>
  PROVE  AInv'
<1>0. /\ Shape /\ Owners /\ Bound /\ Acct /\ Cap
      /\ n \in Nat /\ MaxOffheap \in Nat
  BY OffheapAssumption DEF AInv
<1>1. /\ counter' = counter + n
      /\ req' = [req EXCEPT ![t] = [n |-> n, force |-> force]]
      /\ pc' = [pc EXCEPT ![t] = IF force \/ counter + n <= MaxOffheap THEN "malloc" ELSE "undo"]
  BY DEF Reserve, WithinCap
<1>2. t \notin InFlight /\ InFlight' = InFlight \cup {t}
  BY <1>0, <1>1 DEF InFlight, Shape
<1>3. /\ ReqSize'[t] = n
      /\ \A u \in Threads \ {t} : ReqSize'[u] = ReqSize[u]
  BY <1>0, <1>1 DEF ReqSize, Shape
<1>4. Live' = Live /\ SliceSize' = SliceSize /\ Held' = Held /\ CappedHeld' = CappedHeld
  BY DEF Live, SliceSize, Created, Held, CappedHeld
<1>5. ByteSet(InFlight, ReqSize') = ByteSet(InFlight, ReqSize)
  BY <1>2, <1>3, ByteSetExt DEF InFlight
<1>6. /\ IsFiniteSet(ByteSet(InFlight', ReqSize'))
      /\ SumBytes(InFlight', ReqSize') = SumBytes(InFlight, ReqSize) + n
  <2>1. /\ IsFiniteSet(ByteSet(InFlight, ReqSize'))
        /\ SumBytes(InFlight, ReqSize') = SumBytes(InFlight, ReqSize)
    BY <1>0, <1>5 DEF Acct, SumBytes
  <2>2. ReqSize'[t] \in Nat
    BY <1>0, <1>3
  <2>3. /\ IsFiniteSet(ByteSet(InFlight \cup {t}, ReqSize'))
        /\ SumBytes(InFlight \cup {t}, ReqSize') = SumBytes(InFlight, ReqSize') + ReqSize'[t]
    BY <1>2, <2>1, <2>2, ByteSetAdd
  <2> QED
    BY <1>2, <1>3, <2>1, <2>3
<1>7. Acct'
  <2>1. ByteSet(Live', SliceSize') = ByteSet(Live, SliceSize)
        /\ SumBytes(Live', SliceSize') = SumBytes(Live, SliceSize)
    BY <1>4
  <2>2. SumBytes(Live, SliceSize) \in Nat /\ SumBytes(InFlight, ReqSize) \in Nat
    BY <1>0, SumBytesNat DEF Acct
  <2>3. counter' = SumBytes(Live', SliceSize') + SumBytes(InFlight', ReqSize')
    BY <1>0, <1>1, <1>6, <2>1, <2>2 DEF Acct
  <2> QED
    BY <1>0, <1>6, <2>1, <2>3 DEF Acct
<1>8. Bound'
  <2>1. IsFiniteSet(InFlight') /\ Cardinality(InFlight') = Cardinality(InFlight) + 1
    BY <1>0, <1>2, FS_AddElement DEF Bound
  <2>2. Cardinality(InFlight) \in Nat
    BY <1>0, FS_CardinalityType DEF Bound
  <2>3. nslices + Cardinality(InFlight) < MaxSlices
    BY DEF Room, InFlight
  <2>4. nslices' = nslices
    OBVIOUS
  <2>5. nslices' + Cardinality(InFlight') <= MaxSlices
    BY <1>0, <2>1, <2>2, <2>3, <2>4, OffheapAssumption DEF Shape
  <2> QED
    BY <2>1, <2>5 DEF Bound
<1>9. Cap'
  <2>1. CASE ~force /\ counter + n <= MaxOffheap
    <3>1. CappedInFlight' \subseteq InFlight' /\ CappedHeld \subseteq Live
      BY DEF CappedInFlight, InFlight, CappedHeld, Held, Live
    <3>2. /\ SumBytes(CappedHeld, SliceSize) <= SumBytes(Live, SliceSize)
          /\ SumBytes(CappedHeld, SliceSize) \in Nat
      BY <1>0, <3>1, ByteSetMono DEF Acct
    <3>3. /\ SumBytes(CappedInFlight', ReqSize') <= SumBytes(InFlight', ReqSize')
          /\ SumBytes(CappedInFlight', ReqSize') \in Nat
      BY <1>6, <3>1, ByteSetMono
    <3>4. /\ SumBytes(Live, SliceSize) \in Nat /\ SumBytes(InFlight', ReqSize') \in Nat
      BY <1>0, <1>6, ByteSetMono DEF Acct
    <3>5. counter' = SumBytes(Live, SliceSize) + SumBytes(InFlight', ReqSize')
      BY <1>4, <1>7 DEF Acct
    <3>6. SumBytes(CappedHeld', SliceSize') = SumBytes(CappedHeld, SliceSize)
      BY <1>4
    <3> QED
      BY <1>0, <1>1, <2>1, <3>2, <3>3, <3>4, <3>5, <3>6 DEF Cap
  <2>2. CASE force \/ counter + n > MaxOffheap
    <3>1. CappedInFlight' = CappedInFlight /\ t \notin CappedInFlight
      BY <1>0, <1>1, <2>2 DEF CappedInFlight, Shape
    <3>2. ByteSet(CappedInFlight', ReqSize') = ByteSet(CappedInFlight, ReqSize)
      <4>1. \A x \in CappedInFlight : ReqSize'[x] = ReqSize[x]
        BY <1>3, <3>1 DEF CappedInFlight
      <4>2. ByteSet(CappedInFlight, ReqSize') = ByteSet(CappedInFlight, ReqSize)
        BY <4>1, ByteSetExt
      <4> QED
        BY <3>1, <4>2
    <3> QED
      BY <1>0, <1>4, <3>2 DEF Cap, SumBytes
  <2> QED
    BY <1>0, <2>1, <2>2 DEF Shape
<1>10. Owners'
  BY <1>0, <1>1, <1>2 DEF Owners, Shape, InFlight, Created
<1>11. Shape'
  BY <1>0, <1>1, IInv' DEF Shape, IInv, ShapeOK
<1> QED
  BY <1>7, <1>8, <1>9, <1>10, <1>11 DEF AInv

\* A successful cgo_malloc: the reservation becomes slice nslices + 1,
\* owned by its goroutine, and its bytes move from the reservations in
\* flight to the live slices.
LEMMA MallocOKStep ==
  ASSUME AInv, IInv', NEW t \in Threads, MallocOK(t)
  PROVE  AInv'
<1> DEFINE s == nslices + 1
<1>0. /\ Shape /\ Owners /\ Bound /\ Acct /\ Cap /\ MaxOffheap \in Nat /\ MaxSlices \in Nat
  BY OffheapAssumption DEF AInv
<1>1. /\ pc[t] = "malloc" /\ nslices' = s
      /\ slice' = [slice EXCEPT ![s] = [n |-> req[t].n, force |-> req[t].force, mem |-> "held",
                                         fin |-> TRUE, owner |-> t, frees |-> 0]]
      /\ cur' = [cur EXCEPT ![t] = s] /\ pc' = [pc EXCEPT ![t] = "own"]
      /\ counter' = counter /\ req' = req /\ fpc' = fpc
  BY DEF MallocOK, FinalizerSet
<1>2. t \in InFlight /\ InFlight' = InFlight \ {t} /\ req[t].n \in Sizes
  BY <1>0, <1>1 DEF InFlight, Shape, Owners
<1>3. s \in Ids /\ s \notin Created /\ Created' = Created \cup {s} /\ s \in Nat
  <2>1. Cardinality(InFlight) \in Nat /\ Cardinality(InFlight) # 0
    BY <1>0, <1>2, FS_CardinalityType, FS_EmptySet DEF Bound
  <2> QED
    BY <1>0, <1>1, <2>1 DEF Bound, Shape, Created, Ids
<1>4. /\ slice'[s].n = req[t].n /\ slice'[s].force = req[t].force /\ slice'[s].mem = "held"
      /\ \A x \in Ids \ {s} : slice'[x] = slice[x]
  BY <1>0, <1>1, <1>3 DEF Shape
<1>5. /\ Live' = Live \cup {s} /\ s \notin Live
      /\ Held' = Held \cup {s}
      /\ CappedHeld' = IF req[t].force THEN CappedHeld ELSE CappedHeld \cup {s}
  BY <1>0, <1>3, <1>4 DEF Live, Held, CappedHeld, Created, Shape, Ids
<1>6. /\ \A x \in Live : SliceSize'[x] = SliceSize[x]
      /\ SliceSize'[s] = req[t].n /\ req[t].n \in Nat
      /\ ReqSize' = ReqSize /\ ReqSize[t] = req[t].n
  <2>1. \A x \in Live : SliceSize'[x] = SliceSize[x]
    <3> SUFFICES ASSUME NEW x \in Live PROVE SliceSize'[x] = SliceSize[x]
      OBVIOUS
    <3>1. x \in Ids \ {s}
      BY <1>0, <1>3 DEF Live, Created, Ids, Shape
    <3> QED
      BY <1>4, <3>1 DEF SliceSize
  <2>2. SliceSize'[s] = req[t].n
    BY <1>3, <1>4 DEF SliceSize
  <2>3. req[t].n \in Nat
    BY <1>2, OffheapAssumption
  <2>4. ReqSize' = ReqSize /\ ReqSize[t] = req[t].n
    BY <1>1 DEF ReqSize
  <2> QED
    BY <2>1, <2>2, <2>3, <2>4
<1>7. ByteSet(Live, SliceSize') = ByteSet(Live, SliceSize)
  BY <1>6, ByteSetExt
<1>8. /\ IsFiniteSet(ByteSet(Live', SliceSize'))
      /\ SumBytes(Live', SliceSize') = SumBytes(Live, SliceSize) + req[t].n
  <2>1. IsFiniteSet(ByteSet(Live, SliceSize')) /\ SumBytes(Live, SliceSize') = SumBytes(Live, SliceSize)
    BY <1>0, <1>7 DEF Acct, SumBytes
  <2>2. /\ IsFiniteSet(ByteSet(Live \cup {s}, SliceSize'))
        /\ SumBytes(Live \cup {s}, SliceSize') = SumBytes(Live, SliceSize') + SliceSize'[s]
    BY <1>5, <1>6, <2>1, ByteSetAdd
  <2> QED
    BY <1>5, <1>6, <2>1, <2>2
<1>9. /\ IsFiniteSet(ByteSet(InFlight', ReqSize'))
      /\ SumBytes(InFlight', ReqSize') = SumBytes(InFlight, ReqSize) - req[t].n
  <2>1. /\ IsFiniteSet(ByteSet(InFlight \ {t}, ReqSize))
        /\ SumBytes(InFlight \ {t}, ReqSize) = SumBytes(InFlight, ReqSize) - ReqSize[t]
    BY <1>0, <1>2, <1>6, ByteSetRemove DEF Acct
  <2>2. ReqSize[t] = req[t].n
    BY <1>6
  <2> QED
    BY <1>2, <1>6, <2>1, <2>2
<1>10. Acct'
  <2>1. SumBytes(Live, SliceSize) \in Nat /\ SumBytes(InFlight, ReqSize) \in Nat
    BY <1>0, SumBytesNat DEF Acct
  <2>2. counter' = SumBytes(Live', SliceSize') + SumBytes(InFlight', ReqSize')
    BY <1>0, <1>1, <1>6, <1>8, <1>9, <2>1 DEF Acct
  <2> QED
    BY <1>8, <1>9, <2>2 DEF Acct
<1>11. Bound'
  <2>1. IsFiniteSet(InFlight') /\ Cardinality(InFlight') = Cardinality(InFlight) - 1
    BY <1>0, <1>2, FS_RemoveElement DEF Bound
  <2>2. Cardinality(InFlight) \in Nat
    BY <1>0, FS_CardinalityType DEF Bound
  <2>3. nslices' + Cardinality(InFlight') <= MaxSlices
    BY <1>0, <1>1, <2>1, <2>2 DEF Bound, Shape
  <2> QED
    BY <2>1, <2>3 DEF Bound
<1>12. Cap'
  <2>1. CappedHeld \subseteq Live /\ CappedInFlight \subseteq InFlight
    BY DEF CappedHeld, Held, Live, CappedInFlight, InFlight
  <2>2. /\ IsFiniteSet(ByteSet(CappedHeld, SliceSize)) /\ SumBytes(CappedHeld, SliceSize) \in Nat
        /\ IsFiniteSet(ByteSet(CappedInFlight, ReqSize)) /\ SumBytes(CappedInFlight, ReqSize) \in Nat
    BY <1>0, <2>1, ByteSetMono DEF Acct
  <2>3. ByteSet(CappedHeld, SliceSize') = ByteSet(CappedHeld, SliceSize)
    BY <1>6, <2>1, ByteSetExt
  <2>4. CASE req[t].force
    <3>1. CappedHeld' = CappedHeld /\ CappedInFlight' = CappedInFlight
      BY <1>0, <1>1, <1>5, <2>4 DEF CappedInFlight, Shape
    <3> QED
      BY <1>0, <1>6, <2>3, <3>1 DEF Cap, SumBytes
  <2>5. CASE ~req[t].force
    <3>1. /\ CappedHeld' = CappedHeld \cup {s} /\ s \notin CappedHeld
          /\ CappedInFlight' = CappedInFlight \ {t} /\ t \in CappedInFlight
      BY <1>0, <1>1, <1>3, <1>5, <2>5 DEF CappedInFlight, CappedHeld, Held, Shape
    <3>2. SumBytes(CappedHeld', SliceSize') = SumBytes(CappedHeld, SliceSize) + req[t].n
      <4>1. IsFiniteSet(ByteSet(CappedHeld, SliceSize'))
            /\ SumBytes(CappedHeld, SliceSize') = SumBytes(CappedHeld, SliceSize)
        BY <2>2, <2>3 DEF SumBytes
      <4>2. SumBytes(CappedHeld \cup {s}, SliceSize') = SumBytes(CappedHeld, SliceSize') + SliceSize'[s]
        BY <1>6, <3>1, <4>1, ByteSetAdd
      <4> QED
        BY <1>6, <3>1, <4>1, <4>2
    <3>3. SumBytes(CappedInFlight', ReqSize') = SumBytes(CappedInFlight, ReqSize) - req[t].n
      <4>1. SumBytes(CappedInFlight \ {t}, ReqSize) = SumBytes(CappedInFlight, ReqSize) - ReqSize[t]
        BY <1>6, <2>2, <3>1, ByteSetRemove
      <4> QED
        BY <1>6, <3>1, <4>1 DEF ReqSize
    <3> QED
      BY <1>0, <1>6, <2>2, <3>2, <3>3 DEF Cap
  <2> QED
    BY <2>4, <2>5
<1>13. Owners'
  <2>1. \A u \in Threads : (cur'[u] = NoSlice) <=> pc'[u] \in {"idle", "malloc", "undo"}
    BY <1>0, <1>1, <1>3, OffheapAssumption DEF Owners, Shape
  <2>2. \A u \in Threads : cur'[u] # NoSlice => cur'[u] \in Created'
    BY <1>0, <1>1, <1>3 DEF Owners, Shape
  <2>3. \A u, v \in Threads : u # v /\ cur'[u] # NoSlice => cur'[u] # cur'[v]
    BY <1>0, <1>1, <1>3 DEF Owners, Shape
  <2>4. \A u \in InFlight' : req'[u].n \in Sizes
    BY <1>0, <1>1, <1>2 DEF Owners
  <2>5. \A u \in Threads : pc'[u] = "sub" => slice'[cur'[u]].mem = "freed" /\ fpc' # cur'[u]
    BY <1>0, <1>1, <1>3, <1>4 DEF Owners, Shape, Created, Ids
  <2>6. fpc' # NoSlice => fpc' \in Created' /\ slice'[fpc'].mem = "freed"
    BY <1>0, <1>1, <1>3, <1>4 DEF Owners, Shape, Created, Ids
  <2>7. \A x \in Created' :
          slice'[x].mem = "freed" => fpc' = x \/ \E u \in Threads : pc'[u] = "sub" /\ cur'[u] = x
    <3> SUFFICES ASSUME NEW x \in Created', slice'[x].mem = "freed"
                 PROVE  fpc' = x \/ \E u \in Threads : pc'[u] = "sub" /\ cur'[u] = x
      OBVIOUS
    <3>1. x \in Created /\ x \in Ids \ {s}
      BY <1>0, <1>3, <1>4 DEF Created, Ids, Shape
    <3>2. fpc = x \/ \E u \in Threads : pc[u] = "sub" /\ cur[u] = x
      BY <1>0, <1>4, <3>1 DEF Owners
    <3> QED
      BY <1>0, <1>1, <3>2 DEF Shape
  <2>8. \A u \in Threads : cur'[u] # NoSlice => slice'[cur'[u]].owner = u
    <3> SUFFICES ASSUME NEW u \in Threads, cur'[u] # NoSlice PROVE slice'[cur'[u]].owner = u
      OBVIOUS
    <3>1. CASE u = t
      BY <1>0, <1>1, <1>3, <3>1 DEF Shape
    <3>2. CASE u # t
      <4>1. cur'[u] = cur[u] /\ cur[u] # NoSlice /\ cur[u] \in Created
        BY <1>0, <1>1, <3>2 DEF Owners, Shape
      <4>2. cur[u] \in Ids \ {s}
        BY <1>0, <1>3, <4>1 DEF Created, Ids, Shape
      <4> QED
        BY <1>0, <1>4, <4>1, <4>2 DEF Owners
    <3> QED
      BY <3>1, <3>2
  <2>9. fpc' # NoSlice => slice'[fpc'].owner = NoThread
    <3>1. fpc # NoSlice => fpc \in Ids \ {s}
      BY <1>0, <1>3 DEF Owners, Shape, Created, Ids
    <3> QED
      BY <1>0, <1>1, <1>4, <3>1 DEF Owners
  <2> QED
    BY <2>1, <2>2, <2>3, <2>4, <2>5, <2>6, <2>7, <2>8, <2>9 DEF Owners
<1>14. Shape'
  BY <1>0, <1>1, <1>3, IInv' DEF Shape, IInv, ShapeOK, Ids
<1> QED
  BY <1>10, <1>11, <1>12, <1>13, <1>14 DEF AInv

\* A failed cgo_malloc: the goroutine goes on to the Sub of its
\* reservation, whose bytes stay counted but no longer wait to be held.
LEMMA MallocFailStep ==
  ASSUME AInv, IInv', NEW t \in Threads, MallocFail(t)
  PROVE  AInv'
<1>0. /\ Shape /\ Owners /\ Bound /\ Acct /\ Cap
  BY DEF AInv
<1>1. /\ pc[t] = "malloc" /\ pc' = [pc EXCEPT ![t] = "undo"]
      /\ UNCHANGED <<counter, nslices, slice, req, cur, fpc>>
  BY DEF MallocFail, MallocFailed
<1>2. /\ InFlight' = InFlight /\ Live' = Live /\ CappedHeld' = CappedHeld
      /\ SliceSize' = SliceSize /\ ReqSize' = ReqSize
      /\ CappedInFlight' \subseteq CappedInFlight
  BY <1>0, <1>1 DEF InFlight, Live, Created, CappedHeld, Held, SliceSize, ReqSize,
                    CappedInFlight, Shape
<1>3. Cap'
  <2>1. IsFiniteSet(ByteSet(CappedInFlight, ReqSize))
    <3>1. CappedInFlight \subseteq InFlight
      BY DEF CappedInFlight, InFlight
    <3> QED
      BY <1>0, <3>1, ByteSetMono DEF Acct
  <2>2. SumBytes(CappedInFlight', ReqSize) <= SumBytes(CappedInFlight, ReqSize)
        /\ SumBytes(CappedInFlight, ReqSize) \in Nat
    BY <1>2, <2>1, ByteSetMono
  <2>3. SumBytes(CappedHeld, SliceSize) \in Nat
    <3>1. CappedHeld \subseteq Live
      BY DEF CappedHeld, Held, Live
    <3> QED
      BY <1>0, <3>1, ByteSetMono DEF Acct
  <2>4. SumBytes(CappedInFlight', ReqSize) \in Nat
    BY <1>2, <2>1, ByteSetMono
  <2>5. SumBytes(CappedHeld', SliceSize') + SumBytes(CappedInFlight', ReqSize') <= MaxOffheap
    BY <1>0, <1>2, <2>2, <2>3, <2>4, OffheapAssumption DEF Cap
  <2> QED
    BY <2>5 DEF Cap
<1>4. Owners'
  BY <1>0, <1>1, <1>2 DEF Owners, Shape, Created
<1>5. Shape' /\ Bound' /\ Acct'
  BY <1>0, <1>1, <1>2 DEF Shape, Bound, Acct
<1> QED
  BY <1>3, <1>4, <1>5, IInv' DEF AInv

\* The Sub of a reservation that failed the cap check or cgo_malloc: its
\* bytes leave allocOffheapBytes and the goroutine is idle again.
LEMMA UndoStep ==
  ASSUME AInv, IInv', NEW t \in Threads, Undo(t)
  PROVE  AInv'
<1>0. /\ Shape /\ Owners /\ Bound /\ Acct /\ Cap
  BY DEF AInv
<1>1. /\ pc[t] = "undo" /\ pc' = [pc EXCEPT ![t] = "idle"]
      /\ counter' = counter - req[t].n
      /\ UNCHANGED <<nslices, slice, req, cur, fpc>>
  BY DEF Undo
<1>2. /\ t \in InFlight /\ InFlight' = InFlight \ {t}
      /\ Live' = Live /\ CappedHeld' = CappedHeld /\ CappedInFlight' = CappedInFlight
      /\ SliceSize' = SliceSize /\ ReqSize' = ReqSize /\ ReqSize[t] = req[t].n
      /\ req[t].n \in Nat
  BY <1>0, <1>1, OffheapAssumption DEF InFlight, Live, Created, CappedHeld, Held, SliceSize,
                                      ReqSize, CappedInFlight, Shape, Owners
<1>3. /\ IsFiniteSet(ByteSet(InFlight', ReqSize'))
      /\ SumBytes(InFlight', ReqSize') = SumBytes(InFlight, ReqSize) - req[t].n
  BY <1>0, <1>2, ByteSetRemove DEF Acct
<1>4. Acct'
  <2>1. SumBytes(Live, SliceSize) \in Nat /\ SumBytes(InFlight, ReqSize) \in Nat
    BY <1>0, SumBytesNat DEF Acct
  <2>2. counter' = SumBytes(Live', SliceSize') + SumBytes(InFlight', ReqSize')
    BY <1>0, <1>1, <1>2, <1>3, <2>1 DEF Acct
  <2> QED
    BY <1>0, <1>2, <1>3, <2>2 DEF Acct
<1>5. Bound'
  <2>1. IsFiniteSet(InFlight') /\ Cardinality(InFlight') = Cardinality(InFlight) - 1
    BY <1>0, <1>2, FS_RemoveElement DEF Bound
  <2>2. Cardinality(InFlight) \in Nat
    BY <1>0, FS_CardinalityType DEF Bound
  <2>3. nslices' = nslices
    BY <1>1
  <2>4. nslices' + Cardinality(InFlight') <= MaxSlices
    BY <1>0, <2>1, <2>2, <2>3, OffheapAssumption DEF Bound, Shape
  <2> QED
    BY <2>1, <2>4 DEF Bound
<1>6. Cap'
  <2>1. SumBytes(CappedHeld', SliceSize') + SumBytes(CappedInFlight', ReqSize') <= MaxOffheap
    BY <1>0, <1>2 DEF Cap
  <2> QED
    BY <2>1 DEF Cap
<1>7. Owners'
  BY <1>0, <1>1, <1>2 DEF Owners, Shape, Created
<1>8. Shape'
  BY <1>0, <1>1, <1>2 DEF Shape
<1> QED
  BY <1>4, <1>5, <1>6, <1>7, <1>8, IInv' DEF AInv

\* A step that changes no size, no counter and no reservation, frees no
\* slice's bytes and makes none held keeps the byte accounting: cgo_free in
\* reclaim, the finalizer's clearing, and dropping the last reference.
LEMMA SameBytes ==
  ASSUME AInv, counter' = counter, nslices' = nslices, req' = req,
         InFlight' = InFlight, CappedInFlight' = CappedInFlight,
         slice' \in [Ids -> SliceRec],
         \A y \in Ids : /\ slice'[y].n = slice[y].n /\ slice'[y].force = slice[y].force
                        /\ slice'[y].mem \in {"held", "freed"} <=> slice[y].mem \in {"held", "freed"}
                        /\ slice'[y].mem = "held" => slice[y].mem = "held"
  PROVE  Acct' /\ Cap' /\ Bound'
<1>0. /\ Shape /\ Bound /\ Acct /\ Cap /\ MaxOffheap \in Nat
  BY OffheapAssumption DEF AInv
<1>1. Created' = Created /\ Created \subseteq Ids
  <2>1. Created' = Created
    BY DEF Created
  <2>2. Created \subseteq Ids
    BY <1>0, OffheapAssumption DEF Created, Shape, Ids
  <2> QED
    BY <2>1, <2>2
<1>2. Live' = Live /\ CappedHeld' \subseteq CappedHeld
  BY <1>1 DEF Live, CappedHeld, Held
<1>3. SliceSize' = SliceSize /\ ReqSize' = ReqSize
  BY <1>0 DEF SliceSize, ReqSize, Shape
<1>4. Acct'
  <2>1. /\ IsFiniteSet(ByteSet(Live', SliceSize')) /\ IsFiniteSet(ByteSet(InFlight', ReqSize'))
        /\ counter' = SumBytes(Live', SliceSize') + SumBytes(InFlight', ReqSize')
    BY <1>0, <1>2, <1>3 DEF Acct
  <2> QED
    BY <2>1 DEF Acct
<1>5. Bound'
  BY <1>0 DEF Bound
<1>6. Cap'
  <2>1. CappedHeld \subseteq Live /\ CappedInFlight \subseteq InFlight
    BY DEF CappedHeld, Held, Live, CappedInFlight, InFlight
  <2>2. /\ SumBytes(CappedHeld', SliceSize) <= SumBytes(CappedHeld, SliceSize)
        /\ SumBytes(CappedHeld', SliceSize) \in Nat /\ SumBytes(CappedHeld, SliceSize) \in Nat
    <3>1. IsFiniteSet(ByteSet(CappedHeld, SliceSize))
      BY <1>0, <2>1, ByteSetMono DEF Acct
    <3> QED
      BY <1>2, <3>1, ByteSetMono
  <2>3. SumBytes(CappedInFlight, ReqSize) \in Nat
    BY <1>0, <2>1, ByteSetMono DEF Acct
  <2>4. SumBytes(CappedHeld', SliceSize') + SumBytes(CappedInFlight', ReqSize') <= MaxOffheap
    BY <1>0, <1>3, <2>2, <2>3 DEF Cap
  <2> QED
    BY <2>4 DEF Cap
<1> QED
  BY <1>4, <1>5, <1>6

\* The Sub of reclaim, by FreeSlice or by the finalizer: a slice whose
\* memory cgo_free has released leaves the live slices, and its bytes leave
\* allocOffheapBytes.
LEMMA ReclaimBytes ==
  ASSUME AInv, NEW x \in Created, slice[x].mem = "freed", ReclaimRest(x),
         nslices' = nslices, req' = req, InFlight' = InFlight, CappedInFlight' = CappedInFlight
  PROVE  Acct' /\ Cap' /\ Bound'
<1>0. /\ Shape /\ Bound /\ Acct /\ Cap /\ MaxOffheap \in Nat
  BY OffheapAssumption DEF AInv
<1>1. /\ Created' = Created /\ Created \subseteq Ids /\ x \in Ids
      /\ counter' = counter - slice[x].n
      /\ slice'[x].mem = "nil" /\ slice'[x].n = slice[x].n
      /\ \A y \in Ids \ {x} : slice'[y] = slice[y]
  <2>1. Created' = Created
    BY DEF Created
  <2>2. Created \subseteq Ids
    BY <1>0, OffheapAssumption DEF Created, Shape, Ids
  <2>3. /\ counter' = counter - slice[x].n
        /\ slice'[x].mem = "nil" /\ slice'[x].n = slice[x].n
        /\ \A y \in Ids \ {x} : slice'[y] = slice[y]
    BY <1>0, <2>2 DEF Shape, ReclaimRest
  <2> QED
    BY <2>1, <2>2, <2>3
<1>2. /\ Live' = Live \ {x} /\ x \in Live
      /\ CappedHeld' = CappedHeld
  BY <1>1 DEF Live, CappedHeld, Held
<1>3. /\ SliceSize' = SliceSize /\ ReqSize' = ReqSize
      /\ SliceSize[x] = slice[x].n /\ slice[x].n \in Nat
  <2>1. SliceSize' = SliceSize
    <3>1. \A y \in Ids : slice'[y].n = slice[y].n
      BY <1>1
    <3> QED
      BY <3>1 DEF SliceSize
  <2>2. ReqSize' = ReqSize
    BY DEF ReqSize
  <2>3. slice[x] \in SliceRec
    BY <1>0, <1>1 DEF Shape
  <2>4. SliceSize[x] = slice[x].n /\ slice[x].n \in Nat
    <3>1. SliceSize[x] = slice[x].n
      BY <1>1 DEF SliceSize
    <3>2. slice[x].n \in Sizes \cup {0}
      BY <2>3 DEF SliceRec
    <3>3. slice[x].n \in Nat
      <4>1. CASE slice[x].n = 0
        BY <4>1
      <4>2. CASE slice[x].n \in Sizes
        BY <4>2, OffheapAssumption
      <4> QED
        BY <3>2, <4>1, <4>2
    <3> QED
      BY <3>1, <3>3
  <2> QED
    BY <2>1, <2>2, <2>4
<1>4. /\ IsFiniteSet(ByteSet(Live \ {x}, SliceSize))
      /\ SumBytes(Live \ {x}, SliceSize) = SumBytes(Live, SliceSize) - slice[x].n
  <2>1. x \in Live /\ SliceSize[x] \in Nat /\ IsFiniteSet(ByteSet(Live, SliceSize))
    BY <1>0, <1>2, <1>3 DEF Acct
  <2>2. /\ IsFiniteSet(ByteSet(Live \ {x}, SliceSize))
        /\ SumBytes(Live \ {x}, SliceSize) = SumBytes(Live, SliceSize) - SliceSize[x]
    BY <2>1, ByteSetRemove
  <2> QED
    BY <1>3, <2>2
<1>5. Acct'
  <2>1. SumBytes(Live, SliceSize) \in Nat /\ SumBytes(InFlight, ReqSize) \in Nat
    BY <1>0, SumBytesNat DEF Acct
  <2>2. counter' = SumBytes(Live', SliceSize') + SumBytes(InFlight', ReqSize')
    BY <1>0, <1>1, <1>2, <1>3, <1>4, <2>1 DEF Acct
  <2>3. IsFiniteSet(ByteSet(Live', SliceSize')) /\ IsFiniteSet(ByteSet(InFlight', ReqSize'))
    BY <1>0, <1>2, <1>3, <1>4 DEF Acct
  <2> QED
    BY <2>2, <2>3 DEF Acct
<1>6. Bound'
  BY <1>0 DEF Bound
<1>7. Cap'
  <2>1. SumBytes(CappedHeld', SliceSize') + SumBytes(CappedInFlight', ReqSize') <= MaxOffheap
    BY <1>0, <1>2, <1>3 DEF Cap
  <2> QED
    BY <2>1 DEF Cap
<1> QED
  BY <1>5, <1>6, <1>7

\* A step that changes nothing keeps the invariant.
LEMMA StutterStep ==
  ASSUME AInv, UNCHANGED vars
  PROVE  AInv'
<1>1. /\ counter' = counter /\ nslices' = nslices /\ slice' = slice /\ pc' = pc
      /\ req' = req /\ cur' = cur /\ fpc' = fpc
  BY DEF vars
<1>2. InFlight' = InFlight /\ CappedInFlight' = CappedInFlight /\ Created' = Created
  BY <1>1 DEF InFlight, CappedInFlight, Created
<1>3. Acct' /\ Cap' /\ Bound'
  BY <1>1, <1>2, SameBytes DEF AInv, Shape, IInv, ShapeOK
<1>4. Shape' /\ IInv' /\ Owners'
  BY <1>1, <1>2 DEF AInv, Shape, IInv, ShapeOK, FreedOnce, Owners
<1> QED
  BY <1>3, <1>4 DEF AInv

\* reclaim by FreeSlice while s.ptr is set: cgo_free releases the memory,
\* and the goroutine owes the Sub of its bytes.
LEMMA FreeSliceStep ==
  ASSUME AInv, IInv', NEW t \in Threads, FreeSlice(t)
  PROVE  AInv'
<1> DEFINE s == cur[t]
<1>0. /\ Shape /\ Owners /\ IInv
  BY DEF AInv
<1>1. /\ pc[t] = "own" /\ s \in Created /\ s \in Ids /\ s \in Nat
      /\ Created \subseteq Ids
  BY <1>0, OffheapAssumption DEF FreeSlice, Owners, Shape, Created, Ids
<1>2. CASE PtrSet(s)
  <2>0. slice[s].mem = "held"
    BY <1>1, <1>2, FreeSliceHeld
  <2>1. /\ slice' = [slice EXCEPT ![s].mem = "freed", ![s].frees = @ + 1]
        /\ pc' = [pc EXCEPT ![t] = "sub"]
        /\ UNCHANGED <<counter, nslices, req, cur, fpc>>
        /\ slice[s].mem = "held"
    BY <1>2, <2>0 DEF FreeSlice
  <2>2. /\ slice'[s].mem = "freed" /\ slice'[s].n = slice[s].n /\ slice'[s].force = slice[s].force
        /\ \A y \in Ids \ {s} : slice'[y] = slice[y]
    BY <1>0, <1>1, <2>1 DEF Shape
  <2>3. InFlight' = InFlight /\ CappedInFlight' = CappedInFlight /\ Created' = Created
    BY <1>0, <1>1, <2>1 DEF InFlight, CappedInFlight, Created, Shape
  <2>4. Acct' /\ Cap' /\ Bound'
    <3>1. slice' \in [Ids -> SliceRec]
      BY DEF IInv, ShapeOK
    <3>2. \A y \in Ids : /\ slice'[y].n = slice[y].n /\ slice'[y].force = slice[y].force
                         /\ slice'[y].mem \in {"held", "freed"} <=> slice[y].mem \in {"held", "freed"}
                         /\ slice'[y].mem = "held" => slice[y].mem = "held"
      BY <2>1, <2>2
    <3> QED
      BY <2>1, <2>3, <3>1, <3>2, SameBytes
  <2>5. fpc # s
    BY <1>0, <1>1, <2>1 DEF Owners
  <2>6. Owners'
    <3>1. \A u \in Threads : (cur'[u] = NoSlice) <=> pc'[u] \in {"idle", "malloc", "undo"}
      BY <1>0, <1>1, <2>1 DEF Owners, Shape
    <3>2. \A u \in Threads : cur'[u] # NoSlice => cur'[u] \in Created'
      BY <1>0, <2>1, <2>3 DEF Owners
    <3>3. \A u, v \in Threads : u # v /\ cur'[u] # NoSlice => cur'[u] # cur'[v]
      BY <1>0, <2>1 DEF Owners
    <3>4. \A u \in InFlight' : req'[u].n \in Sizes
      BY <1>0, <2>1, <2>3 DEF Owners
    <3>5. \A u \in Threads : pc'[u] = "sub" => slice'[cur'[u]].mem = "freed" /\ fpc' # cur'[u]
      <4> SUFFICES ASSUME NEW u \in Threads, pc'[u] = "sub"
                   PROVE  slice'[cur[u]].mem = "freed" /\ fpc # cur[u]
        BY <2>1
      <4>1. CASE u = t
        BY <2>2, <2>5, <4>1
      <4>2. CASE u # t
        <5>1. pc[u] = "sub" /\ cur[u] # s /\ cur[u] \in Ids
          BY <1>0, <1>1, <2>1, <4>2 DEF Owners, Shape
        <5> QED
          BY <1>0, <2>2, <5>1 DEF Owners
      <4> QED
        BY <4>1, <4>2
    <3>6. fpc' # NoSlice => fpc' \in Created' /\ slice'[fpc'].mem = "freed"
      <4>1. fpc' = fpc
        BY <2>1
      <4>2. fpc # NoSlice => fpc \in Ids \ {s} /\ fpc \in Created /\ slice[fpc].mem = "freed"
        BY <1>0, <2>5 DEF Owners, Shape
      <4> QED
        BY <2>2, <2>3, <4>1, <4>2
    <3>7. \A x \in Created' :
            slice'[x].mem = "freed" => fpc' = x \/ \E u \in Threads : pc'[u] = "sub" /\ cur'[u] = x
      <4> SUFFICES ASSUME NEW x \in Created', slice'[x].mem = "freed"
                   PROVE  fpc = x \/ \E u \in Threads : pc'[u] = "sub" /\ cur[u] = x
        BY <2>1
      <4>1. CASE x = s
        BY <1>0, <2>1, <4>1 DEF Shape
      <4>2. CASE x # s
        <5>1. x \in Created /\ slice[x].mem = "freed"
          BY <1>1, <2>2, <2>3, <4>2
        <5>2. fpc = x \/ \E u \in Threads : pc[u] = "sub" /\ cur[u] = x
          BY <1>0, <5>1 DEF Owners
        <5> QED
          BY <1>0, <1>1, <2>1, <5>2 DEF Shape
      <4> QED
        BY <4>1, <4>2
    <3>8. \A y \in Ids : slice'[y].owner = slice[y].owner
      BY <1>0, <1>1, <2>1 DEF Shape
    <3>9. /\ \A u \in Threads : cur'[u] # NoSlice => slice'[cur'[u]].owner = u
          /\ fpc' # NoSlice => slice'[fpc'].owner = NoThread
      <4>1. /\ \A u \in Threads : cur[u] # NoSlice => cur[u] \in Ids /\ slice[cur[u]].owner = u
            /\ fpc # NoSlice => fpc \in Ids /\ slice[fpc].owner = NoThread
        BY <1>0, <1>1 DEF Owners
      <4> QED
        BY <2>1, <3>8, <4>1
    <3> QED
      BY <3>1, <3>2, <3>3, <3>4, <3>5, <3>6, <3>7, <3>9 DEF Owners
  <2>7. Shape'
    BY <1>0, <2>1 DEF Shape, IInv, ShapeOK
  <2> QED
    BY <2>4, <2>6, <2>7 DEF AInv
<1>3. CASE ~PtrSet(s)
  <2>1. UNCHANGED vars
    BY <1>3 DEF FreeSlice, vars
  <2> QED
    BY <2>1, StutterStep
<1> QED
  BY <1>2, <1>3

\* The Sub in FreeSlice's reclaim: the owner's freed slice leaves the live
\* slices with its bytes, and the goroutine owns it again, now nil.
LEMMA FreeSliceSubStep ==
  ASSUME AInv, IInv', NEW t \in Threads, FreeSliceSub(t)
  PROVE  AInv'
<1> DEFINE s == cur[t]
<1>0. /\ Shape /\ Owners /\ IInv
  BY DEF AInv
<1>1. /\ pc[t] = "sub" /\ s \in Created /\ s \in Ids /\ Created \subseteq Ids
      /\ slice[s].mem = "freed" /\ fpc # s
  BY <1>0, OffheapAssumption DEF FreeSliceSub, Owners, Shape, Created, Ids
<1>2. /\ ReclaimRest(s) /\ pc' = [pc EXCEPT ![t] = "own"]
      /\ UNCHANGED <<nslices, req, cur, fpc>>
  BY DEF FreeSliceSub
<1>3. /\ slice'[s].mem = "nil" /\ \A y \in Ids \ {s} : slice'[y] = slice[y]
      /\ counter' = counter - slice[s].n
  BY <1>0, <1>1, <1>2 DEF ReclaimRest, Shape
<1>4. InFlight' = InFlight /\ CappedInFlight' = CappedInFlight /\ Created' = Created
  BY <1>0, <1>1, <1>2 DEF InFlight, CappedInFlight, Created, Shape
<1>5. Acct' /\ Cap' /\ Bound'
  BY <1>1, <1>2, <1>4, ReclaimBytes
<1>6. Owners'
  <2>1. \A u \in Threads : (cur'[u] = NoSlice) <=> pc'[u] \in {"idle", "malloc", "undo"}
    BY <1>0, <1>1, <1>2 DEF Owners, Shape
  <2>2. \A u \in Threads : cur'[u] # NoSlice => cur'[u] \in Created'
    BY <1>0, <1>2, <1>4 DEF Owners
  <2>3. \A u, v \in Threads : u # v /\ cur'[u] # NoSlice => cur'[u] # cur'[v]
    BY <1>0, <1>2 DEF Owners
  <2>4. \A u \in InFlight' : req'[u].n \in Sizes
    BY <1>0, <1>2, <1>4 DEF Owners
  <2>5. \A u \in Threads : pc'[u] = "sub" => slice'[cur'[u]].mem = "freed" /\ fpc' # cur'[u]
    <3> SUFFICES ASSUME NEW u \in Threads, pc'[u] = "sub"
                 PROVE  slice'[cur[u]].mem = "freed" /\ fpc # cur[u]
      BY <1>2
    <3>1. u # t /\ pc[u] = "sub"
      BY <1>0, <1>2 DEF Shape
    <3>2. cur[u] # s /\ cur[u] \in Ids
      BY <1>0, <1>1, <3>1 DEF Owners, Shape
    <3> QED
      BY <1>0, <1>3, <3>1, <3>2 DEF Owners
  <2>6. fpc' # NoSlice => fpc' \in Created' /\ slice'[fpc'].mem = "freed"
    <3>1. fpc # NoSlice => fpc \in Ids \ {s} /\ fpc \in Created /\ slice[fpc].mem = "freed"
      BY <1>0, <1>1 DEF Owners, Shape
    <3> QED
      BY <1>2, <1>3, <1>4, <3>1
  <2>7. \A x \in Created' :
          slice'[x].mem = "freed" => fpc' = x \/ \E u \in Threads : pc'[u] = "sub" /\ cur'[u] = x
    <3> SUFFICES ASSUME NEW x \in Created', slice'[x].mem = "freed"
                 PROVE  fpc = x \/ \E u \in Threads : pc'[u] = "sub" /\ cur[u] = x
      BY <1>2
    <3>1. x # s /\ x \in Created /\ slice[x].mem = "freed"
      BY <1>1, <1>3, <1>4
    <3>2. fpc = x \/ \E u \in Threads : pc[u] = "sub" /\ cur[u] = x
      BY <1>0, <3>1 DEF Owners
    <3> QED
      BY <1>0, <1>2, <3>1, <3>2 DEF Shape
  <2>8. \A y \in Ids : slice'[y].owner = slice[y].owner
    BY <1>0, <1>1, <1>2 DEF ReclaimRest, Shape
  <2>9. /\ \A u \in Threads : cur'[u] # NoSlice => slice'[cur'[u]].owner = u
        /\ fpc' # NoSlice => slice'[fpc'].owner = NoThread
    BY <1>0, <1>1, <1>2, <2>8 DEF Owners
  <2> QED
    BY <2>1, <2>2, <2>3, <2>4, <2>5, <2>6, <2>7, <2>9 DEF Owners
<1>7. Shape'
  <2>1. slice[s].n \in Nat
    <3>1. slice[s] \in SliceRec
      BY <1>0, <1>1 DEF Shape
    <3>2. slice[s].n \in Sizes \cup {0}
      BY <3>1 DEF SliceRec
    <3> QED
      BY <3>2, SizeNat
  <2> QED
    BY <1>0, <1>2, <1>3, <2>1 DEF Shape, IInv, ShapeOK
<1> QED
  BY <1>5, <1>6, <1>7 DEF AInv

\* The finalizer's Sub: the slice it freed leaves the live slices with its
\* bytes, and the finalizer goroutine is free for the next.
LEMMA FinalizeSubStep ==
  ASSUME AInv, IInv', FinalizeSub
  PROVE  AInv'
<1> DEFINE s == fpc
<1>0. /\ Shape /\ Owners /\ IInv
  BY DEF AInv
<1>1. /\ s # NoSlice /\ s \in Created /\ s \in Ids /\ Created \subseteq Ids
      /\ slice[s].mem = "freed"
  BY <1>0, OffheapAssumption DEF FinalizeSub, Owners, Shape, Created, Ids
<1>2. /\ ReclaimRest(s) /\ fpc' = NoSlice
      /\ UNCHANGED <<nslices, pc, req, cur>>
  BY DEF FinalizeSub
<1>3. /\ slice'[s].mem = "nil" /\ \A y \in Ids \ {s} : slice'[y] = slice[y]
      /\ counter' = counter - slice[s].n
  BY <1>0, <1>1, <1>2 DEF ReclaimRest, Shape
<1>4. InFlight' = InFlight /\ CappedInFlight' = CappedInFlight /\ Created' = Created
  BY <1>2 DEF InFlight, CappedInFlight, Created
<1>5. Acct' /\ Cap' /\ Bound'
  BY <1>1, <1>2, <1>4, ReclaimBytes
<1>6. Owners'
  <2>1. /\ \A u \in Threads : (cur'[u] = NoSlice) <=> pc'[u] \in {"idle", "malloc", "undo"}
        /\ \A u \in Threads : cur'[u] # NoSlice => cur'[u] \in Created'
        /\ \A u, v \in Threads : u # v /\ cur'[u] # NoSlice => cur'[u] # cur'[v]
        /\ \A u \in InFlight' : req'[u].n \in Sizes
    BY <1>0, <1>2, <1>4 DEF Owners
  <2>2. \A u \in Threads : pc'[u] = "sub" => slice'[cur'[u]].mem = "freed" /\ fpc' # cur'[u]
    <3> SUFFICES ASSUME NEW u \in Threads, pc[u] = "sub"
                 PROVE  slice'[cur[u]].mem = "freed" /\ NoSlice # cur[u]
      BY <1>2
    <3>1. cur[u] # s /\ cur[u] \in Ids /\ cur[u] # NoSlice
      BY <1>0, <1>1 DEF Owners, Shape
    <3> QED
      BY <1>0, <1>3, <3>1 DEF Owners
  <2>3. fpc' # NoSlice => fpc' \in Created' /\ slice'[fpc'].mem = "freed"
    BY <1>2
  <2>4. \A x \in Created' :
          slice'[x].mem = "freed" => fpc' = x \/ \E u \in Threads : pc'[u] = "sub" /\ cur'[u] = x
    <3> SUFFICES ASSUME NEW x \in Created', slice'[x].mem = "freed"
                 PROVE  \E u \in Threads : pc[u] = "sub" /\ cur[u] = x
      BY <1>2
    <3>1. x # s /\ x \in Created /\ slice[x].mem = "freed"
      BY <1>1, <1>3, <1>4
    <3> QED
      BY <1>0, <3>1 DEF Owners
  <2>5. \A y \in Ids : slice'[y].owner = slice[y].owner
    BY <1>0, <1>1, <1>2 DEF ReclaimRest, Shape
  <2>6. /\ \A u \in Threads : cur'[u] # NoSlice => slice'[cur'[u]].owner = u
        /\ fpc' # NoSlice => slice'[fpc'].owner = NoThread
    BY <1>0, <1>1, <1>2, <2>5 DEF Owners
  <2> QED
    BY <2>1, <2>2, <2>3, <2>4, <2>6 DEF Owners
<1>7. Shape'
  <2>1. slice[s].n \in Nat
    <3>1. slice[s] \in SliceRec
      BY <1>0, <1>1 DEF Shape
    <3>2. slice[s].n \in Sizes \cup {0}
      BY <3>1 DEF SliceRec
    <3> QED
      BY <3>2, SizeNat
  <2> QED
    BY <1>0, <1>2, <1>3, <2>1 DEF Shape, IInv, ShapeOK
<1> QED
  BY <1>5, <1>6, <1>7 DEF AInv

\* The last reference to a slice is dropped: its owner is gone, and no
\* byte is counted differently.
LEMMA DropStep ==
  ASSUME AInv, IInv', NEW t \in Threads, Drop(t)
  PROVE  AInv'
<1> DEFINE s == cur[t]
<1>0. /\ Shape /\ Owners /\ IInv
  BY DEF AInv
<1>1. /\ pc[t] = "own" /\ s \in Created /\ s \in Ids /\ Created \subseteq Ids
  BY <1>0, OffheapAssumption DEF Drop, Owners, Shape, Created, Ids
<1>2. /\ slice' = [slice EXCEPT ![s].owner = NoThread]
      /\ cur' = [cur EXCEPT ![t] = NoSlice] /\ pc' = [pc EXCEPT ![t] = "idle"]
      /\ UNCHANGED <<counter, nslices, req, fpc>>
  BY DEF Drop
<1>3. \A y \in Ids : /\ slice'[y].n = slice[y].n /\ slice'[y].force = slice[y].force
                     /\ slice'[y].mem = slice[y].mem
  BY <1>0, <1>1, <1>2 DEF Shape
<1>4. InFlight' = InFlight /\ CappedInFlight' = CappedInFlight /\ Created' = Created
  BY <1>0, <1>1, <1>2 DEF InFlight, CappedInFlight, Created, Shape
<1>5. Acct' /\ Cap' /\ Bound'
  <2>1. slice' \in [Ids -> SliceRec]
    BY DEF IInv, ShapeOK
  <2> QED
    BY <1>2, <1>3, <1>4, <2>1, SameBytes
<1>6. Owners'
  <2>1. \A u \in Threads : (cur'[u] = NoSlice) <=> pc'[u] \in {"idle", "malloc", "undo"}
    BY <1>0, <1>2 DEF Owners, Shape
  <2>2. \A u \in Threads : cur'[u] # NoSlice => cur'[u] \in Created'
    BY <1>0, <1>2, <1>4 DEF Owners, Shape
  <2>3. \A u, v \in Threads : u # v /\ cur'[u] # NoSlice => cur'[u] # cur'[v]
    BY <1>0, <1>2 DEF Owners, Shape
  <2>4. \A u \in InFlight' : req'[u].n \in Sizes
    BY <1>0, <1>2, <1>4 DEF Owners
  <2>5. \A u \in Threads : pc'[u] = "sub" => slice'[cur'[u]].mem = "freed" /\ fpc' # cur'[u]
    <3> SUFFICES ASSUME NEW u \in Threads, pc'[u] = "sub"
                 PROVE  slice'[cur[u]].mem = "freed" /\ fpc # cur[u]
      BY <1>0, <1>2 DEF Shape
    <3>1. u # t /\ pc[u] = "sub" /\ cur[u] \in Ids
      BY <1>0, <1>1, <1>2 DEF Owners, Shape
    <3> QED
      BY <1>0, <1>3, <3>1 DEF Owners
  <2>6. fpc' # NoSlice => fpc' \in Created' /\ slice'[fpc'].mem = "freed"
    <3>1. fpc # NoSlice => fpc \in Ids /\ fpc \in Created /\ slice[fpc].mem = "freed"
      BY <1>0 DEF Owners, Shape
    <3> QED
      BY <1>2, <1>3, <1>4, <3>1
  <2>7. \A x \in Created' :
          slice'[x].mem = "freed" => fpc' = x \/ \E u \in Threads : pc'[u] = "sub" /\ cur'[u] = x
    <3> SUFFICES ASSUME NEW x \in Created', slice'[x].mem = "freed"
                 PROVE  fpc = x \/ \E u \in Threads : pc'[u] = "sub" /\ cur'[u] = x
      BY <1>2
    <3>1. x \in Created /\ slice[x].mem = "freed"
      BY <1>1, <1>3, <1>4
    <3>2. fpc = x \/ \E u \in Threads : pc[u] = "sub" /\ cur[u] = x
      BY <1>0, <3>1 DEF Owners
    <3> QED
      BY <1>0, <1>1, <1>2, <3>2 DEF Shape
  <2>8. \A u \in Threads : cur'[u] # NoSlice => slice'[cur'[u]].owner = u
    <3> SUFFICES ASSUME NEW u \in Threads, cur'[u] # NoSlice PROVE slice'[cur[u]].owner = u
      BY <1>0, <1>2 DEF Shape
    <3>1. u # t /\ cur[u] # NoSlice /\ cur[u] \in Created /\ cur[u] # s
      BY <1>0, <1>1, <1>2 DEF Owners, Shape
    <3> QED
      BY <1>0, <1>1, <1>2, <3>1 DEF Owners, Shape
  <2>9. fpc' # NoSlice => slice'[fpc'].owner = NoThread
    <3>1. fpc # NoSlice => fpc \in Ids /\ slice[fpc].owner = NoThread
      BY <1>0, <1>1 DEF Owners
    <3> QED
      BY <1>0, <1>1, <1>2, <3>1 DEF Shape
  <2> QED
    BY <2>1, <2>2, <2>3, <2>4, <2>5, <2>6, <2>7, <2>8, <2>9 DEF Owners
<1>7. Shape'
  BY <1>0, <1>1, <1>2 DEF Shape, IInv, ShapeOK
<1> QED
  BY <1>5, <1>6, <1>7 DEF AInv

\* The finalizer runs reclaim on an unreachable slice: while s.ptr is set
\* cgo_free releases its memory and the finalizer owes the Sub; either way
\* the finalizer is cleared.
LEMMA FinalizeStep ==
  ASSUME AInv, IInv', NEW s \in Ids, Finalize(s)
  PROVE  AInv'
<1>0. /\ Shape /\ Owners /\ IInv
  BY DEF AInv
<1>1. /\ fpc = NoSlice /\ s \in Created /\ Created \subseteq Ids /\ s \in Nat
      /\ UNCHANGED <<counter, nslices, pc, req, cur>>
  BY <1>0, OffheapAssumption DEF Finalize, Shape, Created, Ids
<1>2. InFlight' = InFlight /\ CappedInFlight' = CappedInFlight /\ Created' = Created
  BY <1>1 DEF InFlight, CappedInFlight, Created
<1>3. CASE PtrSet(s)
  <2>0. slice[s].mem = "held"
    BY <1>3, FinalizeHeld
  <2>1. /\ slice' = [slice EXCEPT ![s].fin = FALSE, ![s].mem = "freed", ![s].frees = @ + 1]
        /\ fpc' = s /\ slice[s].mem = "held"
    BY <1>3, <2>0 DEF Finalize
  <2>2. /\ slice'[s].mem = "freed" /\ slice'[s].n = slice[s].n /\ slice'[s].force = slice[s].force
        /\ \A y \in Ids \ {s} : slice'[y] = slice[y]
    BY <1>0, <2>1 DEF Shape
  <2>3. Acct' /\ Cap' /\ Bound'
    <3>1. slice' \in [Ids -> SliceRec]
      BY DEF IInv, ShapeOK
    <3>2. \A y \in Ids : /\ slice'[y].n = slice[y].n /\ slice'[y].force = slice[y].force
                         /\ slice'[y].mem \in {"held", "freed"} <=> slice[y].mem \in {"held", "freed"}
                         /\ slice'[y].mem = "held" => slice[y].mem = "held"
      BY <2>1, <2>2
    <3> QED
      BY <1>1, <1>2, <3>1, <3>2, SameBytes
  <2>4. Owners'
    <3>1. /\ \A u \in Threads : (cur'[u] = NoSlice) <=> pc'[u] \in {"idle", "malloc", "undo"}
          /\ \A u \in Threads : cur'[u] # NoSlice => cur'[u] \in Created'
          /\ \A u, v \in Threads : u # v /\ cur'[u] # NoSlice => cur'[u] # cur'[v]
          /\ \A u \in InFlight' : req'[u].n \in Sizes
      BY <1>0, <1>1, <1>2 DEF Owners
    <3>2. \A u \in Threads : pc'[u] = "sub" => slice'[cur'[u]].mem = "freed" /\ fpc' # cur'[u]
      <4> SUFFICES ASSUME NEW u \in Threads, pc[u] = "sub"
                   PROVE  slice'[cur[u]].mem = "freed" /\ s # cur[u]
        BY <1>1, <2>1
      <4>1. slice[cur[u]].mem = "freed" /\ cur[u] \in Ids
        BY <1>0, <1>1 DEF Owners, Shape
      <4>2. cur[u] # s
        BY <2>1, <4>1
      <4> QED
        BY <2>2, <4>1, <4>2
    <3>3. fpc' # NoSlice => fpc' \in Created' /\ slice'[fpc'].mem = "freed"
      BY <1>1, <1>2, <2>1, <2>2
    <3>4. \A x \in Created' :
            slice'[x].mem = "freed" => fpc' = x \/ \E u \in Threads : pc'[u] = "sub" /\ cur'[u] = x
      <4> SUFFICES ASSUME NEW x \in Created', slice'[x].mem = "freed", x # s
                   PROVE  \E u \in Threads : pc[u] = "sub" /\ cur[u] = x
        BY <1>1, <2>1
      <4>1. x \in Created /\ slice[x].mem = "freed" /\ fpc # x
        BY <1>1, <1>2, <2>2, OffheapAssumption DEF Created
      <4> QED
        BY <1>0, <4>1 DEF Owners
    <3>5. \A y \in Ids : slice'[y].owner = slice[y].owner
      BY <1>0, <2>1 DEF Shape
    <3>6. \A u \in Threads : cur'[u] # NoSlice => slice'[cur'[u]].owner = u
      BY <1>0, <1>1, <3>5 DEF Owners
    <3>7. fpc' # NoSlice => slice'[fpc'].owner = NoThread
      BY <2>1, <3>5 DEF Finalize
    <3> QED
      BY <3>1, <3>2, <3>3, <3>4, <3>6, <3>7 DEF Owners
  <2>5. Shape'
    BY <1>0, <1>1, <2>1 DEF Shape, IInv, ShapeOK
  <2> QED
    BY <2>3, <2>4, <2>5 DEF AInv
<1>4. CASE ~PtrSet(s)
  <2>1. /\ slice' = [slice EXCEPT ![s].fin = FALSE] /\ fpc' = fpc
    BY <1>4 DEF Finalize
  <2>2. \A y \in Ids : /\ slice'[y].n = slice[y].n /\ slice'[y].force = slice[y].force
                       /\ slice'[y].mem = slice[y].mem
    BY <1>0, <2>1 DEF Shape
  <2>3. Acct' /\ Cap' /\ Bound'
    <3>1. slice' \in [Ids -> SliceRec]
      BY DEF IInv, ShapeOK
    <3> QED
      BY <1>1, <1>2, <2>2, <3>1, SameBytes
  <2>4. Owners'
    <3>1. \A x \in Created : slice'[x].mem = slice[x].mem
      BY <1>1, <2>2
    <3>2. \A u \in Threads : cur[u] # NoSlice => slice'[cur[u]].mem = slice[cur[u]].mem
      BY <1>0, <3>1 DEF Owners
    <3>3. \A y \in Ids : slice'[y].owner = slice[y].owner
      BY <1>0, <2>1 DEF Shape
    <3>4. /\ \A u \in Threads : cur'[u] # NoSlice => slice'[cur'[u]].owner = u
          /\ fpc' # NoSlice => slice'[fpc'].owner = NoThread
      BY <1>0, <1>1, <2>1, <3>3 DEF Owners
    <3> QED
      BY <1>0, <1>1, <1>2, <2>1, <3>1, <3>2, <3>4 DEF Owners
  <2>5. Shape'
    BY <1>0, <1>1, <2>1 DEF Shape, IInv, ShapeOK
  <2> QED
    BY <2>3, <2>4, <2>5 DEF AInv
<1> QED
  BY <1>3, <1>4

LEMMA NextAInv == AInv /\ [Next]_vars => AInv'
<1> SUFFICES ASSUME AInv, [Next]_vars PROVE AInv'
  OBVIOUS
<1>0. IInv'
  BY NextIInv, AInvReentry DEF AInv
<1>1. ASSUME NEW t \in Threads, NEW n \in Sizes, MakeSlice(t, n) PROVE AInv'
  BY <1>0, <1>1, ReserveStep DEF MakeSlice
<1>2. ASSUME NEW t \in Threads, NEW n \in Sizes, MakeOffheapSlice(t, n) PROVE AInv'
  BY <1>0, <1>2, ReserveStep DEF MakeOffheapSlice
<1>3. ASSUME NEW t \in Threads, MallocOK(t) PROVE AInv'
  BY <1>0, <1>3, MallocOKStep
<1>4. ASSUME NEW t \in Threads, MallocFail(t) PROVE AInv'
  BY <1>0, <1>4, MallocFailStep
<1>5. ASSUME NEW t \in Threads, Undo(t) PROVE AInv'
  BY <1>0, <1>5, UndoStep
<1>6. ASSUME NEW t \in Threads, FreeSlice(t) PROVE AInv'
  BY <1>0, <1>6, FreeSliceStep
<1>7. ASSUME NEW t \in Threads, FreeSliceSub(t) PROVE AInv'
  BY <1>0, <1>7, FreeSliceSubStep
<1>8. ASSUME NEW t \in Threads, Drop(t) PROVE AInv'
  BY <1>0, <1>8, DropStep
<1>9. ASSUME NEW s \in Ids, Finalize(s) PROVE AInv'
  BY <1>0, <1>9, FinalizeStep
<1>10. CASE FinalizeSub
  BY <1>0, <1>10, FinalizeSubStep
<1>11. CASE UNCHANGED vars
  BY <1>11, StutterStep
<1> QED
  BY <1>1, <1>2, <1>3, <1>4, <1>5, <1>6, <1>7, <1>8, <1>9, <1>10, <1>11 DEF Next

-----------------------------------------------------------------------------
(* Theorems.                                                               *)

\* Every state is well typed, allocOffheapBytes included: the counter,
\* which the code only ever adds to and subtracts from, never goes below
\* zero, because it is the bytes of the live slices and reservations.
LEMMA AInvTypeOK == AInv => TypeOK
<1> SUFFICES ASSUME AInv PROVE TypeOK
  OBVIOUS
<1>1. counter \in Nat
  <2>1. SumBytes(Live, SliceSize) \in Nat /\ SumBytes(InFlight, ReqSize) \in Nat
    BY SumBytesNat DEF AInv, Acct
  <2> QED
    BY <2>1 DEF AInv, Acct
<1> QED
  BY <1>1 DEF AInv, Shape, SliceRec, TypeOK

\* allocOffheapBytes never goes negative, and every slice, goroutine and
\* the finalizer are in a state of the code.
THEOREM OffheapTypeCorrect == Spec => []TypeOK
BY InitAInv, NextAInv, AInvTypeOK, PTL DEF Spec

\* When no goroutine is between the Add of newCGoSlice and its malloc or
\* Sub, and neither FreeSlice's nor the finalizer's reclaim is between its
\* cgo_free and its Sub, no slice is freed but uncounted and no
\* reservation is in flight: the live slices are the held ones.
LEMMA QuiescentExact == AInv => OffheapBytesExact
<1> SUFFICES ASSUME AInv, Quiescent PROVE counter = HeldBytes
  BY DEF OffheapBytesExact
<1>0. Shape /\ Owners /\ Acct
  BY DEF AInv
<1>1. InFlight = {}
  BY DEF Quiescent, InFlight
<1>2. Live = Held
  <2>1. \A x \in Created : slice[x].mem # "freed"
    <3> SUFFICES ASSUME NEW x \in Created, slice[x].mem = "freed" PROVE FALSE
      OBVIOUS
    <3>1. fpc # x
      BY OffheapAssumption DEF Quiescent, Created
    <3>2. \A u \in Threads : pc[u] # "sub"
      BY DEF Quiescent
    <3> QED
      BY <1>0, <3>1, <3>2 DEF Owners
  <2> QED
    BY <2>1 DEF Live, Held
<1>3. SumBytes(InFlight, ReqSize) = 0
  BY <1>1, ByteSetEmpty
<1>4. SumBytes(Live, SliceSize) \in Nat
  BY <1>0, SumBytesNat DEF Acct
<1>5. HeldBytes = SumBytes(Live, SliceSize)
  BY <1>2 DEF HeldBytes, SliceSize
<1> QED
  BY <1>0, <1>3, <1>4, <1>5 DEF Acct

\* OffheapBytes() is exact whenever no goroutine is between its Add and
\* its Sub, however the goroutines and the finalizer interleave.
THEOREM OffheapCounterExact == Spec => []OffheapBytesExact
BY InitAInv, NextAInv, QuiescentExact, PTL DEF Spec

\* cgo_free runs at most once on every off-heap slice, whatever the order
\* in which its owner's FreeSlice calls and the finalizer goroutine reach
\* reclaim: the `s.ptr == nil` guard turns away a slice whose s.ptr was set
\* to nil, and no reclaim comes to a slice between its cgo_free and its
\* `s.ptr = nil`, because the Sub still owed there is its owner's while
\* the owner holds it and the finalizer's once it is unreachable.
THEOREM OffheapNoDoubleFree == Spec => []NoDoubleFree
<1>1. AInv => NoDoubleFree
  BY DEF AInv, IInv, FreedOnce, NoDoubleFree
<1> QED
  BY <1>1, InitAInv, NextAInv, PTL DEF Spec

-----------------------------------------------------------------------------
(* The refinement of OffheapSpec.                                          *)

\* The refinement mapping of OffheapAccounting: the held slices with their
\* sizes and whether they were forced.
HeldMap == [s \in Held |-> [n |-> slice[s].n, force |-> slice[s].force]]

\* The bytes OffheapSpec counts against the cap are those of the held
\* slices that honour it.
LEMMA CappedBytesHeld ==
  ASSUME AInv PROVE Abs!CappedBytes(HeldMap) = SumBytes(CappedHeld, SliceSize)
<1>1. {id \in DOMAIN HeldMap : ~HeldMap[id].force} = CappedHeld
  BY DEF HeldMap, CappedHeld
<1>2. \A x \in CappedHeld : [id \in DOMAIN HeldMap |-> HeldMap[id].n][x] = SliceSize[x]
  <2>1. CappedHeld \subseteq Held /\ Held \subseteq Ids
    BY OffheapAssumption DEF AInv, Shape, CappedHeld, Held, Created, Ids
  <2> QED
    BY <2>1 DEF HeldMap, SliceSize
<1>3. ByteSet(CappedHeld, [id \in DOMAIN HeldMap |-> HeldMap[id].n]) = ByteSet(CappedHeld, SliceSize)
  BY <1>2, ByteSetExt
<1>4. \A S, f : Abs!SumBytes(S, f) = SumBytes(S, f)
  BY DEF Abs!SumBytes, Abs!ByteSet, SumBytes, ByteSet, Abs!Cardinality, Cardinality
<1> QED
  BY <1>1, <1>3, <1>4 DEF Abs!CappedBytes, SumBytes

\* A step that makes no slice held or not held and changes no held slice's
\* size leaves the mapping as it is.
LEMMA HeldFrame ==
  ASSUME AInv, nslices' = nslices,
         \A y \in Ids : /\ slice'[y].n = slice[y].n /\ slice'[y].force = slice[y].force
                        /\ slice'[y].mem = "held" <=> slice[y].mem = "held"
  PROVE  HeldMap' = HeldMap
<1>1. Created' = Created /\ Created \subseteq Ids
  BY OffheapAssumption DEF AInv, Shape, Created, Ids
<1>2. Held' = Held /\ Held \subseteq Ids
  BY <1>1 DEF Held
<1> QED
  BY <1>2 DEF HeldMap

\* cgo_free on a held slice, by FreeSlice or by the finalizer, is the
\* Free of OffheapSpec.
LEMMA HeldFree ==
  ASSUME AInv, nslices' = nslices, NEW s \in Created, slice[s].mem = "held",
         slice'[s].mem # "held", \A y \in Ids \ {s} : slice'[y] = slice[y]
  PROVE  Abs!Free(s)
<1>1. Created' = Created /\ Created \subseteq Ids
  BY OffheapAssumption DEF AInv, Shape, Created, Ids
<1>2. Held' = Held \ {s} /\ s \in Held /\ Held \subseteq Ids
  BY <1>1 DEF Held
<1>3. HeldMap' = [x \in DOMAIN HeldMap \ {s} |-> HeldMap[x]]
  BY <1>2 DEF HeldMap
<1> QED
  BY <1>2, <1>3 DEF Abs!Free, HeldMap

\* A successful cgo_malloc is the Alloc of OffheapSpec: the new slice was
\* not held, and a MakeSlice reservation that passed the cap check at its
\* Add still fits under the cap with the held slices that honour it.
LEMMA MallocOKAlloc ==
  ASSUME AInv, NEW t \in Threads, MallocOK(t)
  PROVE  Abs!Alloc(nslices + 1, req[t].n, req[t].force)
<1> DEFINE s == nslices + 1
<1>0. /\ Shape /\ Owners /\ Bound /\ Acct /\ Cap /\ MaxOffheap \in Nat
  BY OffheapAssumption DEF AInv
<1>1. /\ pc[t] = "malloc" /\ nslices' = s
      /\ slice' = [slice EXCEPT ![s] = [n |-> req[t].n, force |-> req[t].force, mem |-> "held",
                                         fin |-> TRUE, owner |-> t, frees |-> 0]]
  BY DEF MallocOK, FinalizerSet
<1>2. t \in InFlight /\ req[t].n \in Sizes /\ req[t].n \in Nat
  BY <1>0, <1>1, OffheapAssumption DEF InFlight, Owners
<1>3. s \in Ids /\ s \notin Created /\ Created \subseteq Ids
  <2>1. Cardinality(InFlight) \in Nat /\ Cardinality(InFlight) # 0
    BY <1>0, <1>2, FS_CardinalityType, FS_EmptySet DEF Bound
  <2> QED
    BY <1>0, <2>1, OffheapAssumption DEF Bound, Shape, Created, Ids
<1>4. /\ slice'[s].n = req[t].n /\ slice'[s].force = req[t].force /\ slice'[s].mem = "held"
      /\ \A x \in Ids \ {s} : slice'[x] = slice[x]
  BY <1>0, <1>1, <1>3 DEF Shape
<1>5. Held' = Held \cup {s} /\ s \notin Held /\ Held \subseteq Ids \ {s}
  <2>1. Created' = Created \cup {s}
    <3>1. nslices \in Nat
      BY <1>0, OffheapAssumption DEF Shape
    <3> QED
      BY <1>1, <3>1 DEF Created
  <2> QED
    BY <1>3, <1>4, <2>1 DEF Held
<1>6. s \notin DOMAIN HeldMap
  BY <1>5 DEF HeldMap
<1>7. req[t].force \/ Abs!CappedBytes(HeldMap) + req[t].n <= MaxOffheap
  <2>1. CASE ~req[t].force
    <3>1. t \in CappedInFlight /\ CappedInFlight \subseteq InFlight
      BY <1>1, <2>1 DEF CappedInFlight, InFlight
    <3>2. IsFiniteSet(ByteSet(CappedInFlight, ReqSize))
      BY <1>0, <3>1, ByteSetMono DEF Acct
    <3>3. /\ SumBytes(CappedInFlight \ {t}, ReqSize) = SumBytes(CappedInFlight, ReqSize) - ReqSize[t]
          /\ SumBytes(CappedInFlight \ {t}, ReqSize) \in Nat
      <4>1. ReqSize[t] \in Nat
        BY <1>2 DEF ReqSize
      <4> QED
        BY <3>1, <3>2, <4>1, ByteSetRemove
    <3>4. SumBytes(CappedHeld, SliceSize) \in Nat /\ SumBytes(CappedInFlight, ReqSize) \in Nat
      <4>1. CappedHeld \subseteq Live
        BY DEF CappedHeld, Held, Live
      <4> QED
        BY <1>0, <3>2, <4>1, ByteSetMono, SumBytesNat DEF Acct
    <3>5. SumBytes(CappedHeld, SliceSize) + req[t].n <= MaxOffheap
      BY <1>0, <1>2, <3>3, <3>4 DEF Cap, ReqSize
    <3> QED
      BY <3>5, CappedBytesHeld
  <2> QED
    BY <2>1
<1>8. HeldMap' = Abs!Extend(HeldMap, s, [n |-> req[t].n, force |-> req[t].force])
  BY <1>4, <1>5 DEF HeldMap, Abs!Extend
<1> QED
  BY <1>6, <1>7, <1>8 DEF Abs!Alloc, HeldMap

\* Every step of the allocator is a step of OffheapSpec or leaves the held
\* slices as they are.
LEMMA RefineStep == AInv /\ [Next]_vars => [Abs!Next]_HeldMap
<1> SUFFICES ASSUME AInv, [Next]_vars PROVE [Abs!Next]_HeldMap
  OBVIOUS
<1>0. /\ Shape /\ Owners
  BY DEF AInv
<1>1. ASSUME NEW t \in Threads, NEW n \in Sizes, MakeSlice(t, n) \/ MakeOffheapSlice(t, n)
      PROVE  HeldMap' = HeldMap
  BY <1>1 DEF MakeSlice, MakeOffheapSlice, HeldMap, Held, Created
<1>2. ASSUME NEW t \in Threads, MallocOK(t) PROVE Abs!Next
  <2>1. nslices + 1 \in Ids /\ req[t].n \in Sizes /\ req[t].force \in BOOLEAN
    <3>1. t \in InFlight /\ nslices + Cardinality(InFlight) <= MaxSlices /\ IsFiniteSet(InFlight)
      BY <1>2 DEF MallocOK, InFlight, AInv, Bound
    <3>2. Cardinality(InFlight) \in Nat /\ Cardinality(InFlight) # 0
      BY <3>1, FS_CardinalityType, FS_EmptySet
    <3> QED
      BY <1>0, <3>1, <3>2, OffheapAssumption DEF Owners, Shape, Ids
  <2>2. Abs!Alloc(nslices + 1, req[t].n, req[t].force)
    BY <1>2, MallocOKAlloc
  <2>3. PICK id \in Ids, n \in Sizes, f \in BOOLEAN :
              id = nslices + 1 /\ n = req[t].n /\ f = req[t].force
    BY <2>1
  <2>4. Abs!Alloc(id, n, f)
    BY <2>2, <2>3 DEF Abs!Alloc, Abs!Extend, Abs!CappedBytes
  <2> QED
    BY <2>4 DEF Abs!Next
<1>3. ASSUME NEW t \in Threads, MallocFail(t) \/ Undo(t) PROVE HeldMap' = HeldMap
  BY <1>3 DEF MallocFail, Undo, HeldMap, Held, Created
<1>4. ASSUME NEW t \in Threads, FreeSlice(t) PROVE [Abs!Next]_HeldMap
  <2> DEFINE s == cur[t]
  <2>1. s \in Created /\ s \in Ids
    BY <1>0, <1>4, OffheapAssumption DEF FreeSlice, Owners, Shape, Created, Ids
  <2>2. CASE PtrSet(s)
    <3>0. PICK x \in Created : x = s
      BY <2>1
    <3>1. Abs!Free(x)
      <4>0. slice[s].mem = "held"
        BY <1>4, <2>2, FreeSliceHeld DEF FreeSlice
      <4>1. /\ slice' = [slice EXCEPT ![s].mem = "freed", ![s].frees = @ + 1]
            /\ nslices' = nslices /\ slice[s].mem = "held"
        BY <1>4, <2>2, <4>0 DEF FreeSlice
      <4>2. /\ slice'[x].mem # "held" /\ slice[x].mem = "held"
            /\ \A y \in Ids \ {x} : slice'[y] = slice[y]
        BY <1>0, <2>1, <3>0, <4>1 DEF Shape
      <4> QED
        BY <3>0, <4>1, <4>2, HeldFree
    <3>2. x \in Ids
      BY <2>1, <3>0
    <3> QED
      BY <3>1, <3>2 DEF Abs!Next
  <2>3. CASE ~PtrSet(s)
    BY <1>4, <2>3 DEF FreeSlice, HeldMap, Held, Created
  <2> QED
    BY <2>2, <2>3
<1>5. ASSUME NEW t \in Threads, FreeSliceSub(t) PROVE HeldMap' = HeldMap
  <2> DEFINE s == cur[t]
  <2>1. s \in Ids /\ slice[s].mem = "freed"
    BY <1>0, <1>5, OffheapAssumption DEF FreeSliceSub, Owners, Shape, Created, Ids
  <2>2. /\ nslices' = nslices /\ slice'[s].mem = "nil" /\ slice'[s].n = slice[s].n
        /\ slice'[s].force = slice[s].force /\ \A y \in Ids \ {s} : slice'[y] = slice[y]
    BY <1>0, <1>5, <2>1 DEF FreeSliceSub, ReclaimRest, Shape
  <2> QED
    BY <2>1, <2>2, HeldFrame
<1>6. ASSUME NEW t \in Threads, Drop(t) PROVE HeldMap' = HeldMap
  <2>1. cur[t] \in Ids
    <3>1. pc[t] = "own"
      BY <1>6 DEF Drop
    <3>2. cur[t] \in Created
      BY <1>0, <3>1 DEF Owners
    <3> QED
      BY <1>0, <3>2, OffheapAssumption DEF Shape, Created, Ids
  <2>2. /\ nslices' = nslices
        /\ \A y \in Ids : /\ slice'[y].n = slice[y].n /\ slice'[y].force = slice[y].force
                          /\ slice'[y].mem = slice[y].mem
    BY <1>0, <1>6, <2>1 DEF Drop, Shape
  <2> QED
    BY <2>2, HeldFrame
<1>7. ASSUME NEW s \in Ids, Finalize(s) PROVE [Abs!Next]_HeldMap
  <2>1. s \in Created /\ nslices' = nslices
    BY <1>7 DEF Finalize
  <2>2. CASE PtrSet(s)
    <3>a. slice[s].mem = "held"
      BY <1>7, <2>2, FinalizeHeld
    <3>0. /\ slice' = [slice EXCEPT ![s].fin = FALSE, ![s].mem = "freed", ![s].frees = @ + 1]
          /\ slice[s].mem = "held"
      BY <1>7, <2>2, <3>a DEF Finalize
    <3>1. /\ slice'[s].mem = "freed"
          /\ \A y \in Ids \ {s} : slice'[y] = slice[y]
      BY <1>0, <3>0 DEF Shape
    <3>2. Abs!Free(s)
      BY <2>1, <3>0, <3>1, HeldFree
    <3>3. \E id \in Ids : Abs!Free(id)
      BY <3>2
    <3> QED
      BY <3>3 DEF Abs!Next
  <2>3. CASE ~PtrSet(s)
    <3>1. \A y \in Ids : /\ slice'[y].n = slice[y].n /\ slice'[y].force = slice[y].force
                         /\ slice'[y].mem = slice[y].mem
      <4>1. slice' = [slice EXCEPT ![s].fin = FALSE]
        BY <1>7, <2>3 DEF Finalize
      <4> QED
        BY <1>0, <4>1 DEF Shape
    <3> QED
      BY <2>1, <3>1, HeldFrame
  <2> QED
    BY <2>2, <2>3
<1>8. CASE FinalizeSub
  <2>1. fpc \in Ids /\ slice[fpc].mem = "freed"
    BY <1>0, <1>8, OffheapAssumption DEF FinalizeSub, Owners, Shape, Created, Ids
  <2>2. /\ nslices' = nslices /\ slice'[fpc].mem = "nil" /\ slice'[fpc].n = slice[fpc].n
        /\ slice'[fpc].force = slice[fpc].force /\ \A y \in Ids \ {fpc} : slice'[y] = slice[y]
    BY <1>0, <1>8, <2>1 DEF FinalizeSub, ReclaimRest, Shape
  <2> QED
    BY <2>1, <2>2, HeldFrame
<1>9. CASE UNCHANGED vars
  BY <1>9 DEF vars, HeldMap, Held, Created
<1> QED
  BY <1>1, <1>2, <1>3, <1>4, <1>5, <1>6, <1>7, <1>8, <1>9 DEF Next

\* The allocator implements OffheapSpec: memory is taken when cgo_malloc
\* returns and given back at cgo_free, and a MakeSlice is granted only while
\* the capped slices hold at most MaxOffheapBytes() with it, though the
\* code checks the counter, at the Add, among other goroutines' reservations.
THEOREM OffheapRefinesSpec == Spec => ImplementsOffheapSpec
<1>1. Init => Abs!Init
  <2> SUFFICES ASSUME Init PROVE HeldMap = [x \in {} |-> [n |-> 0, force |-> FALSE]]
    BY DEF Abs!Init, HeldMap
  <2>1. Held = {}
    BY DEF Init, Held, Created
  <2> QED
    BY <2>1 DEF HeldMap
<1>2. AInv /\ [Next]_vars => [Abs!Next]_HeldMap
  BY RefineStep
<1> QED
  BY <1>1, <1>2, InitAInv, NextAInv, PTL DEF Spec, ImplementsOffheapSpec, Abs!Spec, HeldMap

\* The slices that honour the cap never hold more than MaxOffheapBytes()
\* between them, however many MakeSlice calls pass their check at once.
THEOREM OffheapCapHolds == Spec => []Abs!CapRespected
<1>1. AInv => Abs!CapRespected
  <2> SUFFICES ASSUME AInv PROVE Abs!CapRespected
    OBVIOUS
  <2>1. CappedHeld \subseteq Live /\ CappedInFlight \subseteq InFlight
    BY DEF CappedHeld, Held, Live, CappedInFlight, InFlight
  <2>2. SumBytes(CappedInFlight, ReqSize) \in Nat /\ SumBytes(CappedHeld, SliceSize) \in Nat
    BY <2>1, ByteSetMono DEF AInv, Acct
  <2>3. SumBytes(CappedHeld, SliceSize) <= MaxOffheap
    BY <2>2, OffheapAssumption DEF AInv, Cap
  <2>4. Abs!CappedBytes(HeldMap) = SumBytes(CappedHeld, SliceSize)
    BY CappedBytesHeld
  <2> QED
    BY <2>3, <2>4 DEF Abs!CapRespected, HeldMap
<1> QED
  BY <1>1, InitAInv, NextAInv, PTL DEF Spec

=============================================================================
