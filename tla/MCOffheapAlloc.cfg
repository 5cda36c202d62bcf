\* Two goroutines, slices of 1 or 2 bytes, all of them off-heap, a cap of 2
\* so that two 1-byte slices fit and a 2-byte one fits only alone, and
\* three slices in all so that a slice is freed and another allocated.
CONSTANTS
  t1 = t1
  t2 = t2
  Threads <- MCThreads
  Sizes = {1, 2}
  MinOffheapSlice = 1
  MaxOffheap = 2
  MaxSlices = 3
  NoThread = NoThread
  NoSlice = NoSlice
SPECIFICATION FairSpec
INVARIANTS TypeOK OffheapBytesExact NoDoubleFree
PROPERTIES ImplementsOffheapSpec UnreachableReclaimed
\* Allocation stops after MaxSlices slices and the goroutines may keep
\* theirs: the program really may stop there.
CHECK_DEADLOCK FALSE
