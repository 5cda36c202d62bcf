\* The spurious refusal: two goroutines, a cap of 2, requests of 1 and 2.
CONSTANTS
  t1 = t1
  t2 = t2
  Threads <- MCThreads
  Sizes = {1, 2}
  MinOffheapSlice = 1
  MaxOffheap = 2
  MaxSlices = 3
  NoThread = NoThread
  NoSlice = NoSlice
SPECIFICATION Spec
PROPERTY RefusedOnlyAtCap
\* Allocation stops after MaxSlices slices and the goroutines may keep
\* theirs: the program really may stop there.
CHECK_DEADLOCK FALSE
