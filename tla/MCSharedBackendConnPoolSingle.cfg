\* The single[] path of BackendConn: Parallel = 1, so the pool keeps s.single
\* and BackendConn returns its one conn when connected or when must is set.
CONSTANTS
  a1 = a1
  a2 = a2
  h1 = h1
  h2 = h2
  Addrs <- MCAddrs
  Holders <- MCHolders
  NumDBs = 1
  Parallel = 1
  MaxObjs = 3
  MaxSeed = 1
  NoObj = NoObj
  NoAddr = NoAddr
  NoWorker = NoWorker
SPECIFICATION Spec
INVARIANTS SelectionFollowsSpec
\* The pool stops for good once a misuse has made it panic.
CHECK_DEADLOCK FALSE
