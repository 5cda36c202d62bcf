\* Two addresses, two holders, three objects (so an address is closed and
\* created again), one database of three parallel conns, seeds 0 .. 5 so
\* that the scan wraps round.
CONSTANTS
  a1 = a1
  a2 = a2
  h1 = h1
  h2 = h2
  Addrs <- MCAddrs
  Holders <- MCHolders
  NumDBs = 1
  Parallel = 3
  MaxObjs = 3
  MaxSeed = 5
  NoObj = NoObj
  NoAddr = NoAddr
  NoWorker = NoWorker
SPECIFICATION Spec
INVARIANTS TypeOK NoPanicWithoutMisuse HeldWorkersOpen MapPointsToLive SelectionFollowsSpec
\* The pool stops for good once a misuse has made it panic.
CHECK_DEADLOCK FALSE
