CONSTANTS
  r1 = r1
  r2 = r2
  p1 = p1
  p2 = p2
  NoReq = NoReq
  Reqs <- MCReqs
  Broken <- MCBroken
  InputCap = 2
  RetryLimit = 1
  CallbackCap = 1
  MaxRounds = 2
  MaxFlips = 1
  Probes <- MCProbes
  MaxPipeline = 2
  MaxFaults = 1

SPECIFICATION Spec
INVARIANT ConnectedOnlyWithLiveReader
CHECK_DEADLOCK FALSE
