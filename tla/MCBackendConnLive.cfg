CONSTANTS
  r1 = r1
  r2 = r2
  p1 = p1
  p2 = p2
  NoReq = NoReq
  Reqs <- MCReqs
  Broken <- MCNoBroken
  InputCap = 2
  RetryLimit = 1
  CallbackCap = 1
  MaxRounds = 2
  MaxFlips = 1
  Probes <- MCProbe
  MaxPipeline = 4
  MaxFaults = 1

SPECIFICATION FairSpec
PROPERTY CompletedUnlessLeftInInput
PROPERTY CloseTerminates
CHECK_DEADLOCK FALSE
