\* Three workers, so that two of them race for the mutex while a third is
\* being started and the caller's Wait can run between any of their steps.
CONSTANTS
  w1 = w1
  w2 = w2
  w3 = w3
  Workers <- MCWorkers
  Caller = Caller
  NoG = NoG
SPECIFICATION FairSpec
INVARIANTS TypeOK WaitSeesEveryDone
PROPERTY WaitReturns
\* Once Wait has returned and every Done has finished, nothing is left to run.
CHECK_DEADLOCK FALSE
