\* Two waiters and a poster on one semaphore that starts at 0.
CONSTANTS
  Sems = {sem}
  Threads = {t1, t2, t3}
  InitValue <- MCZero
  MaxValue = 2
  Free = Free
SPECIFICATION FairSpec
PROPERTIES SleeperIsWoken
