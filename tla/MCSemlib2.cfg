\* Three threads call the operations of one semaphore in any order.
CONSTANTS
  Sems = {sem}
  Threads = {t1, t2, t3}
  InitValue <- MCInitValue
  MaxValue = 2
  Free = Free
SPECIFICATION FairSpec
INVARIANTS IInv MutualExclusion
PROPERTIES OthersReturn ImplementsSemaphore
