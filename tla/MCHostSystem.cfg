SPECIFICATION SystemFairSpec
CONSTANTS
  r1 = r1
  r2 = r2
  t1 = t1
  t2 = t2
  NoResult = NoResult
  Threads <- TwoThreads
  Tasks <- BothTasks
  Total <- TwoAndOne
INVARIANTS NoResultLost NothingStranded OnceUnraced AliveUnraced
INVARIANTS LeavesNothing DeletedOnce
PROPERTY EveryTaskDelivered
CHECK_DEADLOCK FALSE
