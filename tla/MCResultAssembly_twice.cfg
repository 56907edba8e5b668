SPECIFICATION Spec
CONSTANTS
  r1 = r1
  r2 = r2
  t1 = t1
  t2 = t2
  NoResult = NoResult
  Threads <- TwoThreads
  Tasks <- BothTasks
  Total <- TwoEach
INVARIANT CompletedOnce
CHECK_DEADLOCK FALSE
