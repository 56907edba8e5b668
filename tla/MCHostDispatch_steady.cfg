SPECIFICATION FairSpec
CONSTANTS
  t1 = t1
  t2 = t2
  n1 = n1
  n2 = n2
  None = None
  Tasks <- TwoTasks
  Target <- MixedTarget
  NodeSplit <- AllSplit
  Values <- TwoValues
  Slow = {}
  HostAsClient = TRUE
  HostSplits = TRUE
  Nodes <- OneNode
  MaxConns = 1
  MaxDrops = 0
INVARIANTS
  NoFailure
  BusyWhileTasked
PROPERTY
  EveryTaskDone
