SPECIFICATION Spec
CONSTANTS
  t1 = t1
  t2 = t2
  n1 = n1
  n2 = n2
  None = None
  Tasks <- OneTask
  Target <- AnyTarget
  NodeSplit <- AllSplit
  Values <- TwoValues
  Slow = {}
  HostAsClient = TRUE
  HostSplits = TRUE
  Nodes <- OneNode
  MaxConns = 2
  MaxDrops = 1
INVARIANT
  NothingLost
CHECK_DEADLOCK FALSE
