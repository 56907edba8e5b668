SPECIFICATION FairSpec
CONSTANTS
  t1 = t1
  t2 = t2
  n1 = n1
  n2 = n2
  None = None
  Tasks <- OneTask
  Target <- AnyTarget
  NodeSplit <- AllSplit
  Values <- TwoValues
  Slow = {}
  HostAsClient = FALSE
  HostSplits = TRUE
  Nodes <- TwoNodes
  MaxConns = 2
  MaxDrops = 1
INVARIANT
  IInv
PROPERTIES
  EveryPartSettles
  ImplementsService
CHECK_DEADLOCK FALSE
