SPECIFICATION Spec
CONSTANTS
  t1 = t1
  t2 = t2
  n1 = n1
  n2 = n2
  None = None
  Tasks <- OneTask
  Target <- AnyTarget
  NodeSplit <- AllSplit
  Values <- TwoValues
  Slow <- OneTask
  HostAsClient = TRUE
  HostSplits = TRUE
  Nodes <- TwoNodes
  MaxConns = 3
  MaxDrops = 1
INVARIANTS
  OnePlace
  AcceptedOnce
  LiveTasksExist
  ReceiversJoined
PROPERTY
  PartsConserved
CHECK_DEADLOCK FALSE
