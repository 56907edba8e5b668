SPECIFICATION FairSpec
CONSTANTS
  c1 = c1
  c2 = c2
  Clients <- TwoClients
  MaxParts = 3
INVARIANTS ThreadsJoined OnePartLocal
PROPERTIES CallsReturn PartsAnswered
CHECK_DEADLOCK FALSE
