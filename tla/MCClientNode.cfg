SPECIFICATION FairSpec
CONSTANTS
  t1 = t1
  t2 = t2
  None = None
  Tasks <- TwoTasks
  MaxBreaks = 1
  MaxFull = 1
INVARIANTS SentWhole ConnectedTruly NoWorkLost
PROPERTIES Reconnects Stops NotDeceived EveryTaskAnswered
CHECK_DEADLOCK FALSE
