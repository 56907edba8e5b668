SPECIFICATION FairSpec
CONSTANTS
  home = home
  away = away
  Positions <- BothPositions
  Home = home
  SavedViews <- TwoSaved
  MaxNodes = 2
  MaxCache = 2
  MaxEvents = 2
  MaxStale = 1
INVARIANTS ShownIsCurrent AskedOnce ResultsTracked
PROPERTY ViewShown
CHECK_DEADLOCK FALSE
