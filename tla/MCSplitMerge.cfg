SPECIFICATION Spec
CONSTANTS
  Ranges <- UpToTen
  ClientCounts <- UpToThree
  ThreadCounts <- UpToThree
INVARIANTS CompleteRight AllMatched Settles NoValueTwice
CHECK_DEADLOCK FALSE
