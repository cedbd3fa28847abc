SPECIFICATION FairSpec
CONSTANTS
  Minute = 2
  Hour = 8
  Size = 4
  Fraction = 1
  Lead = 1
  MaxEdges = 2
  Starts = {2, 3}
  MaxTime = 6
  BatchSize = 1
  MaxPending = 2
  MaxFlips = 1
  MaxJobs = 1
INVARIANTS TypeOK EdgesExact OutageFilled NotBehind
PROPERTIES HistoryFirst Drained
CHECK_DEADLOCK FALSE
