\* Changes at Ozon and every fault; a database clock that is ahead, runs a second and
\* the skew apart. The clock's bound stops the runs.
SPECIFICATION FairSpec
CHECK_DEADLOCK FALSE
CONSTANTS
  Products = {1, 2}
  MaxStock = 1
  Limit = 1
  Sec = 2
  DbAhead = 1
  DbBehind = 0
  Gap = 3
  MaxTime = 4
  MaxChanges = 2
  FaultKinds = {"api", "db", "commit", "crash", "cancel"}
  MaxFaults = 1
INVARIANTS TypeOK StockWasShown
PROPERTIES WritesWereShown RunEnds
