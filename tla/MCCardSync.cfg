\* One process at a time (the systemd unit), every fault but a lost commit,
\* two-card pages, any row to begin with, saved cursors that scan or do not.
SPECIFICATION FairSpec
CONSTANTS
  Cards = {c1, c2, c3}
  Jobs = {timer}
  Timer = timer
  Overlap = FALSE
  BatchSize = 2
  PageMax = 2
  FaultKinds = {"api", "db", "crash", "cancel"}
  MaxFaults = 2
  MaxClock = 3
  CursorScans = {TRUE, FALSE}
  NoRow = NoRow
  NullRow = NullRow
  SeedRows = {NoRow, NullRow}
INVARIANTS
  TypeOK
  CursorCovers
  SuccessMeansCaughtUp
  NeverOverReports
PROPERTIES ImplementsMirror ConvergesPastCursor RunsEnd
