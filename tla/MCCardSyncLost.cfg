\* A batch that is acked but does not commit.
SPECIFICATION Spec
CONSTANTS
  Cards = {c1, c2}
  Jobs = {timer}
  Timer = timer
  Overlap = FALSE
  BatchSize = 1
  PageMax = 1
  FaultKinds = {"commit"}
  MaxFaults = 1
  MaxClock = 3
  CursorScans = {FALSE}
  NoRow = NoRow
  NullRow = NullRow
  SeedRows = {NoRow}
INVARIANT CursorCovers
