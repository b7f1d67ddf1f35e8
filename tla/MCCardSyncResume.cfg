\* The cursor row as the program itself leaves it, in the format the driver
\* asks for by default.
SPECIFICATION FairSpec
CONSTANTS
  Cards = {c1, c2}
  Jobs = {timer}
  Timer = timer
  Overlap = FALSE
  BatchSize = 1
  PageMax = 1
  FaultKinds = {}
  MaxFaults = 0
  MaxClock = 3
  CursorScans = {FALSE}
  NoRow = NoRow
  NullRow = NullRow
  SeedRows = {NoRow}
PROPERTY Converges
