\* SIGTERM while a run is in progress.
SPECIFICATION Spec
CONSTANTS
  Cards = {c1, c2}
  Jobs = {timer}
  Timer = timer
  Overlap = FALSE
  BatchSize = 1
  PageMax = 1
  FaultKinds = {"cancel"}
  MaxFaults = 1
  MaxClock = 3
  CursorScans = {FALSE}
  NoRow = NoRow
  NullRow = NullRow
  SeedRows = {NoRow}
PROPERTY EveryRunLogged
