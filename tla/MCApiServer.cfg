\* The sync and the server side by side. The bounds stop both.
SPECIFICATION FairSpec
CHECK_DEADLOCK FALSE
CONSTANTS
  Fbo = {1, 2}
  Fbs = {3}
  Limit = 1
  MaxChanges = 1
  FaultKinds = {"api", "db", "commit", "crash", "cancel", "query", "rows"}
  MaxFaults = 1
  Clients = {c1}
  MaxConns = 1
  PageLimit = 1
  Times <- Tied
INVARIANTS TypeOK ServerTypeOK LogIsTrue PageFitsTotal StatsCover ListSeesAll
PROPERTIES RunEnds RequestsEnd
