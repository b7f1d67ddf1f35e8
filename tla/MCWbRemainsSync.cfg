\* Goods come and go while the report is made; one run after the other.
SPECIFICATION FairSpec
CONSTANTS
  Items = {i1, i2}
  MaxQuantity = 2
  MaxChanges = 2
  FaultKinds = {"api", "db", "commit", "crash", "cancel"}
  MaxFaults = 2
INVARIANTS TypeOK SuccessIsFresh
PROPERTIES WritesWereHeld CancelEnds ReportEnds
