\* Two runs at once; every change upstream and every fault, between any two calls.
SPECIFICATION Spec
CONSTANTS
  Products = {p1, p2}
  Stores = {s1, s2}
  Quantities = {0, 3}
  Unit = 2
  Limit = 1
  Jobs = {timer, manual}
  Overlap = TRUE
  Changes = {"insert", "remove", "quantity", "store"}
  MaxChanges = 1
  FaultKinds = {"api", "db", "crash", "cancel"}
  MaxFaults = 1
  MaxSnapshots = 2
SYMMETRY MoyskladSymmetry
INVARIANTS TypeOK SnapshotWasShown
PROPERTIES ImplementsStore SuccessRenewsAll
