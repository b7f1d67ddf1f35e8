\* A product leaves the report between two runs.
SPECIFICATION Spec
CONSTANTS
  Products = {p1, p2}
  Stores = {s1}
  Quantities = {0, 2}
  Unit = 2
  Limit = 3
  Jobs = {timer}
  Overlap = FALSE
  Changes = {"remove"}
  MaxChanges = 1
  FaultKinds = {}
  MaxFaults = 0
  MaxSnapshots = 2
SYMMETRY MoyskladSymmetry
INVARIANTS StockTotalIsStock
