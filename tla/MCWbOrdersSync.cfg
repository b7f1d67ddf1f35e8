\* Orders change while they are read, two in a millisecond; every fault; a page limit
\* or none.
SPECIFICATION FairSpec
CONSTANTS
  Orders = {o1, o2, o3}
  Sec = 2
  Limits = {0, 2}
  PageMax = 2
  Burst = 2
  MaxTime = 3
  FaultKinds = {"api", "db", "commit", "crash", "cancel"}
  MaxFaults = 1
INVARIANTS TypeOK SuccessStoresAll
PROPERTY RunEndsUnlessCrowded
