\* As many orders as fit on a page share a second.
SPECIFICATION FairSpec
CONSTANTS
  Orders = {o1, o2}
  Sec = 2
  Limits = {2}
  PageMax = 2
  Burst = 2
  MaxTime = 4
  FaultKinds = {}
  MaxFaults = 0
PROPERTY RunEnds
