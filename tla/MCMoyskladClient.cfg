\* Light and heavy calls at any times, each with a retry, and a signal.
SPECIFICATION FairSpec
CONSTANTS
  Window = 7
  LightLimit = 3
  HeavyLimit = 2
  RetryMax = 1
  StorePages = 5
INVARIANTS TypeOK CallsPerMinute
PROPERTIES CallsEnd CancelEnds
