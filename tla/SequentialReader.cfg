SPECIFICATION FairSpec
CONSTANTS
  Chunks = 10
  OnDisk = 9
  ReadAhead = 3
  MayBackpressure = TRUE
  MayCancel = TRUE
INVARIANTS MemoryBounded CleanEofMeansComplete
PROPERTY OutstandingReadReturns
CHECK_DEADLOCK FALSE
