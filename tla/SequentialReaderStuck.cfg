SPECIFICATION FairSpec
CONSTANTS
  Chunks = 5
  OnDisk = 5
  ReadAhead = 2
  MayBackpressure = TRUE
  MayCancel = FALSE
PROPERTY NextReturns
CHECK_DEADLOCK FALSE
