SPECIFICATION FairSpec
CONSTANTS
  MtimeTolerance = 3
  LikelyUnixNsThreshold = 50
  WindowsEpochDiff = 12
  Tick = 2
  MaxInt64 = 70
  File = {1, 2}
  Remote <- MCRemote
  Manifest <- MCManifest
  Cases <- MCCases
  CompareWorker = {p1}
  BatchPop = 1
  ActiveCap = 0
  HashWorkers = 2
  InitialWorkers = 1
  BacklogFactor = 1
  NetWindowMin = 1
  NetWindowMax = 2
  Checkers = 2
  CompareInFlightCap = 1
  RecvBatch = 2
  Walker = {k1, k2}
  Root = "root"
  SubDirs <- MCSubDirs
  LocalFiles <- MCLocalFiles
  Unreadable <- MCUnreadable
  DirPopBatch = 1
INVARIANTS  EveryEntryOnce RecvHasFrame
PROPERTY CheckEnds
CHECK_DEADLOCK FALSE
