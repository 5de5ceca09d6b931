SPECIFICATION Spec
CONSTANTS
  Byte = {0, 1, 2}
  MaxNew = 4
  MaxOld = 5
  L = 2
  WeakMod = 2
  Word = 4096
  Chunk = 2
  SliceLen = 1
  PrefixFloorBytes = 1
  PrefixFloorBlocks = 1
  PrefixPercent = 5
  PrefixCapBytes = 3
  EvalStride = 1
  ActiveCapInitial = 4
  ActiveCapMax = 6
  LatencyHalve = 15
  LatencyGrow = 30
  RateMin = 2
  MaxU64 = 255
  Backlogs = {0, 1, 6}
  Bytes = {0, 60, 255}
  Rates = {0, 2, 3}
  Latencies = {1, 20, 100}
  Budget = 100
  HardwareThreads = 5
  MaxWindows = 4
  BaseStreams = {1, 4, 12, 16, 17, 33, 1024}
  Rtts = {0, 1, 9, 10, 11, 19, 29, 30, 59, 60, 79, 99, 400}
  Hw = {0, 1, 3, 64}
  MtimeTolerance = 3
  LikelyUnixNsThreshold = 50
  WindowsEpochDiff = 12
  Tick = 2
  MaxInt64 = 100
  LocalTrees <- MCLocalTrees
  ServedTrees <- MCServedTrees
  SelfPath <- MCSelfPath
  Unreadable <- MCUnreadable
  ReconnectRetries = {0, 2}
  DirWorkers = 2
  Now = 80
  MaxSessions = 3
  MaxFailures = 2
INVARIANTS StreamingAgrees  TuningMonotone 
PROPERTIES WriteCapSteady MirrorSafe
CHECK_DEADLOCK FALSE
