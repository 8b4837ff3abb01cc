SPECIFICATION ComponentsSpec
CONSTANTS
  NoInstance = NoInstance
  BatchIds = {1}
  ClaimIds = {k1, k2}
  Instances = {i1}
  Stages = {0}
  Payloads = {"p", "q"}
  LeaseTtl = 1
  U32Max = 1
  RowCounts = {2}
  MaxNow = 0
  HeartbeatTimes = {0}
  MaxCheckpointSeq = 2
  ScanRows = 6
  AfterFailures = 2
  MaxAttempts = 3
  MaxSaves = 3
  Callers = {c1, c2}
  Chunks = 3
  PoolCapacity = 1
  Threshold = 2
  MaxStreams = 2
  MaxCalls = 4
  NumSystems = 3
  Fields = {"f", "g"}
  Resources = {"g"}
  Metas <- MCMetas
  Attempts = 2
  NumPipelines = 3
  Priority <- MCPriority
  Stamps <- MCStamps
  Hashes <- MCHashes
  Null = Null
  NoMark = NoMark
  Size = 4
  Slide = 2
  Offset = 1
  Gap = 2
  Lateness = 2
  HostBudgets = {1, 2}
  OtherStamps = {3}
  NumInstances = 2
  RunToReport = 2
  MaxRows = 4
  MinRows = 1
  MaxFlowRows = 6
  StartRows = 4
  Growth <- MCGrowth
  Backoff <- MCBackoff
  CeilingDivisor = 8
  MinSamples = 1
  SettleAfter = 1
  Cooldown = 1
  TrendPasses = 2
  MaxDoublings = 1
  HasObjective = TRUE
  BinlogBatchRows = {1, 2}
  BinlogCap = 1
  BinlogChanges = 2
  TxRows = {1, 3}
  SnapshotPages = 2
  MaxTransactions = 4
  LogicalBatchRows = 2
  LogicalCap = 2
  SlotTxRows = {0, 1, 3}
  MaxSlotTransactions = 4
  Messages = 3
  WindowSize = 2
  DecodeAttempts = 2
  MaxDeliveries = 3
  MaxBatches = 3
  MaxWriteFaults = 3
  MaxIntrusions = 1
CHECK_DEADLOCK FALSE
INVARIANTS
  ScanFindsFirstGap
  BackoffGoesOn
  LoadedIsWhole
  AnswersAreOwn SnapshotsAreWhole
  SerialEquivalence
  NeededFirst DroughtSpreads
  EveryRowPlaced HostSeesTheDrops LateMeansSeen
  StallsOnlyByRounding
  NoSilentSkips CyclesMoveOn IdleIsQuiet
  LandsOnceOrNot
PROPERTIES CheckpointSeqExact
