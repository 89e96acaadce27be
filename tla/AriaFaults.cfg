CONSTANTS
    Keys <- MCKeys
    ShardCount = 3
    Owner <- ThreeShardOwner
    Batches <- TwoTx
    InitialStates <- WithA
    MaxBatchLen = 3
    MultiThreaded = TRUE
    MaxRpcFailures = 1
SPECIFICATION SchedulerSpec
INVARIANTS SnapshotReads FailedSetsAgree NoStrayEntry
CHECK_DEADLOCK FALSE
