CONSTANTS
    Keys <- MCKeys
    ShardCount = 3
    Owner <- ThreeShardOwner
    Batches <- ThreeTx
    InitialStates <- WithA
    MaxBatchLen = 3
    MultiThreaded = FALSE
    MaxRpcFailures = 0
SPECIFICATION SchedulerFairSpec
INVARIANTS TypeOK InstalledIsSerial CompletedIsReordered PublishedIsReordered
PROPERTY EventuallyDone
CHECK_DEADLOCK FALSE
