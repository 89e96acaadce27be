CONSTANTS
    Keys <- MCKeys
    ShardCount = 2
    Owner <- TwoShardOwner
    Batches <- OneTx
    InitialStates <- WithA
    MaxBatchLen = 3
    MultiThreaded = TRUE
    MaxRpcFailures = 0
SPECIFICATION SchedulerFairSpec
PROPERTY EventuallyInstalled
CHECK_DEADLOCK FALSE
