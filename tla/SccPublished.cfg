CONSTANTS
    Keys <- MCKeys
    ShardCount = 2
    Owner <- TwoShardOwner
    Batches <- CreateTwiceAndRename
    InitialStates <- WithA
    MaxBatchLen = 4
    MaxRpcFailures = 0
SPECIFICATION SchedulerSpec
INVARIANT PublishedIsInstalled
CHECK_DEADLOCK FALSE
