CONSTANTS
    Keys <- MCKeys
    ShardCount = 2
    Owner <- TwoShardOwner
    Batches <- ThreeTx
    InitialStates <- WithA
    MaxBatchLen = 3
    MaxRpcFailures = 1
SPECIFICATION SchedulerFairSpec
INVARIANTS SpeculationTypeOK SpeculationAgrees FailurePropagates DeltasApply InstalledIsSerial CompletedIsReordered PublishedIsReordered PublishedIsExecutedOnce
PROPERTY EventuallyDone
CHECK_DEADLOCK FALSE
