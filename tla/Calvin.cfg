CONSTANTS
    Keys <- MCKeys
    ShardCount = 3
    Owner <- ThreeShardOwner
    Scheduler = "CalvinLocking"
    Batches <- ThreeTx
    InitialStates <- WithA
    MaxBatchLen = 3
    MaxRpcFailures = 0
SPECIFICATION FairSpec
INVARIANTS TypeOK ReadsAreSerial PublishedIsSerial
PROPERTY EventuallyDone
CHECK_DEADLOCK FALSE
