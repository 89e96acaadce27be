CONSTANTS
    Keys <- MCKeys
    ShardCount = 3
    Owner <- ThreeShardOwner
    Scheduler = "CalvinLocking"
    Batches <- TwoTx
    InitialStates <- WithA
    MaxBatchLen = 3
    MaxRpcFailures = 1
SPECIFICATION Spec
INVARIANTS CompletedIsSerial OutcomesAgree ReleaseFindsFront NoLateReadResult DoneIsPublished
PROPERTY WritesUnderLock
CHECK_DEADLOCK FALSE
