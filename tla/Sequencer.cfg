CONSTANTS
    ClientCount = 3
    Requests <- MCRequests
    ShardCount = 2
    max_batch_size = 2
    CommandCapacity = 2
    QueueCapacity = 1
    MaxFailures = 2
SPECIFICATION FairSpec
INVARIANTS TypeOK PipelineInOrder LogIsExecuted FlushSealsItsBatch BarrierWithoutFailures
PROPERTIES EveryRequestAnswered AckedIsLogged
CHECK_DEADLOCK FALSE
