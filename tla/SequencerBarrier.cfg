CONSTANTS
    ClientCount = 2
    Requests <- MCRequests
    ShardCount = 2
    max_batch_size = 2
    CommandCapacity = 1
    QueueCapacity = 1
    MaxFailures = 1
SPECIFICATION Spec
INVARIANT BatchBarrier
CHECK_DEADLOCK FALSE
