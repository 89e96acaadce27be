CONSTANTS
    ClientCount = 4
    Requests <- OnlySubmitTx
    ShardCount = 2
    max_batch_size = 1
    CommandCapacity = 1
    QueueCapacity = 1
    MaxFailures = 0
SPECIFICATION SequencerFairSpec
PROPERTY SubmitTxDoesNotWait
CHECK_DEADLOCK FALSE
