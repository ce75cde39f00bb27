SPECIFICATION Spec
CONSTANTS
    Batches <- MCBatches
    Capacity = 2
    DelayInitial = 1
    DelayMax = 3
    MaxInflight = 1
    MaxErrors = 3
    MaxDrops = 1
    MaxAcks = 1
INVARIANTS LinkStateExact FatalTellsLastAnswer BackoffExact PublishAccounted
PROPERTY WorkerNeverBlocks
