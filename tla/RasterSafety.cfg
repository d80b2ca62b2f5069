SPECIFICATION HelperFairSpec
CONSTANTS
    MaxWorkers = 2
    MaxItems = 3
    Chunk = 2
    MaxBatches = 2
INVARIANTS
    TypeOK
    CompleteBatch
    OneBuilder
    NoStraggler
    StopLeavesPoolSound
PROPERTIES
    CallsComplete
CHECK_DEADLOCK FALSE
