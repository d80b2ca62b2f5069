SPECIFICATION Spec
CONSTANTS
    Fonts = {f1, f2}
    f1 = f1
    f2 = f2
    MaxToken = 3
    MaxCalls = 2
INVARIANTS
    TypeOK
    SlotOwnership
    SettledMeansDrained
    RollbackAfterWorker
    BarrierVerdict
    DeadWorkerReleasesBarrier
PROPERTIES
    ImplementsService
CHECK_DEADLOCK FALSE
