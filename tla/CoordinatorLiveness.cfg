SPECIFICATION Spec
CONSTANTS
    Fonts = {f1}
    f1 = f1
    MaxToken = 2
    MaxCalls = 1
PROPERTIES
    BarrierEnds
    WorkerReleased
CHECK_DEADLOCK FALSE
