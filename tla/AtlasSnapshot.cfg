SPECIFICATION Spec
CONSTANTS
    NumFonts = 2
    MaxPages = 2
    MaxGeneration = 10
    MaxTroubles = 3
INVARIANTS
    TypeOK
    LoadableIsWhole
    CompleteIsOnDisk
    SessionHeals
CHECK_DEADLOCK FALSE
