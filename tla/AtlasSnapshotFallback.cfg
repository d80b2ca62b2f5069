SPECIFICATION Spec
CONSTANTS
    NumFonts = 2
    MaxPages = 2
    MaxGeneration = 10
    MaxTroubles = 1
INVARIANTS
    ResetReusesSnapshot
CHECK_DEADLOCK FALSE
