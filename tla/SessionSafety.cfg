SPECIFICATION PumpFairSpec
CONSTANTS
    Fonts <- MCFonts
    Profile <- MCProfile
    Owner <- MCOwner
    Units = 2
    MaxMemory = 2
    MaxGenerations = 1
    MaxTransactions = 2
    MaxDeferrals = 2
    NoFont = NoFont
INVARIANTS
    TypeOK
    JobConservation
    OwnersFirst
    CompletionIsComplete
    ResourcesReleased
PROPERTIES
    PumpTerminates
CHECK_DEADLOCK FALSE
