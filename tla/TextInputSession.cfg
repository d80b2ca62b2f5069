SPECIFICATION FairSpec
CONSTANTS
    Capacity = 2
    MaxMessages = 3
    MaxChanges = 2
    MaxTroubles = 1
INVARIANTS
    TypeOK
    TextStaysInField
    NoPhantomComposition
PROPERTIES
    ImeFollowsFields
