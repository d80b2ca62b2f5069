SPECIFICATION Spec
CONSTANTS
    Threads = {main, worker}
    Bitmaps = {b1, b2}
    Budget = 4
    BitmapLimit = 3
    ReducedLimit = 1
    MaxMetadata = 1
    MaxRing = 1
    MaxGeneration = 5
    NoThread = NoThread
INVARIANTS
    TypeOK
    AccountingBalances
SYMMETRY Symmetry
