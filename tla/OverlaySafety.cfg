SPECIFICATION ConsumerFairSpec
CONSTANTS
    Full = 2
    MaxSequence = 3
    Roots = {r1, r2}
    r1 = r1
    r2 = r2
    NoRoot = NoRoot
INVARIANTS
    ClaimReleased
    ScreenFollowsMailbox
PROPERTIES
    ReclaimedTreeUntouched
    OverlayLeaves
CHECK_DEADLOCK FALSE
