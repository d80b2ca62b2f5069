SPECIFICATION Spec
CONSTANTS
    Publishers = {main, worker}
    MainPublisher = main
    Pages = {p1}
    MaxResets = 2
INVARIANTS
    WrappersOwnTextures
