SPECIFICATION Spec
CONSTANTS
    Publishers = {main, worker}
    MainPublisher = main
    Pages = {p1, p2}
    MaxResets = 2
INVARIANTS
    ReleasedAtReset
    NativeReady
    PendingIsMaintained
PROPERTIES
    ImplementsGate
