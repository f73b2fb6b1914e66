SPECIFICATION Spec
CONSTANTS
    Peer = {p1, p2}
    MaxSignals = 1
    MaxCalls = 2
CHECK_DEADLOCK FALSE
INVARIANTS
    ServeReturnsLast
    MeshIsWhole
PROPERTIES
    SignalEnds
