SPECIFICATION Spec
CONSTANTS
    Keys = {"k1", "k2"}
    Workers = {p1, p2}
    Limit = 2
    Window = 2
    TicksPerSecond = 2
    MaxTime = 6
    MaxAsked = 3
SYMMETRY Symmetric
INVARIANTS
    TypeOK
    OpenWindowWithinLimit
    AnyWindowWithinTwiceLimit
PROPERTIES
    ImplementsWindowQuota
    WaitingReadmits
