SPECIFICATION Spec
CONSTANTS
    Clients = {c1, c2}
    Tokens = {t1, t2}
    Requests <- MCRequests
    BasePath = FALSE
    DefaultSeconds = 2
    MaxTime = 3
    MaxServed = 3
SYMMETRY Symmetric
INVARIANTS
    TypeOK
    UsedWithinCount
    OnlyConversionsCost
PROPERTIES
    RevokedStaysRevoked
