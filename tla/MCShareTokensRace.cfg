SPECIFICATION Spec
CONSTANTS
    Clients = {c1, c2}
    Tokens = {t1}
    Requests <- FileRequests
    BasePath = FALSE
    DefaultSeconds = 2
    MaxTime = 3
    MaxServed = 3
INVARIANTS
    ServedWithinCount
