SPECIFICATION Spec
CONSTANTS
    Minute = 2
    LastMinute <- MCLastMinute
    Calendar <- MCCalendar
    FieldBounds <- MCFieldBounds
    Horizon = 100
    Names = {n1, n2}
    Exprs <- MCExprs
    None = none
    Never = never
    MaxTime = 7
    MaxEvents = 2
INVARIANTS
    TypeOK
PROPERTIES
    NewFiringEachTime
    NothingLeftDue
    PassesEnd
CHECK_DEADLOCK FALSE
