SPECIFICATION Spec
CONSTANTS
    PosBound = 4
    Handlers = {h1, h2}
    Sched = sched
    Names <- MCNames
    TrimSpace <- MCTrimSpace
    Slashed <- MCSlashed
    Urls = {"u", "v"}
    UAs = {"x"}
    Absent = absent
    CreateBodies <- MCCreateBodies
    PatchBodies <- MCPatchBodies
    MaxRequests = 3
SYMMETRY HandlerSymmetry
INVARIANTS
    TypeOK
    SubsWellFormed
    ServesOwnLink
    KeyMatchesRecord
PROPERTIES
    ListOrderStable
    RowsLeaveOnlyByDelete
