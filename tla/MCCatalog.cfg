SPECIFICATION CatSpec
CONSTANTS
    PosBound = 6
    Handlers = {h1, h2}
    Sched = sched
    Names <- MCNames
    TrimSpace <- MCTrimSpace
    Slashed = {}
    Urls = {"u"}
    UAs = {}
    Absent = absent
    CreateBodies <- MCCreateBodies
    PatchBodies <- MCPatchBodies
    MaxRequests = 3
    ColHandlers = {k1}
    ColNames <- MCColNames
    ColTrimSpace <- MCColTrimSpace
    ColSlashed <- MCColSlashed
    SubNames <- MCSubNames
    NotSent = notSent
    ColCreateBodies <- MCColCreateBodies
    ColPatchBodies <- MCColPatchBodies
    MaxColRequests = 3
SYMMETRY HandlerSymmetry
PROPERTIES
    RenameMovesReferences
    DeleteDropsReferences
    SubTxKeepsCollections
