SPECIFICATION Spec
CONSTANTS
    Index = Index
    NoDocs <- MCNoDocs
    Legacy <- MCLegacy
    MaxCrashes = 2
    MaxFaults = 1
    PosBound = 4
    Requests = {p1, p2}
    Keys = {"k", "l"}
    Values = {"v"}
    Unset = Unset
    SettingsBodies <- MCSettingsBodies
    FileNames = {"a", "b", "c"}
    FileTrimSpace <- MCTrimSpace
    FileNotSent = FileNotSent
    FileCreateBodies <- MCFileCreateBodies
    FilePatchBodies <- MCFilePatchBodies
    MaxRequests = 2
INVARIANTS
    DocTypeOK
    TokensSurviveRestarts
    VersionImpliesSchema
    CommittedDataServed
    AcknowledgedSettingsKept
PROPERTIES
    FilesKeepOrder
    EventuallyServes
