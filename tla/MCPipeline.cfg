SPECIFICATION Spec
CONSTANTS
    Catalogs <- MCCatalogs
    Requests <- MCRequests
    MaxDepth = 5
    MaxEdits = 1
INVARIANT AnswersMatchReference
PROPERTIES
    ConversionsEnd
    OperatorContracts
