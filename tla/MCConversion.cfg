SPECIFICATION Spec
CONSTANTS
    Documents <- MCDocuments
    Targets = {"surge", "surfboard", "loon", "qx"}
    MaxHops = 2
INVARIANTS
    HintHarmless
    EveryLineReadBack
    Settles
    RoundTrip
