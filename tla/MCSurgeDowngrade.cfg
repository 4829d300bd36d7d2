SPECIFICATION Spec
CONSTANTS
    Documents <- MCDocuments
    Targets = {"surge"}
    MaxHops = 1
INVARIANT
    NoSilentDowngrade
