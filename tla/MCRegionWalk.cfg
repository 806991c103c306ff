SPECIFICATION Spec
CONSTANTS
    Maps <- MCMaps
    PageSize = 2
    WordSize = 24
    MinimumAddr = 4
    MaxRegions = 2
INVARIANTS
    OnlyUsableFrames
    RefusedOnlyWhenExhausted
PROPERTIES
    FreshOnce
