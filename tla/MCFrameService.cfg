SPECIFICATION Spec
CONSTANTS
    Layout <- MCLayout
    LowMem = 2
    Highest = 8
    RecycleMax = 2
    OwnerTrackMax = 3
    Labels <- MCLabels
    MaxDrops = 2
INVARIANTS
    TypeOK
    PoolIsFreeList
    UsedBracketsHeld
PROPERTIES
    StructuresStayHeld
    ImplementsBroker
