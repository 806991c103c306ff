SPECIFICATION Spec
CONSTANTS
    Layout <- TenFrames
    LowMem = 2
    Highest = 12
    RecycleMax = 2
    OwnerTrackMax = 10
    LastWord = 7
    Slots = {1, 2}
    IdIndex <- TwoHigh
    Images <- TestImages
    TrackMax = 2
    AreaMax = 1
    Commands <- Loading
INVARIANTS
    FramesPrivate
    StructuresProtected
CHECK_DEADLOCK FALSE
