SPECIFICATION Spec
CONSTANTS
    Layout <- ElevenFrames
    LowMem = 2
    Highest = 13
    RecycleMax = 3
    OwnerTrackMax = 12
    LastWord = 7
    Slots = {1, 2}
    IdIndex <- AllLow
    Images <- NoImages
    TrackMax = 3
    AreaMax = 2
    Commands <- Everyday
INVARIANTS
    TypeOK
    FramesPrivate
    StructuresProtected
    LostFramesCounted
    TaskPagesTracked
    ReadyMapped
PROPERTIES
    OthersUndisturbed
