SPECIFICATION Spec
CONSTANTS
    docs = docs
    note = note
    Names = {docs, note}
    MaxSlot = 2
    MaxInode = 3
    MaxSector = 3
    Paths <- AllPaths
    Writes <- Written
    DirPaths <- MadePaths
    FdPaths <- OpenedPaths
    FdSizes = {1}
    MaxOffset = 2
    MaxFaults = 1
CONSTRAINT DescriptorsOnFlatVolumes
CHECK_DEADLOCK FALSE
INVARIANTS
    TypeOK
    SuccessDurable
    UncleanFlagged
PROPERTIES
    SoundKept
    OthersSurvive
