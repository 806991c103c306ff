SPECIFICATION Spec
CONSTANTS
    N = 2
    TickWords = 2
    Durations = {1}
    Channels = {}
    Quanta = {1}
    Commands <- FaultCommands
PROPERTIES
    FaultIsolated
