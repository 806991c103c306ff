SPECIFICATION FairSpec
CONSTANTS
    N = 2
    TickWords = 4
    Durations = {1, 3}
    Channels = {}
    Quanta = {1, 2}
    Commands <- WaitCommands
PROPERTIES
    WaitsEnd
    WaitingRuns
