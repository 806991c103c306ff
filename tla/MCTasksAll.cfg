SPECIFICATION Spec
CONSTANTS
    N = 2
    TickWords = 3
    Durations = {1, 2}
    Channels = {1}
    Quanta = {1, 2}
    Commands <- AllCommands
INVARIANTS
    TypeOK
    OneRunning
    WaitsCurrent
    QuantumKept
PROPERTIES
    LastNotBlocked
    RestoresOwn
