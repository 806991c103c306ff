SPECIFICATION Spec
CONSTANTS
    Max = 2
    CountWords = 64
    MaxLines = 1
    Commands <- TwoCommands
INVARIANTS
    TakenWhole
