SPECIFICATION Spec
CONSTANTS
    Max = 2
    CountWords = 64
    MaxLines = 1
    Commands <- TypedCommands
CONSTRAINT
    NoUpset
INVARIANTS
    TypeOK
    WindowsCounted
    NoApplicationUnseen
PROPERTIES
    LinesRead
    LineExecuted
