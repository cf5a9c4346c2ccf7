SPECIFICATION Spec
CONSTANTS
    Poke = {p1, p2}
    Peek = {}
    ExitCode = {c1, c2}
    Checkpointing = {TRUE, FALSE}
    SaveInterval = TRUE
    MaxStart = 2
    MaxIoError = 1
    NoExit = NoExit
    Absent = Absent
    Torn = Torn
    NoCheckpoint = NoCheckpoint
    Down = Down
    MaxEvent = 2
SYMMETRY Symmetry
INVARIANTS TypeOK AnswersAreTrue CleanExitIsDurable StopOnce
PROPERTY ImplementsSaver
CHECK_DEADLOCK FALSE
