SPECIFICATION FairSpec
CONSTANTS
    Poke = {p1}
    Peek = {k1}
    ExitCode = {c1}
    Checkpointing = {TRUE, FALSE}
    SaveInterval = TRUE
    MaxStart = 1
    MaxIoError = 1
    NoExit = NoExit
    Absent = Absent
    Torn = Torn
    NoCheckpoint = NoCheckpoint
    Down = Down
    MaxEvent = 2
PROPERTIES ExitCompletes RequestsAreAnswered
CHECK_DEADLOCK FALSE
