\* The interpreter against ++mink, on 7225 programs.
CONSTANTS
    WordBits = 2
    Programs <- MCPrograms
    MaxSteps = 150
    CancelSteps = {0, 3}
SPECIFICATION NockSpec
CHECK_DEADLOCK FALSE
INVARIANTS
    TypeOK
    ResultIsNock
    HitIsNock
    CacheIsNock
    IdleAgain
