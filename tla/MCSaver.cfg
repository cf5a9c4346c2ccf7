SPECIFICATION Spec
CONSTANTS
    KernelState = {s1, s2}
    InitialState = s1
    Waiter = {w1, w2}
    MaxEvent = 3
    Absent = Absent
    Torn = Torn
    NoCheckpoint = NoCheckpoint
    Down = Down
INVARIANTS TypeOK WokenIsDurable NewestIsKept
PROPERTY ImplementsDurable
CHECK_DEADLOCK FALSE
