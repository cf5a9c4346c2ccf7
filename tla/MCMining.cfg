SPECIFICATION Spec
CONSTANTS
    t1 = t1
    t2 = t2
    Thread = {t1, t2}
    MaxCandidate = 3
    Capacity = 2
PROPERTY CandidateIsMined
CHECK_DEADLOCK FALSE
