SPECIFICATION Spec
CONSTANTS
    g = g
    a1 = a1
    b1 = b1
    b2 = b2
    b3 = b3
    Block = {g, a1, b1, b2, b3}
    Boot = a1
    ParentOf <- MCParentOf
    HeightOf <- MCHeightOf
    Lacking = {b1}
    Retain = 1
    Request = {r1}
    Asked = {1, b1}
    r1 = r1
    None = None
INVARIANTS CachedIsCurrent
PROPERTY EveryHeightIsServed
CHECK_DEADLOCK FALSE
