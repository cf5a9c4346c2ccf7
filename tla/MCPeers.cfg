SPECIFICATION Spec
CONSTANTS
    c1 = c1
    c2 = c2
    c3 = c3
    p1 = p1
    p2 = p2
    i1 = i1
    b1 = b1
    g1 = g1
    Conn = {c1, c2, c3}
    Peer = {p1, p2}
    Ip = {i1}
    PeerOf <- MCPeerOf
    IpOf <- MCIpOf
    Listener = {c2, c3}
    Block = {b1, g1}
    Bad = {b1}
    Capacity = 1
    FailedPings = 1
    PruneSize = 1
    Budgets <- MCBudgets
    None = None
INVARIANTS TrackerAgrees ConnectionsAgree 
PROPERTY StuckOnlyWhenFull
CHECK_DEADLOCK FALSE
