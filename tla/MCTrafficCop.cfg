SPECIFICATION CopSpec
CONSTANTS
    c1 = c1
    c2 = c2
    c3 = c3
    d1 = d1
    d2 = d2
    k1 = k1
    k2 = k2
    Caller <- MCCaller
    Key <- MCKey
    KeyOf <- MCKeyOf
    Peeker <- MCPeeker
    PeekKey <- MCPeekKey
    None = None
INVARIANTS KeyIsInMap OneTurnPerKey TakenIsHandled
PROPERTIES ImplementsMailbox PokesAreAnswered PeeksAreAnswered
CHECK_DEADLOCK FALSE
