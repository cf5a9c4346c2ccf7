SPECIFICATION Spec
CONSTANTS
    Forked = TRUE
    Retargeted = FALSE
    Block <- Ids
    Tx = {"t1", "t2", "u1", "bad"}
    Note = {"n1", "n2"}
    Genesis = {"g", "h"}
    Parent <- MCParent
    Height <- MCHeight
    Work <- MCWork
    Ancestors <- MCAncestors
    TxIds <- MCTxIds
    Balance <- MCBalance
    ValidBlock = {"g", "h", "f1", "a2", "a3", "a4", "b2", "b3", "c2", "c3", "y2"}
    Inputs <- MCInputs
    ValidTx = {"t1", "t2", "u1"}
    Retain = 1
    None = None
INVARIANT ReadyBlocksStayPending
