SPECIFICATION Spec
CONSTANTS
    Forked = FALSE
    Retargeted = TRUE
    Block <- Ids
    Tx = {"t1", "t2", "u1", "bad"}
    Note = {"n1", "n2"}
    Genesis = {"g"}
    Parent <- MCParent
    Height <- MCHeight
    Work <- MCWork
    Ancestors <- MCAncestors
    TxIds <- MCTxIds
    Balance <- MCBalance
    ValidBlock <- Ids
    Inputs <- MCInputs
    ValidTx = {"t1", "t2", "u1"}
    Retain = 2
    None = None
INVARIANT HeaviestChainIsAccurate
