---------------------------- MODULE MCConsensus ----------------------------
(***************************************************************************)
(* Small block trees for Consensus.  A tree is a set of records, one for   *)
(* each block but the genesis blocks.                                      *)
(***************************************************************************)
EXTENDS Consensus

CONSTANTS Forked, Retargeted

BlockOf(b, parent, height, acc, txs, balance) ==
    [id |-> b, parent |-> parent, height |-> height, work |-> acc,
     txs |-> txs, balance |-> balance]

\* "f1" pays two notes; "a2", "b2" and "c2" spend them and fork the chain,
\* "x2" is invalid, and "y2" has a transaction that is.
ForkedTree ==
    {BlockOf("f1", "g", 1, 2, {}, {"n1", "n2"}),
     BlockOf("a2", "f1", 2, 3, {"t1"}, {"n2"}),
     BlockOf("a3", "a2", 3, 4, {"t2"}, {}),
     BlockOf("a4", "a3", 4, 5, {}, {}),
     BlockOf("b2", "f1", 2, 3, {"t1", "t2"}, {}),
     BlockOf("b3", "b2", 3, 4, {}, {}),
     BlockOf("c2", "f1", 2, 3, {"u1"}, {"n2"}),
     BlockOf("c3", "c2", 3, 4, {}, {"n2"}),
     BlockOf("x2", "f1", 2, 3, {"t1"}, {}),
     BlockOf("y2", "f1", 2, 3, {"t2", "bad"}, {})}

\* The block after "b1" has a lower target than the ones after "a1".
RetargetedTree ==
    {BlockOf("a1", "g", 1, 2, {}, {}),
     BlockOf("a2", "a1", 2, 3, {}, {}),
     BlockOf("a3", "a2", 3, 4, {}, {}),
     BlockOf("a4", "a3", 4, 5, {}, {}),
     BlockOf("a5", "a4", 5, 6, {}, {}),
     BlockOf("b1", "g", 1, 2, {}, {}),
     BlockOf("b2", "b1", 2, 5, {}, {})}

Tree == (IF Forked THEN ForkedTree ELSE {})
            \union (IF Retargeted THEN RetargetedTree ELSE {})
            \union {BlockOf(g, g, 0, 1, {}, {}) : g \in Genesis}
Ids == {r.id : r \in Tree}
RecordOf(b) == CHOOSE r \in Tree : r.id = b

MCParent == [b \in Ids |-> RecordOf(b).parent]
MCHeight == [b \in Ids |-> RecordOf(b).height]
MCWork == [b \in Ids |-> RecordOf(b).work]
MCTxIds == [b \in Ids |-> RecordOf(b).txs]
MCBalance == [b \in Ids |-> RecordOf(b).balance]
MCAncestors[b \in Ids] ==
    [h \in 0..MCHeight[b] |->
        IF h = MCHeight[b] THEN b ELSE MCAncestors[MCParent[b]][h]]
MCInputs == [t \in Tx |-> CASE t = "t1" -> {"n1"}
                            [] t = "t2" -> {"n2"}
                            [] t = "u1" -> {"n1"}
                            [] t = "bad" -> {"n1"}]
=============================================================================
