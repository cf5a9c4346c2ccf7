---------------------------- MODULE MCChainCache ----------------------------
(* The node boots with g and a1; b1, b2, b3 are a fork from g.  Height 3 is  *)
(* above what the %seen of do-born covers.                                   *)
EXTENDS ChainCache

CONSTANTS g, a1, b1, b2, b3, r1

MCParentOf ==
    [b \in {a1, b1, b2, b3} |-> CASE b = b3 -> b2 [] b = b2 -> b1 [] OTHER -> g]
MCHeightOf ==
    [b \in {g, a1, b1, b2, b3} |->
        CASE b = g -> 0 [] b = b2 -> 2 [] b = b3 -> 3 [] OTHER -> 1]
=============================================================================
