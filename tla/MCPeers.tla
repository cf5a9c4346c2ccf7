------------------------------- MODULE MCPeers -------------------------------
(* Two connections of one peer and one of another, all from one address;   *)
(* in a behaviour either the swarm is busy or the kernel.                  *)
EXTENDS Peers

CONSTANTS c1, c2, c3, p1, p2, i1, b1, g1

MCPeerOf == [c \in {c1, c2, c3} |-> IF c = c3 THEN p2 ELSE p1]
MCIpOf == [c \in {c1, c2, c3} |-> i1]
MCBudgets ==
    {[conns |-> {c1, c2}, ticks |-> 2, news |-> 0],
     [conns |-> {c1, c3}, ticks |-> 0, news |-> 2]}
=============================================================================
