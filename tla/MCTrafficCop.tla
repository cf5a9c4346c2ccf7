---------------------------- MODULE MCTrafficCop ----------------------------
(* Two peers.  Both poke, one of them through two tasks; one of them peeks *)
(* through two tasks.                                                      *)
EXTENDS TrafficCop

CONSTANTS c1, c2, c3, d1, d2, k1, k2

MCCaller == {c1, c2, c3}
MCPeeker == {d1, d2}
MCKey == {k1, k2}
MCKeyOf == [c \in MCCaller |-> IF c = c3 THEN k2 ELSE k1]
MCPeekKey == [c \in MCPeeker |-> k1]
=============================================================================
