----------------------------- MODULE ForkChoice -----------------------------
(***************************************************************************)
(* What the dumbnet kernel promises of the block tree it commits: accepted *)
(* blocks are valid, are never forgotten and come with their ancestors,    *)
(* and the heaviest block is the heaviest accepted one; of equally heavy   *)
(* blocks the one that was chosen first stays.                             *)
(***************************************************************************)
EXTENDS Integers

CONSTANTS Block, Genesis, Parent, Work, ValidBlock, None

VARIABLES blocks, heaviest

vars == <<blocks, heaviest>>

Init == blocks = {} /\ heaviest = None

Accept(new) ==
    /\ new \subseteq ValidBlock \ blocks
    /\ blocks' = blocks \union new
    /\ \A b \in new \ Genesis : Parent[b] \in blocks'

Choose ==
    /\ heaviest' \in blocks'
    /\ \A b \in blocks' : Work[b] <= Work[heaviest']
    /\ heaviest # None /\ Work[heaviest'] = Work[heaviest]
          => heaviest' = heaviest

\* a poke may make several blocks complete
Next == \E new \in SUBSET Block : Accept(new) /\ Choose

Spec == Init /\ [][Next]_vars
=============================================================================
