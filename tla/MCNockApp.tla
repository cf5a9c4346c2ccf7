----------------------------- MODULE MCNockApp -----------------------------
(* Instances of NockApp for TLC; the .cfg files give the bounds.  Pokes and *)
(* exits are interchangeable, which the safety runs use.                    *)
EXTENDS NockApp, TLC

Symmetry == Permutations(Poke) \union Permutations(ExitCode)
=============================================================================
