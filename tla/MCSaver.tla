------------------------------ MODULE MCSaver ------------------------------
(* A Saver with two kernel states, so that two checkpoints with the same   *)
(* event number can be told apart, and two waiters.                        *)
EXTENDS Saver
=============================================================================
