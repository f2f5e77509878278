--------------------------- MODULE MCConsole ---------------------------
(* Console with two runs for TLC. *)
EXTENDS Console, TLC

Symmetry == Permutations(Runs)
=============================================================================
