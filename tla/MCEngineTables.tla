--------------------------- MODULE MCEngineTables ---------------------------
(* EngineTables with two files and two operations for TLC. *)
EXTENDS EngineTables, TLC

Symmetry == Permutations(Files) \cup Permutations(Ops)
=============================================================================
