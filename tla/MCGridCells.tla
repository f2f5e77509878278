--------------------------- MODULE MCGridCells ---------------------------
(* GridCells with two tables for TLC. *)
EXTENDS GridCells, TLC

Symmetry == Permutations(Tables)
=============================================================================
