--------------------------- MODULE MCTableViews ---------------------------
(* TableViews with two tables for TLC. *)
EXTENDS TableViews, TLC

Symmetry == Permutations(Tables)
=============================================================================
