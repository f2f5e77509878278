--------------------------- MODULE MCSessionHomes ---------------------------
(* SessionHomes on two windows and two edits. *)
EXTENDS SessionHomes, TLC

Symmetry == Permutations(Edits) \cup Permutations(Windows)
=============================================================================
