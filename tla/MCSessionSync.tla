--------------------------- MODULE MCSessionSync ---------------------------
(* SessionSync for TLC, with a session of two tabs opened again, two files, *)
(* and the first tab's file once more.                                      *)
EXTENDS SessionSync

CONSTANTS r1, r2, f1, f2

TwoTabs == <<r1, r2>>
Tables == [t \in {r1, r2} \cup Files |-> IF t = f2 THEN r1 ELSE t]
=============================================================================
