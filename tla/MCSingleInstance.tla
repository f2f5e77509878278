--------------------------- MODULE MCSingleInstance ---------------------------
(* SingleInstance with three launches for TLC. *)
EXTENDS SingleInstance

CONSTANTS l1, l2, l3
=============================================================================
