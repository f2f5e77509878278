--------------------------------- MODULE MCPanes ---------------------------------
(***************************************************************************)
(* The panes beside the grid, checked on two tables of two columns.  The    *)
(* two share nothing but the window, so each behaviour has one of them in   *)
(* it, and the other waits where it began.                                  *)
(***************************************************************************)
EXTENDS ChartPane, InspectorPane, TLC

VARIABLE pane  \* the pane that moves

Symmetry == Permutations(Tables) \cup Permutations(Columns)

Init == TabsInit /\ ChartsInit /\ InspectorInit /\ pane \in {"charts", "inspector"}
        /\ (open => pane = "charts") /\ (shown => pane = "inspector")

Next ==
  \/ /\ pane = "charts" /\ UNCHANGED <<inspector, pane>>
     /\ (TabsNext /\ ChartsSee) \/ ChartsNext
  \/ /\ pane = "inspector" /\ UNCHANGED <<charts, pane>>
     /\ (TabsNext /\ InspectorSees) \/ InspectorNext

Spec == Init /\ [][Next]_<<tabs, charts, inspector, pane>>
=============================================================================
