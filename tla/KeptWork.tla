------------------------------ MODULE KeptWork ------------------------------
(***************************************************************************)
(* What Save Workspace, recovery and the boot sweep promise about a        *)
(* session's work, whatever they do to the files it is in.  An edit may    *)
(* move from one home to another or be in both.  It leaves them only with  *)
(* a home no window works on, and then because the user discards that home *)
(* or because what is there and nowhere else was never recorded.           *)
(***************************************************************************)
CONSTANTS Edits, Homes

VARIABLES
  held,    \* the edits in each home's database
  noted,   \* those a session file has recorded and the user has not discarded
  working  \* the homes some window works on

vars == <<held, noted, working>>

Init == held = [h \in Homes |-> {}] /\ noted = {} /\ working \in SUBSET Homes

Work == UNION {held[h] : h \in Homes}

\* An edit is committed, or a window records what its home holds.
Commit == /\ \E h \in Homes, e \in Edits : held' = [held EXCEPT ![h] = @ \cup {e}]
          /\ UNCHANGED <<noted, working>>
Note == /\ \E h \in working : noted' \in SUBSET (noted \cup held[h]) /\ noted \subseteq noted'
        /\ UNCHANGED <<held, working>>

\* A save moves files from home to home: every edit is still somewhere.
\* Windows come to work on a home and leave it.
Move == Work' = Work /\ working' \in SUBSET Homes /\ UNCHANGED noted

\* What home h alone holds.
Only(h) == held[h] \ UNION {held[g] : g \in Homes \ {h}}

\* The user discards a home no window works on.
Discard == \E h \in Homes \ working :
  /\ held' = [held EXCEPT ![h] = {}]
  /\ noted' = noted \ Only(h)
  /\ UNCHANGED working

\* The sweep removes one of which nothing was recorded that it alone holds.
Sweep == \E h \in Homes \ working :
  /\ noted \cap Only(h) = {}
  /\ held' = [held EXCEPT ![h] = {}]
  /\ UNCHANGED <<noted, working>>

Next == Commit \/ Note \/ Move \/ Discard \/ Sweep

Spec == Init /\ [][Next]_vars
=============================================================================
