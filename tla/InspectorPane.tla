------------------------------ MODULE InspectorPane ------------------------------
(***************************************************************************)
(* The inspector of a window: InspectorHost and InspectorModel.             *)
(*                                                                         *)
(* One resource profiles the table of the active tab, as it is stored or as *)
(* its grid reads it, and then fetches the small charts of its columns.  It *)
(* starts again when what it read changes, and its old task ends there: so  *)
(* the load ids that its writes present are always the last, and are not    *)
(* here.  A profile is kept per table and epoch: a new epoch is no profile. *)
(***************************************************************************)
EXTENDS PaneTabs

VARIABLES
  shown,   \* whether the pane is: inspector_visible
  mode,    \* InspectorModel::mode, "whole" or "view"
  target,  \* InspectorModel::target_table, or None
  cached,  \* each table's profile of its epoch, [kind, v, n]; or None
  bars,    \* InspectorModel::column_extras: whose each column's is, or None
  seen,    \* each table's re-read count when it was last profiled
  task,    \* the resource's, [t, kind, v, n, left], left None while it profiles; or None
  again,   \* whether it is to start again
  strayed, \* history: tables whose kept profile is of a mode since left
  mixed,   \* history: whether small charts landed in a mode they are not of
  failed   \* history: whether the last load of the target failed

Modes == {"whole", "view"}
Task == [t : Tables, kind : Modes, v : Nat, n : Nat, left : {None} \cup SUBSET Columns]

ASSUME InspectorAssumption == None \notin Task

model == <<mode, target, cached, bars>>
noted == <<strayed, mixed, failed>>
inspector == <<shown, model, seen, task, again, noted>>

\* What the resource read that a step changes.
InspectorFires ==
  \/ shown' # shown \/ active' # active \/ live' # live \/ reread' # reread
  \/ mode = "view" /\ reads' # reads

NoBars == [c \in Columns |-> None]

-----------------------------------------------------------------------------

\* Mutant: a file read again leaves the profile kept.
MutantFresh(t) == cached[t]

\* The profile kept for a table, once its file has been read again: bump_epoch.
Fresh(t) == IF seen[t] # reread[t] THEN None ELSE cached[t]

\* Mutant: the small charts of the table before stay.
MutantBarsOf(t) == bars

\* set_target: another table's small charts go.
BarsOf(t) == IF target = t THEN bars ELSE NoBars

\* The resource, from its start to its first await.
Reprofile ==
  /\ again /\ again' = FALSE
  /\ IF ~shown \/ active = None THEN task' = None /\ UNCHANGED <<model, seen, noted>>
     ELSE /\ seen' = [seen EXCEPT ![active] = reread[active]]
          /\ cached' = [cached EXCEPT ![active] = Fresh(active)]
          /\ target' = active /\ bars' = BarsOf(active) /\ UNCHANGED mode
          /\ strayed' = IF Fresh(active) = None THEN strayed \ {active} ELSE strayed
          /\ mixed' = (mixed /\ target = active) /\ failed' = FALSE
          /\ task' = IF live /\ ~(mode = "whole" /\ Fresh(active) # None)
                     THEN [t |-> active, kind |-> mode, v |-> reads[active], n |-> rows[active],
                           left |-> None]
                     ELSE None
  /\ UNCHANGED <<tabs, shown>>

\* put_profile: of the rows at some time since it was asked for.  Those of the stored
\* table go on to its columns.
Profiled ==
  /\ task # None /\ task.left = None
  /\ \E n \in task.n .. rows[task.t] :
       cached' = [cached EXCEPT ![target] = [kind |-> task.kind, v |-> task.v, n |-> n]]
  /\ task' = IF task.kind = "whole" THEN [task EXCEPT !.left = cols[task.t]] ELSE None
  /\ strayed' = IF task.kind = mode THEN strayed \ {target} ELSE strayed \cup {target}
  /\ UNCHANGED <<tabs, shown, mode, target, bars, seen, again, mixed, failed>>

\* A profile that failed: the pane keeps what it has.
Unprofiled ==
  /\ task # None /\ task.left = None /\ task' = None /\ failed' = TRUE
  /\ UNCHANGED <<tabs, shown, model, seen, again, strayed, mixed>>

\* extras: one column's small chart, which it may not have.
Extra ==
  /\ task # None /\ task.left \notin {None, {}}
  /\ \E c \in task.left :
       /\ task' = IF task.left = {c} THEN None ELSE [task EXCEPT !.left = @ \ {c}]
       /\ \/ /\ bars' = [bars EXCEPT ![c] = task.t]
             /\ mixed' = (mixed \/ mode = "view")
          \/ UNCHANGED <<bars, mixed>>
  /\ UNCHANGED <<tabs, shown, mode, target, cached, seen, again, strayed, failed>>

-----------------------------------------------------------------------------
(* The user. *)

\* The pane is opened or shut.
ToggleInspector ==
  /\ Move /\ shown' = ~shown /\ again' = TRUE
  /\ UNCHANGED <<active, live, sources, files, model, seen, task, noted>>

\* toggle_mode, and InspectorHost::reload: the target's profile goes, and no other's.
ToggleMode ==
  /\ Move /\ shown
  /\ mode' = IF mode = "whole" THEN "view" ELSE "whole"
  /\ bars' = NoBars /\ mixed' = FALSE
  /\ cached' = IF target = None THEN cached ELSE [cached EXCEPT ![target] = None]
  /\ again' = TRUE
  /\ strayed' = {t \in Tables \ {target} : cached[t] # None /\ cached[t].kind # mode'}
  /\ UNCHANGED <<active, live, sources, files, shown, target, seen, task, failed>>

\* What the rest of the window does.
InspectorSees ==
  /\ UNCHANGED <<shown, model, seen, task, noted>>
  /\ again' = (again \/ InspectorFires)

InspectorInit ==
  /\ shown \in BOOLEAN /\ mode = "whole" /\ target = None /\ again = TRUE /\ task = None
  /\ cached = [t \in Tables |-> None] /\ bars = NoBars /\ seen = [t \in Tables |-> 0]
  /\ strayed = {} /\ mixed = FALSE /\ failed = FALSE

InspectorNext ==
  Reprofile \/ Profiled \/ Unprofiled \/ Extra \/ ToggleInspector \/ ToggleMode

InspectorSpec ==
  /\ TabsInit /\ InspectorInit
  /\ [][(TabsNext /\ InspectorSees) \/ InspectorNext]_<<tabs, inspector>>

-----------------------------------------------------------------------------
(* Properties. *)

\* host.rs: whole table mode shows the stored table as its file was last read, and
\* its small charts are the table's own; current view mode shows what the tab's
\* grid reads, and no small charts.  So it is with nothing on its way, whatever
\* came between; unless the kept profile strayed, small charts did, or the file was
\* last read again with nobody told.
AtRest == shown /\ active # None /\ Quiet /\ ~again /\ task = None
ProfileOf(p) ==
  /\ p.kind = mode
  /\ IF mode = "whole" THEN active \in Untold \/ p.n = rows[active] ELSE p.v = reads[active]
Inspected ==
  AtRest =>
    /\ target = active
    /\ cached[active] # None /\ active \notin strayed /\ ~failed => ProfileOf(cached[active])
    /\ \A c \in Columns : bars[c] # None /\ ~mixed => mode = "whole" /\ bars[c] = active
=============================================================================
