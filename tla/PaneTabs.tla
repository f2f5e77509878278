-------------------------------- MODULE PaneTabs --------------------------------
(***************************************************************************)
(* What the panes beside a window's grid read: the active tab, whether the  *)
(* window has its session, what each tab's grid reads, and how often its    *)
(* file has been read again.                                                *)
(*                                                                         *)
(* How a view is made, superseded and bound is TableViews; here a change    *)
(* ends or fails, some time after it was asked for.                         *)
(***************************************************************************)
EXTENDS Naturals, FiniteSets

CONSTANTS
  Tables,    \* the tables the window opens tabs of
  Columns,   \* the columns they may have
  MaxMoves,  \* bound: what the user does
  None       \* no table, no task, no value

ASSUME TabsAssumption ==
  MaxMoves \in Nat /\ None \notin Tables \cup Columns /\ \A cs \in SUBSET Columns : cs # None

VARIABLES
  active,    \* the active tab's table, or None
  live,      \* whether the window has its session
  reads,     \* what each tab's grid reads: the number of its view, 0 the table
  made,      \* views made so far
  models,    \* tables with a ViewModel
  changing,  \* tables whose view is being made
  unmade,    \* history: tables whose last change failed
  cols,      \* the columns each table has
  rows,      \* how many times each table's file has been read again
  reread,    \* how many times its tab has been told of one
  owed,      \* how many times it is still to be told
  known,     \* history: how often it had been read when the tab was last told
  moves      \* the user's moves so far

sources == <<reads, made, models, changing, unmade>>
files == <<cols, rows, reread, owed, known>>
tabs == <<active, live, sources, files, moves>>

Move == moves < MaxMoves /\ moves' = moves + 1

\* Nothing is on its way to the panes.
Quiet == live /\ changing = {} /\ \A t \in Tables : owed[t] = 0

\* Tables that have been read again with nobody told.
Untold == {t \in Tables : known[t] # rows[t]}

-----------------------------------------------------------------------------

\* Workspace::active_tab becomes another's.
Switch(t) ==
  /\ Move /\ t # active /\ active' = t
  /\ UNCHANGED <<live, sources, files>>

\* The last tab is closed, and its view forgotten.
Close ==
  /\ Move /\ active # None /\ active' = None
  /\ reads' = [reads EXCEPT ![active] = 0]
  /\ models' = models \ {active}
  /\ UNCHANGED <<live, made, changing, unmade, files>>

\* A filter, an edit, an undo: Views::change_on.
Changed(t) == models' = models \cup {t} /\ changing' = changing \cup {t}

Change ==
  /\ Move /\ live /\ active # None /\ Changed(active)
  /\ UNCHANGED <<active, live, reads, made, unmade, files>>

\* The view is there: it is bound, if its tab's model is.
Bound(t) ==
  /\ t \in changing /\ changing' = changing \ {t}
  /\ made' = made + 1
  /\ reads' = IF t \in models THEN [reads EXCEPT ![t] = made + 1] ELSE reads
  /\ unmade' = unmade \ {t}
  /\ UNCHANGED <<active, live, models, files, moves>>

\* Or it failed, and the grid keeps what it has.
NotBound(t) ==
  /\ t \in changing /\ changing' = changing \ {t} /\ unmade' = unmade \cup {t}
  /\ UNCHANGED <<active, live, reads, made, models, files, moves>>

\* The file has been read again, and its columns may be others.  A Live Refresh
\* that succeeds ends in a replay; one that fails late, or is told that the table is
\* another, does not, and nor does a drop of the same file.
Reimport(t) ==
  /\ Move /\ live
  /\ \E cs \in SUBSET Columns \ {{}} : cols' = [cols EXCEPT ![t] = cs]
  /\ rows' = [rows EXCEPT ![t] = @ + 1]
  /\ owed' = [owed EXCEPT ![t] = @ + 1] \/ UNCHANGED owed
  /\ UNCHANGED <<active, live, sources, reread, known>>

\* Views::replay, at its end.
Replay(t) ==
  /\ owed[t] > 0 /\ owed' = [owed EXCEPT ![t] = @ - 1]
  /\ reread' = [reread EXCEPT ![t] = @ + 1] /\ known' = [known EXCEPT ![t] = rows[t]]
  /\ IF live THEN Changed(t) /\ UNCHANGED unmade
     ELSE unmade' = unmade \cup {t} /\ UNCHANGED <<models, changing>>
  /\ UNCHANGED <<active, live, reads, made, cols, rows, moves>>

\* use_follow_session: a save takes the session, and brings it back.
Lapse ==
  /\ Move /\ live /\ live' = FALSE
  /\ reads' = [t \in Tables |-> 0]
  /\ UNCHANGED <<active, made, models, changing, unmade, files>>

Landed ==
  /\ ~live /\ live' = TRUE
  /\ changing' = changing \cup models
  /\ UNCHANGED <<active, reads, made, models, unmade, files, moves>>

TabsInit ==
  /\ active \in Tables /\ live = TRUE /\ made = 0 /\ models = {} /\ changing = {} /\ unmade = {}
  /\ reads = [t \in Tables |-> 0] /\ cols = [t \in Tables |-> Columns]
  /\ rows = [t \in Tables |-> 0] /\ reread = rows /\ owed = rows /\ known = rows /\ moves = 0

TabsNext ==
  \/ \E t \in Tables : Switch(t) \/ Bound(t) \/ NotBound(t) \/ Reimport(t) \/ Replay(t)
  \/ Close \/ Change \/ Lapse \/ Landed
=============================================================================
