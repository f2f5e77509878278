-------------------------------- MODULE ChartPane --------------------------------
(***************************************************************************)
(* The charts pane of a window: ChartHost.                                  *)
(*                                                                         *)
(* Two resources run as tasks that start again when what they read changes: *)
(* one describes the table of the active tab and binds the chart to it, the *)
(* other plots the chart.  Each table's chart is kept for when its tab      *)
(* comes back.  A resource that is to start again does so when its turn     *)
(* comes; until then the old task may still end.                            *)
(***************************************************************************)
EXTENDS PaneTabs

VARIABLES
  open,      \* whether the pane is: charts_visible
  binding,   \* the first resource's value: [t, ok], t None when no tab is open; or None
  describe,  \* its task, the table it describes; or None
  rebind,    \* whether it is to start again
  picks,     \* the columns picked in the chart shown: ChartHost::spec
  boundTo,   \* the table it is of: ChartHost::bound_to
  columns,   \* ChartHost::columns
  kept,      \* ChartHost::kept: each table's picks, or None
  plotted,   \* the second resource's value, [t, picks, v, n], of the file's reading n; or None
  plot,      \* its task: [t, picks, v, n]; or None
  replot,    \* whether it is to start again
  saved,     \* the chart saved in the session: [t, picks]; or None
  reopening, \* the saved chart being looked up; or None
  want,      \* history: the picks last asked for, for each table
  lost       \* history: tables whose picks went for want of their columns' names

Chart == [t : Tables, picks : SUBSET Columns]
Drawn == [t : Tables, picks : SUBSET Columns, v : Nat, n : Nat]

ASSUME ChartsAssumption == None \notin Chart \cup Drawn

chart == <<picks, boundTo, columns, kept>>
told == <<want, lost>>
charts == <<open, binding, describe, rebind, chart, plotted, plot, replot, saved, reopening, told>>

\* Mutant: what the grid reads is looked at, and not followed.
MutantFires == active' # active \/ live' # live \/ open' # open

\* What a step changes that the resources read.
Fires == active' # active \/ live' # live \/ reads' # reads \/ open' # open
Signals ==
  /\ rebind' = (rebind \/ Fires)
  /\ replot' = (replot \/ Fires \/ picks' # picks \/ boundTo' # boundTo)

-----------------------------------------------------------------------------

\* chart_for: the chart it had, less any pick whose column has gone; or none.
ChartFor(had, found) == IF had = None THEN {} ELSE had \cap found

\* Mutant: the chart is kept for the table that comes.
MutantKeep(t) == IF t \notin {None, boundTo} THEN [kept EXCEPT ![t] = picks] ELSE kept

\* The chart of the table that was bound is kept, when another comes or none.
Keep(t) == IF boundTo \notin {None, t} THEN [kept EXCEPT ![boundTo] = picks] ELSE kept

\* The effect that follows the binding.
Bind(t, ok) ==
  LET found == IF t # None /\ ok THEN cols[t] ELSE {}
      had == IF t = None THEN None ELSE IF boundTo = t THEN picks ELSE kept[t]
  IN  /\ binding' = [t |-> t, ok |-> ok]
      /\ kept' = Keep(t)
      /\ picks' = ChartFor(had, found)
      /\ columns' = found /\ boundTo' = t
      /\ IF t = None THEN UNCHANGED told
         ELSE /\ want' = IF ok THEN [want EXCEPT ![t] = @ \cap found] ELSE want
              /\ lost' = IF ~ok /\ want[t] # {} THEN lost \cup {t} ELSE lost

\* The first resource, from its start to its first await: Idle, Nothing, or a
\* description of what the grid of the active tab reads.
Rebind ==
  /\ rebind /\ rebind' = FALSE
  /\ IF open /\ active = None
     THEN Bind(None, TRUE) /\ describe' = None
     ELSE /\ binding' = IF open /\ live THEN binding ELSE None
          /\ describe' = IF open /\ live THEN active ELSE None
          /\ UNCHANGED <<chart, told>>
  /\ replot' = (replot \/ picks' # picks \/ boundTo' # boundTo)
  /\ UNCHANGED <<tabs, open, plotted, plot, saved, reopening>>

\* The description comes, or fails: its view was dropped, or it was interrupted.
Described ==
  /\ describe # None /\ describe' = None
  /\ \E ok \in BOOLEAN : Bind(describe, ok)
  /\ UNCHANGED <<tabs, open, plotted, plot, saved, reopening>>
  /\ Signals

\* The second resource.
Replot ==
  /\ replot /\ replot' = FALSE
  /\ IF open /\ picks # {} /\ boundTo # None /\ live
     THEN plot' = [t |-> boundTo, picks |-> picks, v |-> reads[boundTo],
                   n |-> rows[boundTo]]
          /\ UNCHANGED plotted
     ELSE plot' = None /\ plotted' = None
  /\ UNCHANGED <<tabs, open, binding, describe, rebind, chart, saved, reopening, told>>

\* Its rows come, as they were at some time since, or why there are none.
Plotted ==
  /\ plot # None /\ plot' = None
  /\ \E n \in plot.n .. rows[plot.t] : plotted' = [plot EXCEPT !.n = n]
  /\ UNCHANGED <<tabs, open, binding, describe, rebind, chart, replot, saved, reopening, told>>

-----------------------------------------------------------------------------
(* The user. *)

\* The pane is opened or shut.
Toggle ==
  /\ Move /\ open' = ~open
  /\ UNCHANGED <<active, live, sources, files, binding, describe, chart, plotted, plot, saved,
                 reopening, told>>
  /\ Signals

\* configure: an axis is picked, of the columns the pane has.
Configure(cs) ==
  /\ Move /\ open /\ boundTo # None /\ cs \subseteq columns /\ picks' = cs
  /\ want' = [want EXCEPT ![boundTo] = cs] /\ lost' = lost \ {boundTo}
  /\ UNCHANGED <<active, live, sources, files, open, binding, describe, boundTo, columns, kept,
                 plotted, plot, saved, reopening>>
  /\ Signals

\* save: the chart shown, as it is when the name is asked for.
Save ==
  /\ Move /\ open /\ live /\ boundTo # None /\ saved' = [t |-> boundTo, picks |-> picks]
  /\ UNCHANGED <<active, live, sources, files, open, binding, describe, rebind, chart, plotted,
                 plot, replot, reopening, told>>

\* reopen, up to its wait for the session's tables.
Reopen ==
  /\ Move /\ live /\ saved # None /\ reopening' = saved
  /\ UNCHANGED <<active, live, sources, files, open, binding, describe, rebind, chart, plotted,
                 plot, replot, saved, told>>

\* show: over the table's tab.  Bound already, it is shown now, of the columns the
\* pane knows; otherwise it is kept for the binding to come.
Show ==
  LET t == reopening.t
      now == reopening.picks \cap columns
      due == reopening.picks \cap cols[t]
  IN  /\ reopening # None /\ reopening' = None
      /\ IF boundTo = t THEN picks' = now /\ UNCHANGED kept
         ELSE kept' = [kept EXCEPT ![t] = reopening.picks] /\ UNCHANGED picks
      /\ want' = [want EXCEPT ![t] = IF boundTo = t THEN due ELSE reopening.picks]
      /\ lost' = IF boundTo = t /\ now # due THEN lost \cup {t} ELSE lost \ {t}
      /\ active' = t /\ open' = TRUE
      /\ UNCHANGED <<live, sources, files, moves, binding, describe, boundTo, columns, plotted, plot,
                     saved>>
      /\ Signals

\* What the rest of the window does.
ChartsSee ==
  /\ UNCHANGED <<open, binding, describe, chart, plotted, plot, saved, reopening, told>>
  /\ Signals

ChartsInit ==
  /\ open \in BOOLEAN /\ rebind = TRUE /\ replot = TRUE
  /\ binding = None /\ describe = None /\ plotted = None /\ plot = None
  /\ saved = None /\ boundTo = None /\ reopening = None
  /\ picks = {} /\ columns = {} /\ kept = [t \in Tables |-> None]
  /\ want = [t \in Tables |-> {}] /\ lost = {}

ChartsNext ==
  \/ Rebind \/ Described \/ Replot \/ Plotted
  \/ Toggle \/ \E cs \in SUBSET Columns : Configure(cs)
  \/ Save \/ Reopen \/ Show

ChartsSpec ==
  /\ TabsInit /\ ChartsInit
  /\ [][(TabsNext /\ ChartsSee) \/ ChartsNext]_<<tabs, charts>>

-----------------------------------------------------------------------------
(* Properties. *)

\* The chart a table has, shown or kept.
ChartOf(t) == IF boundTo = t THEN picks ELSE IF kept[t] = None THEN {} ELSE kept[t]

\* host.rs: each table's chart is kept for when its tab comes back, the chart it
\* had, less any pick whose column has gone.  So it is in every order of tab
\* switches, pane openings, saves, refreshes and charts opened again; unless the
\* pane could not have the columns, and took them to have gone.
PicksKept == \A t \in Tables \ lost : ChartOf(t) = want[t]

\* With nothing on its way, the chart is of the active tab, drawn with the picks
\* the pane shows from what the grid reads, as it was last read; unless nobody was
\* told of that, or the view over it could not be made.
ChartsRest == open /\ Quiet /\ ~rebind /\ ~replot /\ describe = None /\ plot = None
DrawnIsAsked ==
  ChartsRest =>
    /\ boundTo = active
    /\ plotted # None =>
         /\ plotted.t = active /\ plotted.picks = picks /\ plotted.v = reads[active]
         /\ active \in unmade \cup Untold \/ plotted.n = rows[active]
    /\ active # None /\ binding.ok /\ active \notin unmade \cup Untold => columns = cols[active]
=============================================================================
