------------------------------- MODULE PanesProofs -------------------------------
(***************************************************************************)
(* The panes beside the grid, proved for any number of tables, columns and  *)
(* moves: the charts pane keeps every table's picks, and the inspector at   *)
(* rest shows the active tab.                                               *)
(***************************************************************************)
EXTENDS ChartPane, InspectorPane, TLAPS

Profile == [kind : Modes, v : Nat, n : Nat]

TabsOK ==
  /\ active \in Tables \cup {None} /\ live \in BOOLEAN /\ made \in Nat
  /\ reads \in [Tables -> Nat] /\ rows \in [Tables -> Nat] /\ reread \in [Tables -> Nat]
  /\ known \in [Tables -> Nat]
  /\ cols \in [Tables -> SUBSET Columns]
  /\ \A t \in Tables : known[t] <= rows[t] /\ reads[t] <= made

InspectorOK ==
  /\ shown \in BOOLEAN /\ mode \in Modes /\ target \in Tables \cup {None}
  /\ again \in BOOLEAN /\ mixed \in BOOLEAN /\ failed \in BOOLEAN
  /\ cached \in [Tables -> {None} \cup Profile]
  /\ bars \in [Columns -> Tables \cup {None}]
  /\ seen \in [Tables -> Nat]
  /\ task \in {None} \cup Task
  /\ strayed \subseteq Tables

\* A profile of the stored table is of the last reading its tab was told of or a later
\* one, and the one under way will be; unless that has been seen to come.
Recent(t, n) == n <= rows[t] /\ (seen[t] = reread[t] => known[t] <= n)
Fresher ==
  /\ \A t \in Tables : seen[t] <= reread[t]
  /\ \A t \in Tables : cached[t] # None /\ cached[t].kind = "whole" => Recent(t, cached[t].n)
  /\ task # None => target = task.t /\ Recent(task.t, task.n)

\* What is kept is of the mode, or strayed.
OfMode == \A t \in Tables \ strayed : cached[t] # None => cached[t].kind = mode

\* Small charts are the target's, and the stored table's.
BarsHere ==
  /\ \A c \in Columns : bars[c] # None => bars[c] = target /\ (mixed \/ mode = "whole")
  /\ task # None /\ task.left # None => task.kind = "whole"

\* With no restart due, the pane is on the active tab, and so is its task.
Watching == ~again /\ shown /\ active # None
Followed ==
  Watching =>
    /\ target = active /\ seen[active] = reread[active]
    /\ task # None => task.kind = mode /\ (mode = "view" => task.v = reads[active])
    /\ mode = "view" /\ live /\ ~failed /\ task = None /\ cached[active] # None =>
         cached[active].kind = "whole" \/ cached[active].v = reads[active]

IInv == TabsOK /\ InspectorOK /\ Fresher /\ OfMode /\ BarsHere /\ Followed

-----------------------------------------------------------------------------
(* The inspector. *)

LEMMA InspectorStarts == TabsInit /\ InspectorInit => IInv
<1> SUFFICES ASSUME TabsInit, InspectorInit PROVE IInv
  OBVIOUS
<1>1. TabsOK
  BY DEF TabsInit, TabsOK
<1>2. InspectorOK
  BY DEF InspectorInit, InspectorOK, Modes, NoBars
<1>3. Fresher /\ OfMode
  BY DEF TabsInit, InspectorInit, Fresher, Recent, OfMode
<1>4. BarsHere
  BY DEF InspectorInit, BarsHere, NoBars
<1>5. Followed
  BY DEF InspectorInit, Followed, Watching
<1>6. QED
  BY <1>1, <1>2, <1>3, <1>4, <1>5 DEF IInv

\* Readings are counted up, and no tab is told of one its file has not had.
Onward ==
  /\ TabsOK'
  /\ \A t \in Tables : rows[t] <= rows'[t] /\ reread[t] <= reread'[t]
  /\ \A t \in Tables : reread'[t] = reread[t] => known'[t] = known[t]

LEMMA TabsOnward == TabsOK /\ TabsNext => Onward
<1> SUFFICES ASSUME TabsOK, TabsNext PROVE Onward
  OBVIOUS
<1>1. ASSUME NEW t \in Tables, Switch(t) PROVE Onward
  BY <1>1 DEF Switch, TabsOK, Onward, sources, files
<1>2. ASSUME NEW t \in Tables, Bound(t) PROVE Onward
  BY <1>2 DEF Bound, TabsOK, Onward, files
<1>3. ASSUME NEW t \in Tables, NotBound(t) PROVE Onward
  BY <1>3 DEF NotBound, TabsOK, Onward, files
<1>4. ASSUME NEW t \in Tables, Reimport(t) PROVE Onward
  <2>1. PICK cs \in SUBSET Columns : cols' = [cols EXCEPT ![t] = cs]
    BY <1>4 DEF Reimport
  <2>2. /\ rows' = [rows EXCEPT ![t] = @ + 1]
        /\ UNCHANGED <<active, live, reads, made, reread, known>>
    BY <1>4 DEF Reimport, sources
  <2>3. \A u \in Tables : rows[u] <= rows'[u] /\ reread[u] <= reread'[u] /\ known'[u] <= rows'[u]
    BY <2>2 DEF TabsOK
  <2>4. rows' \in [Tables -> Nat] /\ cols' \in [Tables -> SUBSET Columns]
    BY <2>1, <2>2 DEF TabsOK
  <2>5. QED
    BY <2>2, <2>3, <2>4 DEF TabsOK, Onward
<1>5. ASSUME NEW t \in Tables, Replay(t) PROVE Onward
  BY <1>5 DEF Replay, TabsOK, Onward
<1>6. CASE Close
  BY <1>6 DEF Close, TabsOK, Onward, files
<1>7. CASE Change
  BY <1>7 DEF Change, TabsOK, Onward, files
<1>8. CASE Lapse
  <2>1. UNCHANGED <<active, made, cols, rows, reread, known>> /\ live' \in BOOLEAN
    BY <1>8 DEF Lapse, files
  <2>2. reads' \in [Tables -> Nat] /\ \A t \in Tables : reads'[t] <= made
    BY <1>8 DEF Lapse, TabsOK
  <2>3. QED
    BY <2>1, <2>2 DEF TabsOK, Onward
<1>9. CASE Landed
  BY <1>9 DEF Landed, TabsOK, Onward, files
<1>10. QED
  BY <1>1, <1>2, <1>3, <1>4, <1>5, <1>6, <1>7, <1>8, <1>9 DEF TabsNext

LEMMA SeesKeeps == IInv /\ TabsNext /\ InspectorSees => IInv'
<1> SUFFICES ASSUME IInv, TabsNext, InspectorSees PROVE IInv'
  OBVIOUS
<1>1. Onward
  BY TabsOnward DEF IInv
<1>2. UNCHANGED <<shown, mode, target, cached, bars, seen, task, strayed, mixed, failed>>
  BY DEF InspectorSees, model, noted
<1>3. again' = (again \/ InspectorFires)
  BY DEF InspectorSees
<1>4. InspectorOK'
  BY <1>2, <1>3 DEF IInv, InspectorOK, InspectorFires, TabsOK
<1>5. Fresher'
  BY <1>1, <1>2 DEF IInv, Fresher, Recent, Onward, TabsOK, InspectorOK, Profile, Task
<1>6. OfMode' /\ BarsHere'
  BY <1>2 DEF IInv, OfMode, BarsHere
<1>7. Followed'
  <2>1. SUFFICES ASSUME Watching'
        PROVE  /\ Watching /\ UNCHANGED <<active, live, reread>>
               /\ mode = "view" => reads' = reads
    BY <1>2, <2>1 DEF IInv, Followed
  <2>2. ~again /\ ~InspectorFires
    BY <1>3, <2>1 DEF Watching
  <2>3. QED
    BY <1>2, <2>1, <2>2 DEF Watching, InspectorFires
<1>8. QED
  BY <1>1, <1>4, <1>5, <1>6, <1>7 DEF IInv, Onward

LEMMA ReprofileKeeps == IInv /\ Reprofile => IInv'
<1> SUFFICES ASSUME IInv, Reprofile PROVE IInv'
  OBVIOUS
<1>1. UNCHANGED <<active, live, reads, made, cols, rows, reread, known, shown>> /\ again' = FALSE
  BY DEF Reprofile, tabs, sources, files
<1>2. TabsOK'
  BY <1>1 DEF IInv, TabsOK
<1>3. CASE ~shown \/ active = None
  <2>1. task' = None /\ UNCHANGED <<mode, target, cached, bars, seen, strayed, mixed, failed>>
    BY <1>3 DEF Reprofile, model, noted
  <2>2. QED
    BY <1>1, <1>2, <1>3, <2>1
    DEF IInv, InspectorOK, Fresher, Recent, OfMode, BarsHere, Followed, Watching
<1>4. CASE shown /\ active # None
  <2>1. /\ seen' = [seen EXCEPT ![active] = reread[active]]
        /\ cached' = [cached EXCEPT ![active] = Fresh(active)]
        /\ target' = active /\ bars' = BarsOf(active) /\ mode' = mode
        /\ strayed' = IF Fresh(active) = None THEN strayed \ {active} ELSE strayed
        /\ mixed' = (mixed /\ target = active) /\ failed' = FALSE
        /\ task' = IF live /\ ~(mode = "whole" /\ Fresh(active) # None)
                   THEN [t |-> active, kind |-> mode, v |-> reads[active], n |-> rows[active],
                         left |-> None]
                   ELSE None
    BY <1>4 DEF Reprofile
  <2>2. active \in Tables /\ Fresh(active) \in {None, cached[active]}
    BY <1>4 DEF IInv, TabsOK, Fresh
  <2>3. Fresh(active) # None => seen[active] = reread[active]
    BY DEF Fresh
  <2>4. InspectorOK'
    <3>1. BarsOf(active) \in [Columns -> Tables \cup {None}]
      BY DEF BarsOf, NoBars, IInv, InspectorOK
    <3>2. task' \in {None} \cup Task
      BY <2>1, <2>2 DEF IInv, TabsOK, InspectorOK, Task
    <3>3. QED
      BY <1>1, <2>1, <2>2, <3>1, <3>2 DEF IInv, TabsOK, InspectorOK
  <2>5. Fresher'
    BY <1>1, <2>1, <2>2, <2>3 DEF IInv, TabsOK, InspectorOK, Fresher, Recent, Profile
  <2>6. OfMode'
    BY <2>1, <2>2 DEF IInv, OfMode, InspectorOK
  <2>7. BarsHere'
    BY <2>1, TabsAssumption DEF IInv, BarsHere, BarsOf, NoBars
  <2>8. Followed'
    <3>1. target' = active' /\ seen'[active'] = reread'[active']
      BY <1>1, <2>1, <2>2 DEF IInv, InspectorOK
    <3>2. task' # None => task'.kind = mode' /\ task'.v = reads'[active']
      BY <1>1, <2>1
    <3>3. mode = "view" /\ live => task' = [t |-> active, kind |-> mode, v |-> reads[active],
                                           n |-> rows[active], left |-> None]
      BY <2>1
    <3>4. mode = "view" /\ live => task' # None
      BY <3>3, <2>2, InspectorAssumption DEF IInv, TabsOK, InspectorOK, Task, Modes
    <3>5. QED
      BY <1>1, <2>1, <3>1, <3>2, <3>4 DEF Followed
  <2>9. QED
    BY <1>2, <2>4, <2>5, <2>6, <2>7, <2>8 DEF IInv
<1>5. QED
  BY <1>3, <1>4

LEMMA ProfiledKeeps == IInv /\ Profiled => IInv'
<1> SUFFICES ASSUME IInv, Profiled PROVE IInv'
  OBVIOUS
<1>1. /\ UNCHANGED <<active, live, reads, made, cols, rows, reread, known, shown>>
      /\ UNCHANGED <<mode, target, bars, seen, again, mixed, failed>>
  BY DEF Profiled, tabs, sources, files
<1>2. task \in Task /\ target = task.t /\ target \in Tables
  BY DEF Profiled, IInv, InspectorOK, Fresher, Recent, Task
<1>3. PICK n \in task.n .. rows[task.t] :
        cached' = [cached EXCEPT ![target] = [kind |-> task.kind, v |-> task.v, n |-> n]]
  BY DEF Profiled
<1>4. /\ task' = IF task.kind = "whole" THEN [task EXCEPT !.left = cols[task.t]] ELSE None
      /\ strayed' = IF task.kind = mode THEN strayed \ {target} ELSE strayed \cup {target}
  BY DEF Profiled
<1>5. n \in Nat /\ task.n <= n /\ n <= rows[task.t]
  BY <1>2, <1>3 DEF IInv, TabsOK, Task
<1>6. TabsOK'
  BY <1>1 DEF IInv, TabsOK
<1>7. InspectorOK'
  <2>1. task' \in {None} \cup Task
    BY <1>2, <1>4 DEF IInv, TabsOK, Task
  <2>2. [kind |-> task.kind, v |-> task.v, n |-> n] \in Profile
    BY <1>2, <1>5 DEF Task, Profile
  <2>3. QED
    BY <1>1, <1>2, <1>3, <1>4, <2>1, <2>2 DEF IInv, InspectorOK
<1>8. Fresher'
  <2>1. task' # None => task'.t = task.t /\ task'.n = task.n
    BY <1>2, <1>4 DEF Task
  <2>2. QED
    BY <1>1, <1>2, <1>3, <1>5, <2>1 DEF IInv, TabsOK, InspectorOK, Fresher, Recent, Task, Profiled
<1>9. OfMode'
  BY <1>1, <1>2, <1>3, <1>4 DEF IInv, OfMode, InspectorOK
<1>10. BarsHere'
  BY <1>1, <1>2, <1>4 DEF IInv, BarsHere, Task
<1>11. Followed'
  BY <1>1, <1>2, <1>3, <1>4 DEF IInv, Followed, Watching, InspectorOK, Task, Profiled
<1>12. QED
  BY <1>6, <1>7, <1>8, <1>9, <1>10, <1>11 DEF IInv

LEMMA UnprofiledKeeps == IInv /\ Unprofiled => IInv'
BY DEF Unprofiled, IInv, TabsOK, InspectorOK, Fresher, Recent, OfMode, BarsHere, Followed, Watching,
       tabs, sources, files, model

LEMMA ExtraKeeps == IInv /\ Extra => IInv'
<1> SUFFICES ASSUME IInv, Extra PROVE IInv'
  OBVIOUS
<1>1. /\ UNCHANGED <<active, live, reads, made, cols, rows, reread, known, shown>>
      /\ UNCHANGED <<mode, target, cached, seen, again, strayed, failed>>
  BY DEF Extra, tabs, sources, files
<1>2. task \in Task /\ task # None /\ task.left # None /\ target = task.t /\ task.kind = "whole"
  BY DEF Extra, IInv, InspectorOK, Fresher, Recent, BarsHere
<1>3. PICK c \in task.left :
        /\ task' = IF task.left = {c} THEN None ELSE [task EXCEPT !.left = @ \ {c}]
        /\ \/ bars' = [bars EXCEPT ![c] = task.t] /\ mixed' = (mixed \/ mode = "view")
           \/ UNCHANGED <<bars, mixed>>
  BY DEF Extra
<1>4. c \in Columns
  BY <1>2, <1>3 DEF Task
<1>5. /\ task' \in {None} \cup Task
      /\ task' # None => task'.t = task.t /\ task'.n = task.n /\ task'.kind = task.kind
                          /\ task'.v = task.v
  BY <1>2, <1>3 DEF Task
<1>6. TabsOK'
  BY <1>1 DEF IInv, TabsOK
<1>7. InspectorOK'
  BY <1>1, <1>2, <1>3, <1>4, <1>5 DEF IInv, InspectorOK, Task
<1>8. Fresher'
  BY <1>1, <1>2, <1>5 DEF IInv, Fresher, Recent
<1>9. OfMode'
  BY <1>1 DEF IInv, OfMode
<1>10. BarsHere'
  BY <1>1, <1>2, <1>3, <1>4, <1>5 DEF IInv, BarsHere, InspectorOK, Modes
<1>11. Followed'
  BY <1>1, <1>2, <1>5 DEF IInv, Followed, Watching
<1>12. QED
  BY <1>6, <1>7, <1>8, <1>9, <1>10, <1>11 DEF IInv

LEMMA TogglesKeep == IInv /\ (ToggleInspector \/ ToggleMode) => IInv'
<1> SUFFICES ASSUME IInv, ToggleInspector \/ ToggleMode PROVE IInv'
  OBVIOUS
<1>1. CASE ToggleInspector
  BY <1>1
  DEF ToggleInspector, IInv, TabsOK, InspectorOK, Fresher, Recent, OfMode, BarsHere, Followed, Watching,
      sources, files, model, noted
<1>2. CASE ToggleMode
  <2>1. /\ UNCHANGED <<active, live, reads, made, cols, rows, reread, known>>
        /\ UNCHANGED <<shown, target, seen, task, failed>>
        /\ mode' = IF mode = "whole" THEN "view" ELSE "whole"
        /\ bars' = NoBars /\ mixed' = FALSE /\ again' = TRUE
        /\ cached' = IF target = None THEN cached ELSE [cached EXCEPT ![target] = None]
        /\ strayed' = {t \in Tables \ {target} : cached[t] # None /\ cached[t].kind # mode'}
    BY <1>2 DEF ToggleMode, sources, files
  <2>2. TabsOK' /\ Followed'
    BY <2>1 DEF IInv, TabsOK, Followed, Watching
  <2>3. InspectorOK'
    BY <2>1 DEF IInv, InspectorOK, NoBars, Modes
  <2>4. Fresher'
    BY <2>1 DEF IInv, Fresher, Recent, InspectorOK
  <2>5. OfMode'
    BY <2>1, TabsAssumption DEF IInv, OfMode, InspectorOK
  <2>6. BarsHere'
    BY <2>1 DEF IInv, BarsHere, NoBars
  <2>7. QED
    BY <2>2, <2>3, <2>4, <2>5, <2>6 DEF IInv
<1>3. QED
  BY <1>1, <1>2

LEMMA IdleKeeps == IInv /\ UNCHANGED <<tabs, inspector>> => IInv'
BY DEF IInv, TabsOK, InspectorOK, Fresher, Recent, OfMode, BarsHere, Followed, Watching,
       tabs, sources, files, inspector, model, noted

\* With nothing on its way, the inspector shows the active tab in the mode it is in,
\* as its file was last read or as its grid reads it, and no other table's small
\* charts; unless a profile strayed over a toggle, small charts landed after one, the
\* last profile failed, or nobody was told that the file was read again.
THEOREM InspectedAlways == InspectorSpec => []Inspected
<1>1. TabsInit /\ InspectorInit => IInv
  BY InspectorStarts
<1>2. IInv /\ [(TabsNext /\ InspectorSees) \/ InspectorNext]_<<tabs, inspector>> => IInv'
  BY SeesKeeps, ReprofileKeeps, ProfiledKeeps, UnprofiledKeeps, ExtraKeeps, TogglesKeep, IdleKeeps
  DEF InspectorNext
<1>3. IInv => Inspected
  <2> SUFFICES ASSUME IInv, AtRest
               PROVE  /\ target = active
                      /\ cached[active] # None /\ active \notin strayed /\ ~failed
                           => ProfileOf(cached[active])
                      /\ \A c \in Columns : bars[c] # None /\ ~mixed => mode = "whole" /\ bars[c] = active
    BY DEF Inspected
  <2>1. /\ active \in Tables /\ target = active
        /\ seen[active] = reread[active] /\ live /\ task = None /\ Watching
    BY DEF IInv, AtRest, Quiet, Followed, Watching, TabsOK
  <2>2. ASSUME cached[active] # None, active \notin strayed, ~failed PROVE ProfileOf(cached[active])
    <3>1. cached[active].kind = mode /\ cached[active] \in Profile
      BY <2>1, <2>2 DEF IInv, OfMode, InspectorOK
    <3>2. CASE mode = "whole"
      BY <2>1, <2>2, <3>1, <3>2 DEF IInv, Fresher, Recent, ProfileOf, Profile, TabsOK, Untold
    <3>3. CASE mode = "view"
      BY <2>1, <2>2, <3>1, <3>3 DEF IInv, Followed, ProfileOf
    <3>4. QED
      BY <3>2, <3>3 DEF IInv, InspectorOK, Modes
  <2>3. QED
    BY <2>1, <2>2 DEF IInv, BarsHere
<1>4. QED
  BY <1>1, <1>2, <1>3, PTL DEF InspectorSpec

-----------------------------------------------------------------------------
(* The charts. *)

ChartsOK ==
  /\ open \in BOOLEAN /\ rebind \in BOOLEAN /\ replot \in BOOLEAN
  /\ boundTo \in Tables \cup {None} /\ describe \in {None} \cup Tables
  /\ picks \in SUBSET Columns /\ columns \in SUBSET Columns
  /\ kept \in [Tables -> {None} \cup SUBSET Columns]
  /\ plot \in {None} \cup Drawn /\ plotted \in {None} \cup Drawn
  /\ saved \in {None} \cup Chart /\ reopening \in {None} \cup Chart
  /\ want \in [Tables -> SUBSET Columns] /\ lost \subseteq Tables

\* With no restart due, the binding is of the active tab, or will be; its columns are
\* the file's, unless it has been read again and the grid is not told, or is told
\* in vain.
Behind(t) == t \in models /\ t \in unmade \cup changing
Bindings ==
  ~rebind /\ open =>
    /\ active = None => describe = None /\ boundTo = None
    /\ active # None /\ live =>
         /\ describe \in {None, active}
         /\ describe = None =>
              /\ boundTo = active
              /\ binding.ok =>
                   columns = cols[active] \/ known[active] < rows[active] \/ Behind(active)

\* With no restart due, what is plotted is the chart shown, from what the grid reads.
Drawing(p) ==
  /\ p.t = boundTo /\ p.picks = picks /\ p.v = reads[p.t]
  /\ Behind(p.t) \/ known[p.t] <= p.n
Plots ==
  ~replot /\ open /\ live =>
    /\ plot # None => Drawing(plot)
    /\ plot = None /\ plotted # None => Drawing(plotted)
Counted ==
  /\ plot # None => plot.n <= rows[plot.t]
  /\ plotted # None => plotted.n <= rows[plotted.t]

ChartsInv == TabsOK /\ ChartsOK /\ PicksKept /\ Bindings /\ Plots /\ Counted

LEMMA ChartsStart == TabsInit /\ ChartsInit => ChartsInv
<1> SUFFICES ASSUME TabsInit, ChartsInit PROVE ChartsInv
  OBVIOUS
<1>1. TabsOK
  BY DEF TabsInit, TabsOK
<1>2. ChartsOK
  BY DEF ChartsInit, ChartsOK
<1>3. PicksKept
  BY DEF ChartsInit, PicksKept, ChartOf
<1>4. Bindings /\ Plots /\ Counted
  BY DEF ChartsInit, Bindings, Plots, Counted
<1>5. QED
  BY <1>1, <1>2, <1>3, <1>4 DEF ChartsInv

\* While the active tab reads on what it read, a table told of another reading has
\* its view to be made, and one told in vain stays so.
LEMMA StillBehind ==
  ASSUME TabsOK, TabsNext, live, active' = active, live' = live, reads' = reads
  PROVE  \A t \in Tables :
           /\ Behind(t) => Behind(t)'
           /\ Behind(t)' \/ known'[t] = known[t]
           /\ (cols'[t] = cols[t] /\ rows'[t] = rows[t]) \/ known'[t] < rows'[t]
<1> DEFINE Stays == \A t \in Tables :
           /\ Behind(t) => Behind(t)'
           /\ Behind(t)' \/ known'[t] = known[t]
           /\ (cols'[t] = cols[t] /\ rows'[t] = rows[t]) \/ known'[t] < rows'[t]
<1>1. ASSUME NEW t \in Tables, Switch(t) PROVE Stays
  BY <1>1 DEF Switch
<1>2. ASSUME NEW t \in Tables, Bound(t) PROVE Stays
  <2>1. t \notin models
    <3>1. SUFFICES ASSUME t \in models PROVE FALSE
      OBVIOUS
    <3>2. reads'[t] = made + 1
      BY <1>2, <3>1 DEF Bound, TabsOK
    <3>3. reads[t] <= made /\ made \in Nat /\ reads[t] \in Nat
      BY DEF TabsOK
    <3>4. QED
      BY <3>2, <3>3
  <2>2. QED
    BY <1>2, <2>1 DEF Bound, Behind, files
<1>3. ASSUME NEW t \in Tables, NotBound(t) PROVE Stays
  BY <1>3 DEF NotBound, Behind, files
<1>4. ASSUME NEW t \in Tables, Reimport(t) PROVE Stays
  <2>1. UNCHANGED <<models, unmade, changing, known>>
    BY <1>4 DEF Reimport, sources
  <2>2. \A u \in Tables : (cols'[u] = cols[u] /\ rows'[u] = rows[u]) \/ known'[u] < rows'[u]
    <3>1. PICK cs \in SUBSET Columns : cols' = [cols EXCEPT ![t] = cs]
      BY <1>4 DEF Reimport
    <3>2. rows' = [rows EXCEPT ![t] = @ + 1]
      BY <1>4 DEF Reimport
    <3>3. QED
      BY <2>1, <3>1, <3>2 DEF TabsOK
  <2>3. QED
    BY <2>1, <2>2 DEF Behind
<1>5. ASSUME NEW t \in Tables, Replay(t) PROVE Stays
  <2>1. /\ models' = models \cup {t} /\ changing' = changing \cup {t} /\ unmade' = unmade
        /\ known' = [known EXCEPT ![t] = rows[t]] /\ UNCHANGED <<cols, rows>>
    BY <1>5 DEF Replay, Changed
  <2>2. QED
    BY <2>1 DEF Behind, TabsOK
<1>6. CASE Close
  BY <1>6 DEF Close
<1>7. CASE Change
  BY <1>7 DEF Change, Changed, Behind, files
<1>8. CASE Lapse
  BY <1>8 DEF Lapse
<1>9. CASE Landed
  BY <1>9 DEF Landed
<1>10. QED
  BY <1>1, <1>2, <1>3, <1>4, <1>5, <1>6, <1>7, <1>8, <1>9 DEF TabsNext

LEMMA ChartsSeeKeeps == ChartsInv /\ TabsNext /\ ChartsSee => ChartsInv'
<1> SUFFICES ASSUME ChartsInv, TabsNext, ChartsSee PROVE ChartsInv'
  OBVIOUS
<1>1. Onward
  BY TabsOnward DEF ChartsInv
<1>2. UNCHANGED <<open, binding, describe, picks, boundTo, columns, kept, plotted, plot, saved, reopening, want,
                  lost>>
  BY DEF ChartsSee, chart, told
<1>3. rebind' = (rebind \/ Fires) /\ replot' = (replot \/ Fires)
  BY <1>2 DEF ChartsSee, Signals
<1>4. ChartsOK'
  <2>1. Fires \in BOOLEAN
    BY DEF Fires
  <2>2. QED
    BY <1>2, <1>3, <2>1 DEF ChartsInv, ChartsOK
<1>5. PicksKept'
  BY <1>2 DEF ChartsInv, PicksKept, ChartOf
<1>6. Counted'
  BY <1>1, <1>2 DEF ChartsInv, Counted, Onward, ChartsOK, TabsOK, Drawn
<1>7. ASSUME ~Fires PROVE UNCHANGED <<active, live, reads, open>>
  BY <1>7 DEF Fires
<1>8. Bindings'
  <2>1. SUFFICES ASSUME ~rebind', open' PROVE Bindings'
    BY DEF Bindings
  <2>2. ~rebind /\ ~Fires
    BY <1>3, <2>1
  <2>3. UNCHANGED <<active, live, reads, open>>
    BY <1>7, <2>2
  <2>4. CASE active # None /\ live
    <3>1. PICK t \in Tables : t = active /\ t = active'
      BY <2>3, <2>4 DEF ChartsInv, TabsOK
    <3>2. /\ Behind(t) => Behind(t)'
          /\ Behind(t)' \/ known'[t] = known[t]
          /\ (cols'[t] = cols[t] /\ rows'[t] = rows[t]) \/ known'[t] < rows'[t]
      BY <2>3, <2>4, StillBehind DEF ChartsInv
    <3>3. /\ describe \in {None, t}
          /\ describe = None =>
               boundTo = t /\ (binding.ok => columns = cols[t] \/ known[t] < rows[t] \/ Behind(t))
      BY <2>1, <2>2, <2>3, <2>4, <3>1 DEF ChartsInv, Bindings
    <3>4. /\ describe' \in {None, t}
          /\ describe' = None =>
               boundTo' = t /\ (binding'.ok => columns' = cols'[t] \/ known'[t] < rows'[t] \/ Behind(t)')
      BY <1>2, <3>2, <3>3
    <3>5. Bindings' = (~rebind' /\ open' =>
               /\ t = None => describe' = None /\ boundTo' = None
               /\ t # None /\ live' =>
                    /\ describe' \in {None, t}
                    /\ describe' = None =>
                         /\ boundTo' = t
                         /\ binding'.ok => columns' = cols'[t] \/ known'[t] < rows'[t] \/ Behind(t)')
      BY <3>1 DEF Bindings, Behind
    <3>6. QED
      BY <2>4, <3>1, <3>4, <3>5
  <2>5. CASE active = None \/ ~live
    BY <1>2, <2>1, <2>2, <2>3, <2>5 DEF ChartsInv, Bindings
  <2>6. QED
    BY <2>4, <2>5
<1>9. Plots'
  <2>1. SUFFICES ASSUME ~replot', open', live' PROVE Plots'
    BY DEF Plots
  <2>2. ~replot /\ ~Fires
    BY <1>3, <2>1
  <2>3. UNCHANGED <<active, live, reads, open>>
    BY <1>7, <2>2
  <2>4. ASSUME NEW p \in Drawn, Drawing(p) PROVE Drawing(p)'
    <3>1. p.t \in Tables
      BY DEF Drawn
    <3>2. Behind(p.t) => Behind(p.t)'
      BY <2>1, <2>3, <3>1, StillBehind DEF ChartsInv
    <3>3. Behind(p.t)' \/ known'[p.t] = known[p.t]
      BY <2>1, <2>3, <3>1, StillBehind DEF ChartsInv
    <3>4. QED
      BY <1>2, <2>3, <2>4, <3>2, <3>3 DEF Drawing
  <2>5. /\ plot # None => plot \in Drawn /\ Drawing(plot)
        /\ plot = None /\ plotted # None => plotted \in Drawn /\ Drawing(plotted)
    BY <2>1, <2>2, <2>3 DEF ChartsInv, ChartsOK, Plots
  <2>6. ASSUME plot' # None PROVE Drawing(plot)'
    <3>1. PICK p \in Drawn : p = plot' /\ Drawing(p)
      BY <1>2, <2>5, <2>6
    <3>2. QED
      BY <2>4, <3>1 DEF Drawing, Behind
  <2>7. ASSUME plot' = None, plotted' # None PROVE Drawing(plotted)'
    <3>1. PICK p \in Drawn : p = plotted' /\ Drawing(p)
      BY <1>2, <2>5, <2>7
    <3>2. QED
      BY <2>4, <3>1 DEF Drawing, Behind
  <2>8. QED
    BY <2>6, <2>7 DEF Plots
<1>10. QED
  BY <1>1, <1>4, <1>5, <1>6, <1>8, <1>9 DEF ChartsInv, Onward

\* What binds the chart keeps each table's picks, and binds it to the table.
LEMMA BindKeeps ==
  ASSUME ChartsInv, NEW t \in Tables \cup {None}, NEW ok \in BOOLEAN, Bind(t, ok), t = None => ok
  PROVE  /\ PicksKept'
         /\ boundTo' = t /\ picks' \in SUBSET Columns /\ columns' \in SUBSET Columns
         /\ kept' \in [Tables -> {None} \cup SUBSET Columns]
         /\ want' \in [Tables -> SUBSET Columns] /\ lost' \subseteq Tables
         /\ t # None /\ binding'.ok => columns' = cols[t]
<1> DEFINE found == IF t # None /\ ok THEN cols[t] ELSE {}
           had == IF t = None THEN None ELSE IF boundTo = t THEN picks ELSE kept[t]
<1>1. /\ binding' = [t |-> t, ok |-> ok] /\ kept' = Keep(t)
      /\ picks' = ChartFor(had, found) /\ columns' = found /\ boundTo' = t
  BY DEF Bind
<1>2. /\ found \in SUBSET Columns /\ had \in {None} \cup SUBSET Columns
      /\ picks' \in SUBSET Columns
  BY <1>1 DEF ChartsInv, TabsOK, ChartsOK, ChartFor
<1>3. Keep(t) = IF boundTo \notin {None, t} THEN [kept EXCEPT ![boundTo] = picks] ELSE kept
  BY DEF Keep
<1>4. kept' \in [Tables -> {None} \cup SUBSET Columns]
  BY <1>1, <1>3 DEF ChartsInv, ChartsOK
<1>5. \A u \in Tables : u # t /\ ChartOf(u) = want[u] => ChartOf(u)' = want[u]
  BY <1>1, <1>3, TabsAssumption DEF ChartsInv, ChartsOK, ChartOf
<1>6. CASE t = None
  <2>1. want' = want /\ lost' = lost
    BY <1>6 DEF Bind, told
  <2>2. PicksKept'
    BY <1>5, <1>6, <2>1, TabsAssumption DEF ChartsInv, PicksKept, ChartOf
  <2>3. QED
    BY <1>1, <1>2, <1>4, <1>6, <2>1, <2>2 DEF ChartsInv, ChartsOK
<1>7. CASE t # None
  <2>1. /\ want' = IF ok THEN [want EXCEPT ![t] = @ \cap found] ELSE want
        /\ lost' = IF ~ok /\ want[t] # {} THEN lost \cup {t} ELSE lost
    BY <1>7 DEF Bind
  <2>2. t \in Tables
    BY <1>7
  <2>3. ChartOf(t) = (IF had = None THEN {} ELSE had)
    BY <1>7, TabsAssumption DEF ChartOf, ChartsInv, ChartsOK
  <2>4. ChartOf(t)' = ChartOf(t) \cap found
    <3>1. picks' = (IF had = None THEN {} ELSE had \cap found)
      BY <1>1 DEF ChartFor
    <3>2. ChartOf(t)' = picks'
      BY <1>1 DEF ChartOf
    <3>3. QED
      BY <2>3, <3>1, <3>2
  <2>5. ASSUME NEW u \in Tables \ lost' PROVE ChartOf(u)' = want'[u]
    <3>1. u \notin lost /\ ChartOf(u) = want[u]
      BY <2>1, <2>5 DEF ChartsInv, PicksKept
    <3>2. CASE u = t
      <4>1. CASE ok
        BY <2>1, <2>2, <2>4, <3>1, <3>2, <4>1 DEF ChartsInv, ChartsOK
      <4>2. CASE ~ok
        BY <2>1, <2>2, <2>4, <2>5, <3>1, <3>2, <4>2
      <4>3. QED
        BY <4>1, <4>2
    <3>3. CASE u # t
      BY <1>5, <2>1, <2>2, <3>1, <3>3 DEF ChartsInv, ChartsOK
    <3>4. QED
      BY <3>2, <3>3
  <2>6. want' \in [Tables -> SUBSET Columns] /\ lost' \subseteq Tables
    BY <1>2, <2>1, <2>2 DEF ChartsInv, ChartsOK
  <2>7. t # None /\ binding'.ok => columns' = cols[t]
    BY <1>1
  <2>8. QED
    BY <1>1, <1>2, <1>4, <2>5, <2>6, <2>7 DEF PicksKept
<1>8. QED
  BY <1>6, <1>7

LEMMA RebindKeeps == ChartsInv /\ Rebind => ChartsInv'
<1> SUFFICES ASSUME ChartsInv, Rebind PROVE ChartsInv'
  OBVIOUS
<1>1. /\ UNCHANGED <<active, live, reads, made, models, changing, unmade, cols, rows, reread, known>>
      /\ UNCHANGED <<open, plotted, plot, saved, reopening>>
      /\ rebind' = FALSE /\ replot' = (replot \/ picks' # picks \/ boundTo' # boundTo)
  BY DEF Rebind, tabs, sources, files
<1>2. TabsOK'
  BY <1>1 DEF ChartsInv, TabsOK
<1>3. Counted'
  BY <1>1 DEF ChartsInv, Counted
<1>4. Plots'
  BY <1>1 DEF ChartsInv, Plots, Drawing, Behind
<1>5. CASE open /\ active = None
  <2>1. Bind(None, TRUE) /\ describe' = None
    BY <1>5 DEF Rebind
  <2>2. /\ PicksKept' /\ boundTo' = None /\ picks' \in SUBSET Columns /\ columns' \in SUBSET Columns
        /\ kept' \in [Tables -> {None} \cup SUBSET Columns]
        /\ want' \in [Tables -> SUBSET Columns] /\ lost' \subseteq Tables
    BY <2>1, BindKeeps
  <2>3. ChartsOK'
    BY <1>1, <2>1, <2>2 DEF ChartsInv, ChartsOK
  <2>4. Bindings'
    BY <1>1, <1>5, <2>1, <2>2 DEF Bindings
  <2>5. QED
    BY <1>2, <1>3, <1>4, <2>2, <2>3, <2>4 DEF ChartsInv
<1>6. CASE ~(open /\ active = None)
  <2>1. /\ UNCHANGED <<picks, boundTo, columns, kept, want, lost>>
        /\ describe' = IF open /\ live THEN active ELSE None
    BY <1>6 DEF Rebind, chart, told
  <2>2. ChartsOK'
    BY <1>1, <1>6, <2>1 DEF ChartsInv, ChartsOK, TabsOK
  <2>3. PicksKept'
    BY <2>1 DEF ChartsInv, PicksKept, ChartOf
  <2>4. Bindings'
    BY <1>1, <1>6, <2>1 DEF Bindings
  <2>5. QED
    BY <1>2, <1>3, <1>4, <2>2, <2>3, <2>4 DEF ChartsInv
<1>7. QED
  BY <1>5, <1>6

LEMMA DescribedKeeps == ChartsInv /\ Described => ChartsInv'
<1> SUFFICES ASSUME ChartsInv, Described PROVE ChartsInv'
  OBVIOUS
<1>1. /\ UNCHANGED <<active, live, reads, made, models, changing, unmade, cols, rows, reread, known>>
      /\ UNCHANGED <<open, plotted, plot, saved, reopening>>
      /\ rebind' = rebind /\ replot' = (replot \/ picks' # picks \/ boundTo' # boundTo)
  BY DEF Described, Signals, Fires, tabs, sources, files, ChartsInv, ChartsOK
<1>2. describe \in Tables /\ describe # None /\ describe' = None
  BY DEF Described, ChartsInv, ChartsOK
<1>3. PICK ok \in BOOLEAN : Bind(describe, ok)
  BY DEF Described
<1>4. /\ PicksKept' /\ boundTo' = describe /\ picks' \in SUBSET Columns /\ columns' \in SUBSET Columns
      /\ kept' \in [Tables -> {None} \cup SUBSET Columns]
      /\ want' \in [Tables -> SUBSET Columns] /\ lost' \subseteq Tables
      /\ binding'.ok => columns' = cols[describe]
  BY <1>2, <1>3, BindKeeps
<1>5. TabsOK'
  BY <1>1 DEF ChartsInv, TabsOK
<1>6. ChartsOK'
  BY <1>1, <1>2, <1>4 DEF ChartsInv, ChartsOK
<1>7. Counted'
  BY <1>1 DEF ChartsInv, Counted
<1>8. Plots'
  BY <1>1 DEF ChartsInv, Plots, Drawing, Behind
<1>9. Bindings'
  BY <1>1, <1>2, <1>4 DEF ChartsInv, Bindings
<1>10. QED
  BY <1>4, <1>5, <1>6, <1>7, <1>8, <1>9 DEF ChartsInv

LEMMA ReplotKeeps == ChartsInv /\ Replot => ChartsInv'
<1> SUFFICES ASSUME ChartsInv, Replot PROVE ChartsInv'
  OBVIOUS
<1>1. /\ UNCHANGED <<active, live, reads, made, models, changing, unmade, cols, rows, reread, known>>
      /\ UNCHANGED <<open, binding, describe, rebind, picks, boundTo, columns, kept, saved, reopening, want, lost>>
      /\ replot' = FALSE
  BY DEF Replot, tabs, sources, files, chart, told
<1>2. TabsOK' /\ PicksKept' /\ Bindings'
  BY <1>1 DEF ChartsInv, TabsOK, PicksKept, ChartOf, Bindings, Behind
<1>3. CASE open /\ picks # {} /\ boundTo # None /\ live
  <2>1. /\ plot' = [t |-> boundTo, picks |-> picks, v |-> reads[boundTo], n |-> rows[boundTo]]
        /\ plotted' = plotted
    BY <1>3 DEF Replot
  <2>2. boundTo \in Tables
    BY <1>3 DEF ChartsInv, ChartsOK
  <2>3. plot' \in Drawn
    BY <2>1, <2>2 DEF ChartsInv, ChartsOK, TabsOK, Drawn
  <2>4. plot' # None
    BY <2>3, ChartsAssumption
  <2>5. ChartsOK'
    BY <1>1, <2>1, <2>3 DEF ChartsInv, ChartsOK
  <2>6. Plots' /\ Counted'
    BY <1>1, <2>1, <2>2, <2>4 DEF ChartsInv, TabsOK, Plots, Counted, Drawing
  <2>7. QED
    BY <1>2, <2>5, <2>6 DEF ChartsInv
<1>4. CASE ~(open /\ picks # {} /\ boundTo # None /\ live)
  <2>1. plot' = None /\ plotted' = None
    BY <1>4 DEF Replot
  <2>2. ChartsOK' /\ Plots' /\ Counted'
    BY <1>1, <2>1 DEF ChartsInv, ChartsOK, Plots, Counted
  <2>3. QED
    BY <1>2, <2>2 DEF ChartsInv
<1>5. QED
  BY <1>3, <1>4

LEMMA PlottedKeeps == ChartsInv /\ Plotted => ChartsInv'
<1> SUFFICES ASSUME ChartsInv, Plotted PROVE ChartsInv'
  OBVIOUS
<1>1. /\ UNCHANGED <<active, live, reads, made, models, changing, unmade, cols, rows, reread, known>>
      /\ UNCHANGED <<open, binding, describe, rebind, picks, boundTo, columns, kept, replot, saved, reopening,
                     want, lost>>
      /\ plot # None /\ plot' = None
  BY DEF Plotted, tabs, sources, files, chart, told
<1>2. plot \in Drawn
  BY <1>1 DEF ChartsInv, ChartsOK
<1>3. PICK n \in plot.n .. rows[plot.t] : plotted' = [plot EXCEPT !.n = n]
  BY DEF Plotted
<1>4. n \in Nat /\ plot.n <= n /\ n <= rows[plot.t] /\ plot.n \in Nat /\ plot.t \in Tables
  BY <1>2, <1>3 DEF ChartsInv, TabsOK, Drawn
<1>5. /\ plotted' \in Drawn /\ plotted'.t = plot.t /\ plotted'.picks = plot.picks /\ plotted'.v = plot.v
      /\ plotted'.n = n
  BY <1>2, <1>3, <1>4 DEF Drawn
<1>6. TabsOK' /\ PicksKept' /\ Bindings'
  BY <1>1 DEF ChartsInv, TabsOK, PicksKept, ChartOf, Bindings, Behind
<1>7. ChartsOK' /\ Counted'
  BY <1>1, <1>4, <1>5 DEF ChartsInv, ChartsOK, Counted
<1>8. Plots'
  <2>1. SUFFICES ASSUME Drawing(plot) PROVE Drawing(plotted)'
    BY <1>1 DEF ChartsInv, Plots
  <2>2. known[plot.t] \in Nat
    BY <1>4 DEF ChartsInv, TabsOK
  <2>3. QED
    BY <1>1, <1>4, <1>5, <2>1, <2>2 DEF Drawing, Behind
<1>9. QED
  BY <1>6, <1>7, <1>8 DEF ChartsInv

\* A step that leaves the tasks and the tabs but the active one alone, and signals.
Asked ==
  /\ UNCHANGED <<live, reads, made, models, changing, unmade, cols, rows, reread, known>>
  /\ UNCHANGED <<binding, describe, boundTo, columns, plotted, plot>>
  /\ active' \in Tables \cup {None}
  /\ Signals

LEMMA AskedKeeps ==
  ASSUME ChartsInv, Asked, ChartsOK', PicksKept'
  PROVE  ChartsInv'
<1>1. TabsOK' /\ Counted'
  BY DEF Asked, ChartsInv, TabsOK, Counted
<1>2. Bindings'
  <2>1. SUFFICES ASSUME ~rebind', open' PROVE Bindings'
    BY DEF Bindings
  <2>2. ~rebind /\ active' = active /\ open' = open
    BY <2>1 DEF Asked, Signals, Fires
  <2>3. QED
    BY <2>1, <2>2 DEF ChartsInv, Bindings, Asked, Behind
<1>3. Plots'
  <2>1. SUFFICES ASSUME ~replot', open', live' PROVE Plots'
    BY DEF Plots
  <2>2. ~replot /\ picks' = picks /\ open' = open
    BY <2>1 DEF Asked, Signals, Fires
  <2>3. QED
    BY <2>1, <2>2 DEF ChartsInv, Plots, Asked, Drawing, Behind
<1>4. QED
  BY <1>1, <1>2, <1>3 DEF ChartsInv

LEMMA SignalsOK == ChartsOK /\ Signals => rebind' \in BOOLEAN /\ replot' \in BOOLEAN
BY DEF ChartsOK, Signals, Fires

LEMMA ToggleKeeps == ChartsInv /\ Toggle => ChartsInv'
<1> SUFFICES ASSUME ChartsInv, Toggle PROVE ChartsInv'
  OBVIOUS
<1>1. Asked /\ UNCHANGED <<picks, kept, saved, reopening, want, lost>> /\ open' = ~open
  BY DEF Toggle, Asked, ChartsInv, TabsOK, sources, files, chart, told
<1>2. ChartsOK'
  BY <1>1, SignalsOK DEF ChartsInv, ChartsOK, Asked
<1>3. PicksKept'
  BY <1>1 DEF Asked, ChartsInv, PicksKept, ChartOf
<1>4. QED
  BY <1>1, <1>2, <1>3, AskedKeeps

LEMMA ConfigureKeeps == ASSUME ChartsInv, NEW cs \in SUBSET Columns, Configure(cs) PROVE ChartsInv'
<1>1. Asked /\ UNCHANGED <<open, kept, saved, reopening>>
  BY DEF Configure, Asked, ChartsInv, TabsOK, sources, files
<1>2. /\ boundTo \in Tables /\ picks' = cs
      /\ want' = [want EXCEPT ![boundTo] = cs] /\ lost' = lost \ {boundTo}
  BY DEF Configure, ChartsInv, ChartsOK
<1>3. ChartsOK'
  BY <1>1, <1>2, SignalsOK DEF ChartsInv, ChartsOK, Asked
<1>4. PicksKept'
  BY <1>1, <1>2 DEF Asked, ChartsInv, ChartsOK, PicksKept, ChartOf
<1>5. QED
  BY <1>1, <1>3, <1>4, AskedKeeps

LEMMA SavedKeeps == ChartsInv /\ (Save \/ Reopen) => ChartsInv'
<1> SUFFICES ASSUME ChartsInv, Save \/ Reopen PROVE ChartsInv'
  OBVIOUS
<1>1. /\ UNCHANGED <<active, live, reads, made, models, changing, unmade, cols, rows, reread, known>>
      /\ UNCHANGED <<open, binding, describe, rebind, picks, boundTo, columns, kept, plotted, plot, replot,
                     want, lost>>
  BY DEF Save, Reopen, sources, files, chart, told
<1>2. saved' \in {None} \cup Chart /\ reopening' \in {None} \cup Chart
  <2>1. CASE Save
    BY <2>1 DEF Save, ChartsInv, ChartsOK, Chart
  <2>2. CASE Reopen
    BY <2>2 DEF Reopen, ChartsInv, ChartsOK
  <2>3. QED
    BY <2>1, <2>2
<1>3. TabsOK' /\ PicksKept' /\ Bindings'
  BY <1>1 DEF ChartsInv, TabsOK, PicksKept, ChartOf, Bindings, Behind
<1>4. ChartsOK'
  BY <1>1, <1>2 DEF ChartsInv, ChartsOK
<1>5. Plots' /\ Counted'
  BY <1>1 DEF ChartsInv, Plots, Counted, Drawing, Behind
<1>6. QED
  BY <1>3, <1>4, <1>5 DEF ChartsInv

LEMMA ShowKeeps == ChartsInv /\ Show => ChartsInv'
<1> SUFFICES ASSUME ChartsInv, Show PROVE ChartsInv'
  OBVIOUS
<1>0. reopening \in Chart /\ reopening' = None
  BY DEF Show, ChartsInv, ChartsOK
<1>1. PICK t \in Tables, asked \in SUBSET Columns : t = reopening.t /\ asked = reopening.picks
  BY <1>0 DEF Chart
<1>2. /\ IF boundTo = t THEN picks' = asked \cap columns /\ kept' = kept
         ELSE kept' = [kept EXCEPT ![t] = asked] /\ picks' = picks
      /\ want' = [want EXCEPT ![t] = IF boundTo = t THEN asked \cap cols[t] ELSE asked]
      /\ lost' = IF boundTo = t /\ asked \cap columns # asked \cap cols[t] THEN lost \cup {t} ELSE lost \ {t}
      /\ active' = t /\ open' = TRUE /\ saved' = saved
  BY <1>1 DEF Show
<1>3. Asked
  BY <1>2 DEF Show, Asked, sources, files
<1>4. ChartsOK'
  <2>1. picks' \in SUBSET Columns /\ kept' \in [Tables -> {None} \cup SUBSET Columns]
    BY <1>2 DEF ChartsInv, ChartsOK
  <2>2. want' \in [Tables -> SUBSET Columns] /\ lost' \subseteq Tables
    BY <1>2 DEF ChartsInv, ChartsOK, TabsOK
  <2>3. QED
    BY <1>0, <1>2, <1>3, <2>1, <2>2, SignalsOK DEF ChartsInv, ChartsOK, Asked
<1>5. PicksKept'
  <2>1. ASSUME NEW u \in Tables \ lost', u # t PROVE ChartOf(u)' = want'[u]
    BY <1>2, <1>3, <2>1 DEF Asked, ChartsInv, ChartsOK, PicksKept, ChartOf
  <2>2. ASSUME t \notin lost' PROVE ChartOf(t)' = want'[t]
    <3>1. CASE boundTo = t
      BY <1>2, <1>3, <2>2, <3>1 DEF Asked, ChartsInv, ChartsOK, ChartOf
    <3>2. CASE boundTo # t
      BY <1>2, <1>3, <3>2, TabsAssumption DEF Asked, ChartsInv, ChartsOK, ChartOf
    <3>3. QED
      BY <3>1, <3>2
  <2>3. QED
    BY <2>1, <2>2 DEF PicksKept
<1>6. QED
  BY <1>3, <1>4, <1>5, AskedKeeps

LEMMA ChartsIdle == ChartsInv /\ UNCHANGED <<tabs, charts>> => ChartsInv'
<1> SUFFICES ASSUME ChartsInv, UNCHANGED <<tabs, charts>> PROVE ChartsInv'
  OBVIOUS
<1>1. /\ UNCHANGED <<active, live, reads, made, models, changing, unmade, cols, rows, reread, known>>
      /\ UNCHANGED <<open, binding, describe, rebind, picks, boundTo, columns, kept, plotted, plot, replot,
                     saved, reopening, want, lost>>
  BY DEF tabs, sources, files, charts, chart, told
<1>2. TabsOK' /\ PicksKept' /\ Bindings'
  BY <1>1 DEF ChartsInv, TabsOK, PicksKept, ChartOf, Bindings, Behind
<1>3. ChartsOK' /\ Plots' /\ Counted'
  BY <1>1 DEF ChartsInv, ChartsOK, Plots, Counted, Drawing, Behind
<1>4. QED
  BY <1>2, <1>3 DEF ChartsInv

LEMMA ChartsInductive == ChartsSpec => []ChartsInv
<1>1. ChartsInv /\ [(TabsNext /\ ChartsSee) \/ ChartsNext]_<<tabs, charts>> => ChartsInv'
  BY ChartsSeeKeeps, RebindKeeps, DescribedKeeps, ReplotKeeps, PlottedKeeps, ToggleKeeps, ConfigureKeeps,
     SavedKeeps, ShowKeeps, ChartsIdle
  DEF ChartsNext
<1>2. QED
  BY ChartsStart, <1>1, PTL DEF ChartsSpec

\* Each table's chart keeps the picks last asked for it, less those whose columns
\* went, in every order of tab switches, refreshes, saves and charts opened again;
\* unless the pane could not have the columns.
THEOREM PicksKeptAlways == ChartsSpec => []PicksKept
<1>1. ChartsInv => PicksKept
  BY DEF ChartsInv
<1>2. QED
  BY ChartsInductive, <1>1, PTL

\* With nothing on its way, the chart is of the active tab, drawn with the picks shown
\* from what its grid reads, as its file was last read; unless nobody was told of that,
\* or the view over it could not be made.
THEOREM DrawnIsAskedAlways == ChartsSpec => []DrawnIsAsked
<1>1. ChartsInv => DrawnIsAsked
  <2> SUFFICES ASSUME ChartsInv, ChartsRest
               PROVE  /\ boundTo = active
                      /\ plotted # None =>
                           /\ plotted.t = active /\ plotted.picks = picks /\ plotted.v = reads[active]
                           /\ active \in unmade \cup Untold \/ plotted.n = rows[active]
                      /\ active # None /\ binding.ok /\ active \notin unmade \cup Untold => columns = cols[active]
    BY DEF DrawnIsAsked
  <2>1. open /\ live /\ changing = {} /\ ~rebind /\ ~replot /\ describe = None /\ plot = None
    BY DEF ChartsRest, Quiet
  <2>2. boundTo = active
    BY <2>1 DEF ChartsInv, Bindings
  <2>3. ASSUME active # None, binding.ok, active \notin unmade \cup Untold PROVE columns = cols[active]
    <3>1. active \in Tables /\ rows[active] \in Nat /\ known[active] = rows[active]
      BY <2>3 DEF ChartsInv, TabsOK, Untold
    <3>2. ~Behind(active) /\ ~(known[active] < rows[active])
      BY <2>1, <2>3, <3>1 DEF Behind
    <3>3. QED
      BY <2>1, <2>3, <3>2 DEF ChartsInv, Bindings
  <2>4. ASSUME plotted # None
        PROVE  /\ plotted.t = active /\ plotted.picks = picks /\ plotted.v = reads[active]
               /\ active \in unmade \cup Untold \/ plotted.n = rows[active]
    <3>1. Drawing(plotted) /\ plotted.n <= rows[plotted.t]
      BY <2>1, <2>4 DEF ChartsInv, Plots, Counted
    <3>2. plotted \in Drawn
      BY <2>4 DEF ChartsInv, ChartsOK
    <3>3. plotted.t = active /\ plotted.n \in Nat /\ rows[active] \in Nat
      BY <2>2, <3>1, <3>2 DEF Drawing, Drawn, ChartsInv, TabsOK
    <3>4. active \in Tables
      BY <3>2, <3>3 DEF Drawn
    <3>5. QED
      BY <2>1, <3>1, <3>3, <3>4 DEF Drawing, Behind, Untold
  <2>5. QED
    BY <2>2, <2>3, <2>4
<1>2. QED
  BY ChartsInductive, <1>1, PTL
=============================================================================
