------------------------------ MODULE ConsoleTabs ------------------------------
(***************************************************************************)
(* The SQL console's query tabs and the tabs of their rows.  A query tab    *)
(* has an id of its own; the view of its last rows is named for its place   *)
(* in the strip, and the tab that shows them is labelled with its title.    *)
(***************************************************************************)
EXTENDS Naturals, Sequences, SequencesExt

CONSTANTS
  MaxTabs,   \* bound: query tabs opened
  MaxRuns,   \* bound: statements run
  None       \* no run, no label, no view

VARIABLES
  queries,  \* the query tabs, [id, title]
  shownQ,   \* the active one's place
  opened,   \* query tabs opened so far, which is the next id
  views,    \* the engine's view for each place, as the run that made it; or None
  results,  \* the tabs of rows, [place, label]
  current,  \* the run under way, or None
  runs,     \* runs so far
  by,       \* history: the title of the tab each run was of
  spoilt    \* history: places whose view is of a run that failed

vars == <<queries, shownQ, opened, views, results, current, runs, by, spoilt>>

Places == 1 .. MaxTabs
PlaceOf(id) == {i \in DOMAIN queries : queries[i].id = id}

Largest(S) == IF S = {} THEN 0 ELSE CHOOSE n \in S : \A k \in S : k <= n

\* next_title: one past the highest in use.
NextTitle == Largest({queries[i].title : i \in DOMAIN queries}) + 1

\* open_with: a new tab, shown.
OpenWith ==
  /\ opened < MaxTabs /\ opened' = opened + 1
  /\ queries' = Append(queries, [id |-> opened + 1, title |-> NextTitle])
  /\ shownQ' = Len(queries')
  /\ UNCHANGED <<views, results, current, runs, by, spoilt>>

\* close_active: never the last.
CloseActive ==
  /\ Len(queries) > 1
  /\ queries' = RemoveAt(queries, shownQ)
  /\ shownQ' = IF shownQ > Len(queries') THEN Len(queries') ELSE shownQ
  /\ UNCHANGED <<opened, views, results, current, runs, by, spoilt>>

\* select
Select(i) ==
  /\ i \in DOMAIN queries /\ i # shownQ /\ shownQ' = i
  /\ UNCHANGED <<queries, opened, views, results, current, runs, by, spoilt>>

\* run: of the tab with this id, or of the active one if it has gone; one at a
\* time.
Run(id) ==
  /\ current = None /\ runs < MaxRuns /\ id \in 1 .. opened
  /\ LET at == IF PlaceOf(id) = {} THEN shownQ ELSE CHOOSE i \in PlaceOf(id) : TRUE
     IN  /\ current' = [place |-> at, title |-> queries[at].title, stage |-> "create"]
         /\ by' = Append(by, queries[at].title)
  /\ runs' = runs + 1
  /\ UNCHANGED <<queries, shownQ, opened, views, results, spoilt>>

\* rows: the view is made over the one there was.
Bind ==
  /\ current # None /\ current.stage = "create"
  /\ views' = [views EXCEPT ![current.place] = runs]
  /\ current' = [current EXCEPT !.stage = "count"]
  /\ spoilt' = spoilt \cup {current.place}
  /\ UNCHANGED <<queries, shownQ, opened, results, runs, by>>

\* Mutant: the tab that had the view's rows keeps its label.
MutantShowRows(at, title) ==
  LET same == {i \in DOMAIN results : results[i].place = at} IN
  results' = IF same # {} THEN results ELSE Append(results, [place |-> at, label |-> title])

\* show_rows: in the tab that has the view, or in a new one.
ShowRows(at, title) ==
  LET same == {i \in DOMAIN results : results[i].place = at} IN
  results' = IF same # {} THEN [results EXCEPT ![CHOOSE i \in same : TRUE].label = title]
             ELSE Append(results, [place |-> at, label |-> title])

\* finish, with rows: they are counted.
Finish ==
  /\ current # None /\ current.stage = "count" /\ current' = None
  /\ ShowRows(current.place, current.title) /\ spoilt' = spoilt \ {current.place}
  /\ UNCHANGED <<queries, shownQ, opened, views, runs, by>>

\* finish, with none: the statement had no rows, or failed, or was cancelled,
\* and the view is left as it is.
Over ==
  /\ current # None /\ current' = None
  /\ UNCHANGED <<queries, shownQ, opened, views, results, runs, by, spoilt>>

\* A tab of rows is closed, and its view with it, unless it has none.
CloseResult(i) ==
  /\ i \in DOMAIN results
  /\ results' = RemoveAt(results, i)
  /\ UNCHANGED <<queries, shownQ, opened, views, current, runs, by, spoilt>>

Init ==
  /\ queries = <<[id |-> 1, title |-> 1]>> /\ shownQ = 1 /\ opened = 1
  /\ views = [i \in Places |-> None] /\ results = <<>>
  /\ current = None /\ runs = 0 /\ by = <<>> /\ spoilt = {}

Next ==
  \/ OpenWith \/ CloseActive \/ Bind \/ Finish \/ Over
  \/ \E i \in Places : Select(i) \/ Run(i) \/ CloseResult(i)

Spec == Init /\ [][Next]_vars

-----------------------------------------------------------------------------
(* Properties. *)

\* The type of every variable; there is always a query tab, and one shown,
\* and no two have one title, however they were opened and closed.
TypeOK ==
  /\ shownQ \in DOMAIN queries /\ runs \in 0 .. MaxRuns /\ opened \in Places
  /\ Len(results) <= MaxTabs /\ Len(by) = runs
  /\ \A i, j \in DOMAIN queries : i # j => queries[i].title # queries[j].title

\* A tab of rows is labelled with the query tab whose run made them, and no view
\* is in two, though closing a query tab gives its view to the next one: while
\* no run of that view is under way or has failed.
Labelled ==
  \A i \in DOMAIN results :
    /\ results[i].place \notin spoilt => results[i].label = by[views[results[i].place]]
    /\ \A j \in DOMAIN results : results[i].place = results[j].place => i = j
=============================================================================
