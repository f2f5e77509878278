-------------------------------- MODULE Console --------------------------------
(***************************************************************************)
(* The SQL console of one window: its runs as queries on the engine         *)
(* (QueryLanes), among view changes and page reads, and as the tabs they    *)
(* are of and whose rows they show (ConsoleTabs).                           *)
(***************************************************************************)
EXTENDS QueryLanes, Sequences

CONSTANTS MaxTabs, MaxRuns

\* There is a place for a tab, and none is told from a run under way.
ASSUME ConsoleAssumption ==
  /\ MaxTabs \in Nat \ {0} /\ MaxRuns \in Nat
  /\ None \notin [place : 1 .. MaxTabs, title : Nat, stage : {"create", "count"}]

VARIABLES queries, shownQ, opened, views, results, current, runs, by, spoilt

T == INSTANCE ConsoleTabs

VARIABLE order \* history: the runs in the order they began

tabs == <<queries, shownQ, opened, views, results, current, runs, by, spoilt>>
consoleVars == <<vars, tabs, order>>

\* run, of the tab with this id
Start(q, id) == Run(q) /\ T!Run(id) /\ order' = Append(order, q)

\* A run with rows makes its view first.
WithRows(q) == q \in Runs /\ left[q] = 2

Back(q) ==
  /\ Return(q) /\ UNCHANGED order
  /\ IF WithRows(q) /\ result'[q] = "ok" THEN T!Bind ELSE UNCHANGED tabs

\* Mutant: whatever was made is shown.
MutantShowOrNot(q) ==
  /\ Finish(q) /\ UNCHANGED order
  /\ IF current.stage = "count" THEN T!Finish ELSE T!Over

\* finish: rows that were counted are shown.
ShowOrNot(q) ==
  /\ Finish(q) /\ UNCHANGED order
  /\ IF result'[q] = "ok" /\ current.stage = "count" THEN T!Finish ELSE T!Over

\* What the tabs know nothing of, and what the engine does not.
Apart ==
  \/ /\ UNCHANGED <<tabs, order>>
     /\ \/ Cancel
        \/ \E q \in Queries : Change(q) \/ Read(q) \/ Lock(q) \/ GoOn(q) \/ Changed(q) \/ HaveRead(q)
  \/ /\ UNCHANGED <<vars, order>>
     /\ \/ T!OpenWith \/ T!CloseActive
        \/ \E i \in 1 .. MaxTabs : T!Select(i) \/ T!CloseResult(i)

ConsoleInit == Init /\ T!Init /\ order = <<>>

ConsoleNext ==
  \/ \E q \in Queries :
       \/ \E id \in 1 .. MaxTabs : Start(q, id)
       \/ Back(q) \/ ShowOrNot(q)
  \/ Apart

ConsoleSpec == ConsoleInit /\ [][ConsoleNext]_consoleVars

-----------------------------------------------------------------------------
(* Properties. *)

\* The type of every variable of both.
ConsoleTypeOK == TypeOK /\ T!TypeOK /\ order \in Seq(Runs)

\* A tab of rows is labelled with the query tab whose run made them, and no view
\* is in two, though closing a query tab gives its view to the next one: while
\* no run of that view is under way or has failed.
Labelled == T!Labelled

\* A tab never shows the rows of a run that was cancelled before they were
\* counted, nor of one that failed, whatever came between the run's statements.
RowsRan ==
  \A i \in DOMAIN results :
    results[i].place \notin spoilt =>
      LET q == order[views[results[i].place]] IN at[q] = "ended" /\ result[q] = "ok" /\ q \notin early
=============================================================================
