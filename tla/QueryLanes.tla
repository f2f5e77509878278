------------------------------- MODULE QueryLanes -------------------------------
(***************************************************************************)
(* The queries of one window on its engine: console runs, which the user    *)
(* may cancel, view changes, of which a new one supersedes the last, and    *)
(* page reads.  Each statement waits for the one connection.  The engine    *)
(* remembers one query as in flight, by its token; an interrupt stops the   *)
(* statement the connection is executing, if any.                           *)
(*                                                                         *)
(* A query stands for its token: neither is used twice.                     *)
(***************************************************************************)
EXTENDS Naturals

CONSTANTS
  Runs,     \* the console's runs
  Changes,  \* view changes
  Reads,    \* page reads, which have no token
  None      \* no query

Queries == Runs \cup Changes \cup Reads
ASSUME LanesAssumption ==
  /\ None \notin Queries \cup [query : Runs, armed : BOOLEAN]
  /\ Runs \cap Changes = {} /\ (Runs \cup Changes) \cap Reads = {}

VARIABLES
  at,      \* each query: off, waiting, executing, back, ended
  left,    \* the statements it has still to execute, the current one included
  result,  \* its last statement's: ok, failed, interrupted
  conn,    \* the query whose statement the connection executes
  hit,     \* that statement has been interrupted
  slot,    \* the engine's query in flight
  run,     \* the console's: None or [query, armed]
  stopped, \* runs the user cancelled
  newest,  \* history: the query with a token that began last
  early,   \* history: runs cancelled before the last of their statements
  stray    \* history: an interrupt has reached another query than it was meant for

engine == <<conn, hit, slot>>
vars == <<at, left, result, engine, run, stopped, newest, early, stray>>

Out(q) == at[q] \notin {"off", "ended"}

-----------------------------------------------------------------------------
(* The engine's slot. *)

\* fire_interrupt, meant for q: it reaches whatever is executing.
Fire(q) ==
  IF conn = None THEN UNCHANGED <<hit, stray>>
  ELSE hit' = TRUE /\ stray' = (stray \/ conn # q)

\* interrupt_scoped
InterruptScoped(q) == IF slot = q THEN Fire(q) ELSE UNCHANGED <<hit, stray>>

\* interrupt_lane, of the View lane
InterruptViews == IF slot \in Changes THEN Fire(slot) ELSE UNCHANGED <<hit, stray>>

\* begin_query
Begin(q) == slot' = q /\ newest' = q

\* end_query
End(q) == slot' = IF slot = q THEN None ELSE slot

-----------------------------------------------------------------------------
(* Statements. *)

\* The task hands its statement to a blocking thread, which waits for the lock.
Ask(q, n) ==
  /\ at' = [at EXCEPT ![q] = "waiting"] /\ left' = [left EXCEPT ![q] = n]

Close(q) ==
  /\ at' = [at EXCEPT ![q] = "ended"] /\ left' = [left EXCEPT ![q] = 0]

Lock(q) ==
  /\ at[q] = "waiting" /\ conn = None
  /\ conn' = q /\ hit' = FALSE
  /\ at' = [at EXCEPT ![q] = "executing"]
  /\ UNCHANGED <<left, result, slot, run, stopped, newest, early, stray>>

\* An interrupt may come too late for a statement that was about to end.
Return(q) ==
  /\ conn = q /\ conn' = None /\ hit' = FALSE
  /\ at' = [at EXCEPT ![q] = "back"]
  /\ \E r \in {"ok", "failed"} \cup (IF hit THEN {"interrupted"} ELSE {}) :
        result' = [result EXCEPT ![q] = r]
  /\ UNCHANGED <<left, slot, run, stopped, newest, early, stray>>

-----------------------------------------------------------------------------
(* The console. *)

\* run: one at a time.  A statement with rows is two, the view and its count.
Run(q) ==
  /\ q \in Runs /\ at[q] = "off" /\ run = None
  /\ \E n \in 1 .. 2 : Ask(q, n)
  /\ Begin(q)
  /\ run' = [query |-> q, armed |-> TRUE]
  /\ UNCHANGED <<result, conn, hit, stopped, early, stray>>

\* cancel
Cancel ==
  /\ run # None
  /\ stopped' = stopped \cup {run.query}
  /\ IF run.armed THEN InterruptScoped(run.query) ELSE UNCHANGED <<hit, stray>>
  /\ run' = [query |-> run.query, armed |-> FALSE]
  /\ early' = IF left[run.query] > 1 THEN early \cup {run.query} ELSE early
  /\ UNCHANGED <<at, left, result, conn, slot, newest>>

\* Mutant: the second statement is not kept from one that was stopped.
MutantGoOn(q) ==
  /\ at[q] = "back" /\ left[q] > 1 /\ result[q] = "ok"
  /\ Ask(q, left[q] - 1)
  /\ UNCHANGED <<result, engine, run, stopped, newest, early, stray>>

\* The task goes on to its next statement; rows looks at the flag before the
\* count.
GoOn(q) ==
  /\ at[q] = "back" /\ left[q] > 1 /\ result[q] = "ok" /\ q \notin stopped
  /\ Ask(q, left[q] - 1)
  /\ UNCHANGED <<result, engine, run, stopped, newest, early, stray>>

Over(q) == at[q] = "back" /\ (left[q] = 1 \/ result[q] # "ok" \/ q \in stopped)

\* finish: the guard is disarmed and its token retired.
Finish(q) ==
  /\ q \in Runs /\ Over(q)
  /\ result' = [result EXCEPT ![q] = IF left[q] > 1 /\ @ = "ok" THEN "interrupted" ELSE @]
  /\ Close(q)
  /\ IF run # None THEN run' = None /\ End(run.query) ELSE UNCHANGED <<run, slot>>
  /\ UNCHANGED <<conn, hit, stopped, newest, early, stray>>

-----------------------------------------------------------------------------
(* The grid. *)

\* start_view_change: the lane is claimed before the task runs.  The view is
\* made and counted, a base table only counted; the drop of the view it replaces,
\* whose failure is no failure, is left out.
Change(q) ==
  /\ q \in Changes /\ at[q] = "off"
  /\ InterruptViews /\ Begin(q)
  /\ \E n \in {1, 2} : Ask(q, n)
  /\ UNCHANGED <<result, conn, run, stopped, early>>

\* Its token is retired, however it ended.
Changed(q) ==
  /\ q \in Changes /\ Over(q)
  /\ Close(q) /\ result' = [result EXCEPT ![q] = "ok"]
  /\ End(q)
  /\ UNCHANGED <<conn, hit, run, stopped, newest, early, stray>>

Read(q) ==
  /\ q \in Reads /\ at[q] = "off" /\ Ask(q, 1)
  /\ UNCHANGED <<result, engine, run, stopped, newest, early, stray>>

HaveRead(q) ==
  /\ q \in Reads /\ at[q] = "back" /\ Close(q) /\ result' = [result EXCEPT ![q] = "ok"]
  /\ UNCHANGED <<engine, run, stopped, newest, early, stray>>

Init ==
  /\ at = [q \in Queries |-> "off"] /\ left = [q \in Queries |-> 0]
  /\ result = [q \in Queries |-> "ok"]
  /\ conn = None /\ hit = FALSE /\ slot = None
  /\ run = None /\ stopped = {}
  /\ newest = None /\ early = {} /\ stray = FALSE

Work(q) == Lock(q) \/ Return(q) \/ GoOn(q) \/ Finish(q) \/ Changed(q) \/ HaveRead(q)

Next ==
  \/ Cancel
  \/ \E q \in Queries : Run(q) \/ Change(q) \/ Read(q) \/ Work(q)

Spec == Init /\ [][Next]_vars

-----------------------------------------------------------------------------
(* Properties. *)

\* The type of every variable.
TypeOK ==
  /\ at \in [Queries -> {"off", "waiting", "executing", "back", "ended"}]
  /\ left \in [Queries -> 0 .. 2] /\ result \in [Queries -> {"ok", "failed", "interrupted"}]
  /\ conn \in Queries \cup {None} /\ {slot, newest} \subseteq Runs \cup Changes \cup {None} /\ hit \in BOOLEAN
  /\ run \in [query : Runs, armed : BOOLEAN] \cup {None}
  /\ stopped \in SUBSET Runs /\ early \in SUBSET Runs /\ stray \in BOOLEAN

\* The slot is the query that began last, for as long as it is out, and then
\* nobody's: what ends later than it was displaced never disarms another's.
NewestInSlot ==
  slot = IF newest # None /\ Out(newest) THEN newest ELSE None

\* The guard the console holds is that of the run that is out; there is one,
\* and none is left armed by a run that has ended.
GuardIsTheRuns == \A q \in Runs : Out(q) <=> run # None /\ run.query = q

\* A run with rows that the user cancels before they are being counted never
\* shows them, wherever the cancel finds it: waiting, executing, between two
\* statements, with its token displaced or another query on the connection.
CancelHeard == \A q \in early : at[q] = "ended" => result[q] # "ok"

\* query/mod.rs: Cmd+. lands on this query and nothing else.  view/spawn.rs: a
\* console run or a grid prefetch sharing the connection is left alone.
Scoped == ~stray
=============================================================================
