------------------------------- MODULE TableViews -------------------------------
(***************************************************************************)
(* The views of a window's tables: each table's stack of steps with its     *)
(* undo history (ViewModel), the TEMP view made of it in the engine, the    *)
(* source its grid is bound to, Live Refresh, which reads the table's file  *)
(* again under all of them, and a save, which moves them to another engine. *)
(*                                                                         *)
(* A change is made in the model at once and in the engine later, in        *)
(* statements that wait for its connection one by one.                      *)
(***************************************************************************)
EXTENDS Naturals, FiniteSets, Sequences, SequencesExt, Retain

CONSTANTS
  Tables,    \* the tables the window has tabs of
  Values,    \* the values of a filter, which stands for a sort too
  Cap,       \* HISTORY_CAP
  MaxMoves,  \* bound: what the user does
  Slots,     \* bound: tasks at once, 1 .. Slots
  None       \* no SQL, no model, no task

Op == [kind : {"filter", "edit", "rename"}, val : Values \cup Nat]
Stack == Seq(Op)
ViewModel == [present : Stack, past : Seq(Stack), future : Seq(Stack), view : Nat,
              sql : Stack \cup {None}, seq : Nat]
Task == [t : Tables, name : Nat \cup {None}, sql : Stack \cup {None}, prev : Nat, rows : Nat,
         at : {"create", "count", "drop"}]

ASSUME ViewsAssumption ==
  /\ {Cap, MaxMoves, Slots} \subseteq Nat \ {0} /\ IsFiniteSet(Tables)
  /\ None \notin Tables \cup Nat \cup Stack \cup ViewModel \cup Task \cup [name : Nat, rows : Nat]

VARIABLES
  vm,      \* each table's ViewModel, or None
  views,   \* the engine's TEMP views: [table, name, sql]
  bound,   \* each grid's source, [name, rows], 0 the table itself; or None
  task,    \* view changes under way
  lane,    \* the one that began last, while it is under way; or 0
  rows,    \* how many times each table has been read again
  refresh, \* re-imports under way
  editing, \* edits whose row ids are being read: [t, rows]
  reads,   \* how the engine will read each table's file: plain, shaped
  asked,   \* how each table's file was last opened, not refreshed
  ready,   \* the window has a session
  moves,   \* the user's moves so far
  mishaps, \* history: each table's
  unkept   \* history: tables whose read could not be recorded

vars == <<vm, views, bound, task, lane, rows, refresh, editing, reads, asked, ready, moves, mishaps, unkept>>

Ids == 1 .. Slots
Edit(n) == [kind |-> "edit", val |-> n]
Rename == [kind |-> "rename", val |-> 0]
Upserts == [kind : {"filter"}, val : Values]
Free == {i \in Ids : task[i] = None}
Move == ready /\ moves < MaxMoves /\ moves' = moves + 1 /\ Cardinality(Free) > 0

-----------------------------------------------------------------------------
(* ViewModel, whose mutators change no more than the model. *)

New == [present |-> <<>>, past |-> <<>>, future |-> <<>>, view |-> 0, sql |-> None, seq |-> 0]

\* The statement a stack compiles to: what is for display only is not in it.
Compiled(stack) == Retain(stack, {op \in ToSet(stack) : op.kind # "rename"})

\* regenerate_view
Regenerate(m) ==
  CASE m.present = <<>> ->
         [vm |-> [m EXCEPT !.view = 0, !.sql = None], display |-> FALSE, prev |-> m.view]
    [] m.present # <<>> /\ m.view # 0 /\ m.sql = Compiled(m.present) ->
         [vm |-> m, display |-> TRUE, prev |-> 0]
    [] OTHER ->
         [vm |-> [m EXCEPT !.view = m.seq + 1, !.seq = m.seq + 1, !.sql = Compiled(m.present)],
          display |-> FALSE, prev |-> m.view]

\* Mutant: the oldest snapshot is never dropped.
MutantCheckpoint(m, stack) ==
  [m EXCEPT !.past = Append(m.past, m.present), !.future = <<>>, !.present = stack]

\* The model with other steps and history; what is made of them is for regenerate_view.
With(m, present, past, future) ==
  [present |-> present, past |-> past, future |-> future, view |-> m.view, sql |-> m.sql, seq |-> m.seq]

\* checkpoint, and the stack it was for
Checkpoint(m, stack) ==
  LET past == Append(m.past, m.present) IN
  With(m, stack, IF Len(past) > Cap THEN Tail(past) ELSE past, <<>>)

\* undo
Undone(m) == With(m, Last(m.past), Front(m.past), Append(m.future, m.present))

\* redo
Redone(m) == With(m, Last(m.future), Append(m.past, m.present), Front(m.future))

\* set_sort, set_filter: in place where there is one, which is no step to undo.
Upserted(m, op) ==
  LET at == {i \in DOMAIN m.present : m.present[i].kind = op.kind} IN
  IF at = {} THEN Checkpoint(m, Append(m.present, op))
  ELSE With(m, [m.present EXCEPT ![CHOOSE i \in at : TRUE] = op], m.past, <<>>)

\* Mutant: what was undone can be redone over rows read again.
MutantReset(m, keep) == [m EXCEPT !.past = <<>>, !.present = keep, !.sql = None]

\* reset_to_replayed
Reset(m, keep) == [With(m, keep, <<>>, <<>>) EXCEPT !.sql = None]

\* rebind
Rebind(m) == [m EXCEPT !.view = 0, !.sql = None]

-----------------------------------------------------------------------------
(* Driving a change. *)

\* What is under way when the lane is interrupted: a statement of its last
\* change that is executing, of whichever table.
Hits(l) == IF l # 0 /\ task[l].at \in {"create", "count"} THEN {0, l} ELSE {0}

Of(t) == {i \in Ids : task[i] # None /\ task[i].t = t}

\* What a change of table t finds under way: crossed, it stops another
\* table's; unstopped, it leaves one of the same table's running, whose
\* statement was waiting for the connection; reused, it names its view as one
\* of the model before this.
Amiss(t, hit) ==
  [u \in Tables |-> mishaps[u]
     \cup (IF hit # 0 /\ u # t /\ task[hit].t = u THEN {"crossed"} ELSE {})
     \cup (IF u = t /\ Of(t) \ {hit} # {} THEN {IF vm[t] = None THEN "reused" ELSE "unstopped"} ELSE {})]

Begin(t, r, hit) ==
  LET id == CHOOSE i \in Free : TRUE
      new == [t |-> t, name |-> r.vm.view, sql |-> r.vm.sql, prev |-> r.prev, rows |-> 0,
              at |-> IF r.vm.view = 0 THEN "count" ELSE "create"]
  IN  /\ task' = [i \in Ids |-> IF i = id THEN new ELSE IF i = hit THEN None ELSE task[i]]
      /\ lane' = id

\* start_view_change: supersede, claim the lane, and a task.
Start(t, r) ==
  IF r.display THEN UNCHANGED <<task, lane, mishaps>>
  ELSE \E hit \in Hits(lane) : Begin(t, r, hit) /\ mishaps' = Amiss(t, hit)

\* change_on: the table's model, or a new one, changed, and the change driven.
Model(t) == IF vm[t] = None THEN New ELSE vm[t]
ChangeOn(t, m) ==
  LET r == Regenerate(m) IN
  /\ vm' = [vm EXCEPT ![t] = r.vm]
  /\ Start(t, r)

Drive(t, m) ==
  Move /\ ChangeOn(t, m) /\ UNCHANGED <<views, bound, rows, refresh, editing, reads, asked, ready, unkept>>

Apply(t, op) == Drive(t, Checkpoint(Model(t), Append(Model(t).present, op)))
Upsert(t, op) == Drive(t, Upserted(Model(t), op))
Undo(t) == Model(t).past # <<>> /\ Drive(t, Undone(Model(t)))
Redo(t) == Model(t).future # <<>> /\ Drive(t, Redone(Model(t)))

\* jump_to and remove_at; clearing a filter removes it.
JumpTo(t, k) ==
  k < Len(Model(t).present) /\ Drive(t, Checkpoint(Model(t), SubSeq(Model(t).present, 1, k)))
RemoveStep(t, i) ==
  i \in DOMAIN Model(t).present /\ Drive(t, Checkpoint(Model(t), RemoveAt(Model(t).present, i)))

\* An edit's rows are named by the ids in the pages of what the grid shows,
\* which are read first where they are not in memory.
EditBegin(t) ==
  /\ Move
  /\ editing' = editing \cup {[t |-> t, rows |-> IF bound[t] = None THEN rows[t] ELSE bound[t].rows]}
  /\ UNCHANGED <<vm, views, bound, task, lane, rows, refresh, reads, asked, ready, mishaps, unkept>>

\* The change is driven when they are all there, on whatever model the table
\* has then; a page that cannot be read, or a session gone, and it is dropped.
EditEnd(e) ==
  /\ Free # {} /\ editing' = editing \ {e}
  /\ \/ /\ ready
        /\ \E n \in {e.rows, rows[e.t]} :
             LET m == Model(e.t)
                 g == Regenerate(Checkpoint(m, Append(m.present, Edit(n))))
                 late == n # rows[e.t] /\ \A r \in refresh : r.t # e.t \/ r.at = "reading"
             IN  /\ vm' = [vm EXCEPT ![e.t] = g.vm]
                 /\ \E hit \in Hits(lane) :
                      /\ Begin(e.t, g, hit)
                      /\ mishaps' = [Amiss(e.t, hit) EXCEPT ![e.t] = @ \cup IF late THEN {"late"} ELSE {}]
     \/ UNCHANGED <<vm, task, lane, mishaps>>
  /\ UNCHANGED <<views, bound, rows, refresh, reads, asked, ready, moves, unkept>>

-----------------------------------------------------------------------------
(* A task of a change, and the statements it waits for. *)

View(i) == [table |-> task[i].t, name |-> task[i].name]
Named(v, x) == v.table = x.table /\ v.name = x.name
At(i, at) == task' = [task EXCEPT ![i].at = at]
Ended(i) == task' = [task EXCEPT ![i] = None] /\ lane' = IF lane = i THEN 0 ELSE lane

\* An error is shown, and the grid keeps what it has.
Fail(i) ==
  /\ Ended(i) /\ mishaps' = [mishaps EXCEPT ![task[i].t] = @ \cup {"failed"}]
  /\ UNCHANGED <<views, bound>>

\* create_or_replace_view
Create(i) ==
  /\ task[i].at = "create"
  /\ \/ /\ views' = {v \in views : ~Named(v, View(i))}
                       \cup {[table |-> task[i].t, name |-> task[i].name, sql |-> task[i].sql]}
        /\ At(i, "count") /\ UNCHANGED <<bound, lane, mishaps>>
     \/ Fail(i)

\* Mutant: bound whether or not the table still has a model.
MutantBind(i, n) == bound' = [bound EXCEPT ![task[i].t] = [name |-> task[i].name, rows |-> n]]

\* Its last statement back, the grid is bound to the new source, if the table
\* still has a model.  Tasks go on in the order their statements end.
Bind(i, n) ==
  bound' = IF vm[task[i].t] = None THEN bound
           ELSE [bound EXCEPT ![task[i].t] = [name |-> task[i].name, rows |-> n]]

\* GridDataSource::new reads the view, or the table.
Count(i) ==
  LET n == rows[task[i].t] IN
  /\ task[i].at = "count"
  /\ \/ /\ task[i].name = 0 \/ \E v \in views : Named(v, View(i))
        /\ IF task[i].prev = 0 THEN Ended(i) /\ Bind(i, n)
           ELSE /\ task' = [task EXCEPT ![i].at = "drop", ![i].rows = n]
                /\ UNCHANGED <<lane, bound>>
        /\ UNCHANGED <<views, mishaps>>
     \/ Fail(i)

\* The view the change replaced; one that is not there is no error.
DropView(i) ==
  /\ task[i].at = "drop"
  /\ views' = {v \in views : v.table # task[i].t \/ v.name # task[i].prev}
  /\ Ended(i)
  /\ IF task[i].name = None THEN UNCHANGED bound ELSE Bind(i, task[i].rows)
  /\ UNCHANGED mishaps

Step(i) ==
  /\ task[i] # None /\ (Create(i) \/ Count(i) \/ DropView(i))
  /\ UNCHANGED <<vm, rows, refresh, editing, reads, asked, ready, moves, unkept>>

\* The table's last tab is closed: forget.
Forget(t) ==
  /\ Move /\ vm[t] # None
  /\ vm' = [vm EXCEPT ![t] = None] /\ bound' = [bound EXCEPT ![t] = None]
  /\ task' = IF vm[t].view = 0 THEN task
             ELSE [task EXCEPT ![CHOOSE i \in Free : TRUE] =
                     [t |-> t, name |-> None, sql |-> None, prev |-> vm[t].view, rows |-> 0, at |-> "drop"]]
  /\ UNCHANGED <<views, lane, rows, refresh, editing, reads, asked, ready, mishaps, unkept>>

-----------------------------------------------------------------------------
(* Live Refresh. *)

Marked(t, what) == [mishaps EXCEPT ![t] = @ \cup what]
Refreshed(t) == \E r \in refresh : r.t = t

\* split_replayable
Replayable(stack) == Retain(stack, {op \in ToSet(stack) : op.kind # "edit"})

\* refresh: when edits would go the user is asked first, and nothing else
\* happens in the window till then.  reimport begins with how the file was
\* read.
Refresh(t) ==
  /\ Move
  /\ refresh' = refresh \cup {[t |-> t, keep |-> Replayable(Model(t).present),
                             read |-> reads[t], at |-> "reading"]}
  /\ mishaps' = Marked(t, IF Refreshed(t) THEN {"overlapped"} ELSE {})
  /\ UNCHANGED <<vm, views, bound, task, lane, rows, editing, reads, asked, ready, unkept>>

\* register_file_as_table: table t's rows are new, and the read recorded a
\* plain one; or they are new, and then there is an error.
Reread(t) == rows' = [rows EXCEPT ![t] = @ + 1] /\ (reads' = [reads EXCEPT ![t] = "plain"] \/ UNCHANGED reads)

\* The file is read again.  After an error, or when it is another table's by
\* now, a banner says so and nothing is replayed.
Reimport(r) ==
  /\ r.at = "reading"
  /\ \/ /\ rows' = [rows EXCEPT ![r.t] = @ + 1]
        /\ reads' = [reads EXCEPT ![r.t] = "plain"]
        /\ refresh' = (refresh \ {r}) \cup {[r EXCEPT !.at = "shaping"]}
        /\ UNCHANGED mishaps
     \/ /\ rows' = [rows EXCEPT ![r.t] = @ + 1] /\ UNCHANGED reads
        /\ refresh' = refresh \ {r} /\ mishaps' = Marked(r.t, {"unreplayed"})
     \/ \E u \in Tables \ {r.t} :
          Reread(u) /\ refresh' = refresh \ {r} /\ mishaps' = Marked(u, {"unreplayed", "misread"})
     \/ refresh' = refresh \ {r} /\ UNCHANGED <<rows, reads, mishaps>>
  /\ UNCHANGED <<vm, views, bound, task, lane, editing, asked, ready, moves, unkept>>

\* open_paths, of a file that has a table: it is read into it again, as a drop
\* reads one, and the views of the table hear nothing of it.
DropAgain(t) ==
  /\ Move /\ Reread(t)
  /\ asked' = [asked EXCEPT ![t] = IF reads' = reads THEN @ ELSE "plain"]
  /\ mishaps' = Marked(t, {"unreplayed"} \cup (IF Refreshed(t) THEN {"overlapped"} ELSE {}))
  /\ UNCHANGED <<vm, views, bound, task, lane, refresh, editing, ready, unkept>>

\* Mutant: the plain read stays recorded.
MutantReplay(r) ==
  /\ r.at = "shaping" /\ Free # {}
  /\ refresh' = refresh \ {r} /\ UNCHANGED reads
  /\ IF ready THEN ChangeOn(r.t, Reset(Model(r.t), r.keep))
     ELSE mishaps' = Marked(r.t, {"unreplayed"}) /\ UNCHANGED <<vm, task, lane>>
  /\ UNCHANGED <<views, bound, rows, editing, asked, ready, moves, unkept>>

\* replayable_on: all of the steps, or none when the column of one is gone.
ReplayableOn(keep) == {keep} \cup (IF \E op \in ToSet(keep) : op.kind = "filter" THEN {<<>>} ELSE {})

\* The shape is applied, and kept if set_file_read can, and the view rebuilt:
\* Views::replay, which does nothing while the window has no session.
Replay(r) ==
  /\ r.at = "shaping" /\ Free # {}
  /\ refresh' = refresh \ {r}
  /\ \/ reads' = [reads EXCEPT ![r.t] = r.read] /\ UNCHANGED unkept
     \/ UNCHANGED reads /\ unkept' = unkept \cup {r.t}
  /\ \/ ready /\ \E keep \in ReplayableOn(r.keep) : ChangeOn(r.t, Reset(Model(r.t), keep))
     \/ ~ready /\ mishaps' = Marked(r.t, {"unreplayed"}) /\ UNCHANGED <<vm, task, lane>>
  /\ UNCHANGED <<views, bound, rows, editing, asked, ready, moves>>

-----------------------------------------------------------------------------
(* A save. *)

\* use_follow_session, the session gone: nothing is bound.
SaveBegin ==
  /\ Move /\ ready' = FALSE
  /\ bound' = [t \in Tables |-> None]
  /\ UNCHANGED <<vm, views, task, lane, rows, refresh, editing, reads, asked, mishaps, unkept>>

\* rebind_all: each table's change is started before any has run.
RebindAll ==
  LET Changed == {t \in Tables : vm[t] # None}
      r == [t \in Changed |-> Regenerate(Rebind(vm[t]))]
      id == CHOOSE f \in [Changed -> Free] : IsInjective(f)
      Due(t) == [t |-> t, name |-> r[t].vm.view, sql |-> r[t].vm.sql, prev |-> 0, rows |-> 0,
                 at |-> IF r[t].vm.view = 0 THEN "count" ELSE "create"]
  IN  /\ Cardinality(Changed) <= Cardinality(Free)
      /\ mishaps' = [t \in Tables |-> IF Of(t) = {} THEN mishaps[t] ELSE mishaps[t] \cup {"unstopped"}]
      /\ vm' = [t \in Tables |-> IF t \in Changed THEN r[t].vm ELSE None]
      /\ IF Changed = {} THEN UNCHANGED <<task, lane>>
         ELSE \E hit \in Hits(lane), last \in Changed :
           /\ task' = [i \in Ids |-> IF \E t \in Changed : id[t] = i
                                     THEN Due(CHOOSE t \in Changed : id[t] = i)
                                     ELSE IF i = hit THEN None ELSE task[i]]
           /\ lane' = id[last]

Alone == task = [i \in Ids |-> None] /\ refresh = {} /\ editing = {} /\ bound = [t \in Tables |-> None]

\* The session lands: in an engine of its own, once nothing held the old one,
\* or, after a wait, in that.
SaveEnd ==
  /\ ~ready /\ ready' = TRUE
  /\ (Alone /\ views' = {}) \/ UNCHANGED views
  /\ RebindAll
  /\ UNCHANGED <<bound, rows, refresh, editing, reads, asked, moves, unkept>>

Init ==
  /\ vm = [t \in Tables |-> None] /\ views = {} /\ bound = [t \in Tables |-> None]
  /\ task = [i \in Ids |-> None] /\ lane = 0
  /\ rows = [t \in Tables |-> 0] /\ refresh = {} /\ editing = {}
  /\ reads = [t \in Tables |-> "shaped"] /\ asked = reads /\ unkept = {}
  /\ ready = TRUE /\ moves = 0 /\ mishaps = [t \in Tables |-> {}]

Next ==
  \/ \E t \in Tables :
       \/ Apply(t, Rename) \/ EditBegin(t) \/ Undo(t) \/ Redo(t) \/ Forget(t) \/ Refresh(t) \/ DropAgain(t)
       \/ \E op \in Upserts : Upsert(t, op)
       \/ \E k \in 0 .. MaxMoves : JumpTo(t, k) \/ RemoveStep(t, k)
  \/ \E i \in Ids : Step(i)
  \/ \E e \in editing : EditEnd(e)
  \/ \E r \in refresh : Reimport(r) \/ Replay(r)
  \/ SaveBegin \/ SaveEnd

Spec == Init /\ [][Next]_vars

-----------------------------------------------------------------------------
(* Properties. *)

\* The type of every variable; no more is kept to undo and redo than the cap.
TypeOK ==
  /\ vm \in [Tables -> ViewModel \cup {None}]
  /\ bound \in [Tables -> [name : Nat, rows : Nat] \cup {None}]
  /\ task \in [Ids -> Task \cup {None}]
  /\ \A t \in Tables : vm[t] # None =>
       /\ Len(vm[t].past) + Len(vm[t].future) <= Cap
       /\ (vm[t].view = 0 <=> vm[t].present = <<>>)
  /\ lane \in {0} \cup {i \in Ids : task[i] # None} /\ rows \in [Tables -> Nat] /\ moves \in 0 .. MaxMoves

Idle(t) == ready /\ Of(t) = {} /\ ~Refreshed(t)

\* Once its changes have run a grid shows its table's stack over its table's
\* rows, and one whose tab was closed nothing: unless a statement failed, a
\* change came while another was under way that its interrupt did not reach, or
\* reached and should not have, or the rows were read again with no replay.
Shown ==
  \A t \in Tables : Idle(t) /\ mishaps[t] \subseteq {"overlapped"} =>
    IF vm[t] = None THEN bound[t] = None ELSE
    /\ bound[t] # None => bound[t].rows = rows[t]
    /\ IF vm[t].present = <<>> THEN bound[t] = None \/ bound[t].name = 0
       ELSE bound[t] # None /\ [table |-> t, name |-> bound[t].name, sql |-> Compiled(vm[t].present)] \in views

\* The rows an edit was made in are the rows it is shown in, or would be if it
\* were undone or redone: edits name rows by ids that a re-import makes anew.
\* Whatever is done while the file is read, but for an edit that began on the
\* old rows and ends after, and a file read again with no replay, whose steps
\* stay as they were: dropped again, read and then an error, found to be
\* another table's, or refreshed while a save had the session.
EditsOnTheirRows ==
  \A t \in Tables : Idle(t) /\ vm[t] # None /\ mishaps[t] \cap {"unreplayed", "late"} = {} =>
    \A stack \in {vm[t].present} \cup ToSet(vm[t].past) \cup ToSet(vm[t].future) :
      \A op \in ToSet(stack) : op.kind = "edit" => op.val = rows[t]

\* A file is read the way it was opened, however often it is refreshed since
\* and whichever refreshes fail; unless it is read again while it is, as the
\* file of another table, or its read could not be recorded.
KeepsRead ==
  \A t \in Tables \ unkept :
    ~Refreshed(t) /\ mishaps[t] \cap {"overlapped", "misread"} = {} => reads[t] = asked[t]
=============================================================================
