------------------------------ MODULE SessionSync ------------------------------
(***************************************************************************)
(* One window and the record of it in its session: tabs and SQL restored   *)
(* once from a session opened again, every later change written back a     *)
(* quarter of a second after it, and files dropped meanwhile.              *)
(*                                                                         *)
(* A tab is known by what it came of: a tab of the session's, a file the   *)
(* user dropped, or a run of the console, which is shown and never         *)
(* recorded.  A file dropped again is read into the table it had, and has  *)
(* one more tab over it.                                                   *)
(*                                                                         *)
(* The task that waits to write holds the session, as do those that open   *)
(* files and restore; a save waits for all of them, and gives up when they *)
(* take long.                                                              *)
(***************************************************************************)
EXTENDS Naturals, Sequences, SequencesExt, Retain

CONSTANTS
  Opened,    \* the tabs of the session the window is opened on
  Files,     \* drops of a file, of which several may be of the same one
  TableOf,   \* the table of each of these
  Results,   \* tabs of console results
  MaxMoves,  \* how often the user changes what the window shows
  Nothing    \* nothing recorded, seen or waiting

ASSUME SyncAssumption ==
  /\ Opened \in Seq(ToSet(Opened)) /\ IsInjective(Opened) /\ MaxMoves \in Nat
  /\ ToSet(Opened) \cap Files = {} /\ Results \cap (ToSet(Opened) \cup Files) = {}
  /\ Nothing \notin [tabs : Seq(ToSet(Opened) \cup Files), active : Nat, sql : Nat]

VARIABLES
  slot,      \* the window's SessionSlot: booting, ready, failed
  saving,    \* a save has the slot: no, waiting (for the session), moving
  rec,       \* what the session holds: tabs, the active one, the SQL
  held,      \* what of these has its table in the database
  tabs,      \* the window's tabs
  active,    \* the active one's place, 0 for none
  sql,       \* the console's text, as a version
  restore,   \* the restoring task: off, due, listing, done
  read,      \* what it read from the session
  seen,      \* what the last render saw
  written,   \* what was last written
  pending,   \* what waits to be written
  pendingOpen, \* files dropped while the session opens
  jobs,      \* open_paths tasks: files still to register, tables to show
  moves,     \* the user's changes so far
  dropped,   \* history: the queues of files taken when a session landed
  made,      \* history: the drops so far
  closed,    \* history: tabs the user closed
  mishaps    \* history: unlisted, a restore could not list the tables;
             \*          replaced, a retry opened a new session in the window;
             \*          brief, a tab was closed before it had been recorded;
             \*          again, a table has two tabs, or had

window  == <<tabs, active, sql>>
writer  == <<seen, written, pending>>
opener  == <<pendingOpen, jobs, dropped, made>>
history == <<closed, mishaps>>
syncVars == <<slot, saving, rec, held, window, restore, read, writer, opener, moves, history>>

Reopened == Opened # <<>>
Restored == ~Reopened \/ restore = "done"
Place(seq, t) == CHOOSE i \in DOMAIN seq : seq[i] = t
Recorded(seq) == Retain(seq, ToSet(seq) \ Results)
Blank == [tabs |-> <<>>, active |-> 0, sql |-> 0]

AsTables(seq) == [i \in DOMAIN seq |-> TableOf[seq[i]]]
SameTabs(r, s) == AsTables(r.tabs) = AsTables(s.tabs) /\ r.active = s.active
InDatabase(t) == \E u \in held : TableOf[u] = TableOf[t]

-----------------------------------------------------------------------------
(* The session lands. *)

\* Mutant: every session that lands is restored, not only the first.
MutantLand ==
  /\ slot = "booting"
  /\ slot' = "ready"
  /\ jobs' = IF pendingOpen = <<>> THEN jobs ELSE jobs \cup {[todo |-> pendingOpen, got |-> <<>>]}
  /\ restore' = "due" /\ pendingOpen' = <<>> /\ saving' = "no"
  /\ dropped' = dropped \cup {pendingOpen}
  /\ UNCHANGED <<rec, held, window, read, writer, made, moves, history>>

\* No task but the save's has the session.
Alone == jobs = {} /\ pending = Nothing /\ restore # "listing"

\* land publishes the slot, then takes the queue, or clears it.  A save that
\* did not get the session in time gives it back, with the tasks that have it.
Land ==
  /\ slot = "booting"
  /\ \/ /\ slot' = "ready" /\ saving' = "no"
        /\ saving = "waiting" => ~Alone
        /\ jobs' = IF pendingOpen = <<>> THEN jobs ELSE jobs \cup {[todo |-> pendingOpen, got |-> <<>>]}
        /\ dropped' = dropped \cup {pendingOpen}
        /\ restore' = IF Reopened /\ restore = "off" THEN "due" ELSE restore
     \/ /\ saving # "waiting"
        /\ slot' = "failed" /\ UNCHANGED <<saving, jobs, dropped, restore>>
  /\ pendingOpen' = <<>>
  /\ UNCHANGED <<rec, held, window, read, writer, made, moves, history>>

\* retry builds what the window was opened for: the session its record is of
\* or, after a save failed, perhaps one with nothing recorded.
Retry ==
  /\ slot = "failed" /\ moves < MaxMoves
  /\ slot' = "booting" /\ saving' = "no" /\ moves' = moves + 1
  /\ IF saving # "no" THEN rec' = Blank /\ mishaps' = mishaps \cup {"replaced"}
     ELSE UNCHANGED <<rec, mishaps>>
  /\ UNCHANGED <<held, window, restore, read, writer, opener, closed>>

\* save, asked for in a window that shows its session: the slot is taken first.
Save ==
  /\ slot = "ready" /\ restore # "due" /\ moves < MaxMoves
  /\ slot' = "booting" /\ saving' = "waiting" /\ moves' = moves + 1
  /\ UNCHANGED <<rec, held, window, restore, read, writer, opener, history>>

\* alone: once no task holds the session it goes, and the console's results
\* with it.
Promote ==
  /\ saving = "waiting" /\ Alone /\ saving' = "moving"
  /\ LET left == Recorded(tabs)
     IN  /\ tabs' = left
         /\ active' = IF left = <<>> THEN 0
                      ELSE IF active # 0 /\ tabs[active] \notin Results THEN Place(left, tabs[active])
                      ELSE IF left = tabs THEN active ELSE 1
  /\ UNCHANGED <<slot, rec, held, sql, restore, read, writer, opener, moves, history>>

-----------------------------------------------------------------------------
(* Files. *)

\* A file whose table a tab was, or is to be, of already: nothing keeps it from
\* having another.
Again(f) == \E t \in ToSet(Opened) \cup made : TableOf[t] = TableOf[f]
Tell(f) ==
  /\ f \notin made /\ made' = made \cup {f}
  /\ mishaps' = IF Again(f) THEN mishaps \cup {"again"} ELSE mishaps

\* open_paths: registered now, queued, or let go with the failed session.
Drop(f) ==
  /\ Tell(f)
  /\ \/ /\ slot = "ready" /\ jobs' = jobs \cup {[todo |-> <<f>>, got |-> <<>>]}
        /\ UNCHANGED pendingOpen
     \/ /\ slot = "booting" /\ pendingOpen' = Append(pendingOpen, f)
        /\ UNCHANGED jobs
  /\ UNCHANGED <<slot, saving, rec, held, window, restore, read, writer, dropped, moves, closed>>

\* handle_one: the file becomes a table, and a tab of the session's; or it is
\* refused, fails, or was cancelled, which leaves the table.  The database works
\* on a thread of its own: the effect that reads the session for a restore runs
\* with the render of its slot, before any file is through.
Register(j) ==
  /\ j.todo # <<>> /\ restore # "due"
  /\ LET f == Head(j.todo)
         k == [j EXCEPT !.todo = Tail(@)]
     IN  \/ /\ held' = held \cup {f}
            /\ rec' = [rec EXCEPT !.tabs = Append(@, f), !.active = Len(rec.tabs) + 1]
            /\ jobs' = (jobs \ {j}) \cup {[k EXCEPT !.got = Append(@, f)]}
         \/ /\ held' \in {held, held \cup {f}}
            /\ jobs' = (jobs \ {j}) \cup {k} /\ UNCHANGED rec
  /\ UNCHANGED <<slot, saving, window, restore, read, writer, pendingOpen, dropped, made, moves, history>>

\* Mutant: a file is shown by itself, in front, once it is registered.
MutantShow(j) ==
  /\ j.todo = <<>>
  /\ jobs' = jobs \ {j}
  /\ tabs' = Reverse(j.got) \o tabs
  /\ active' = IF j.got = <<>> THEN active ELSE 1
  /\ UNCHANGED <<slot, saving, rec, held, sql, restore, read, writer, pendingOpen, dropped, made, moves, history>>

\* The outcomes of the batch become tabs of the window, the last one active.
Show(j) ==
  /\ j.todo = <<>>
  /\ jobs' = jobs \ {j}
  /\ tabs' = tabs \o j.got
  /\ active' = IF j.got = <<>> THEN active ELSE Len(tabs')
  /\ UNCHANGED <<slot, saving, rec, held, sql, restore, read, writer, pendingOpen, dropped, made, moves, history>>

-----------------------------------------------------------------------------
(* Restoring. *)

\* restore reads the session.
RestoreRead ==
  /\ restore = "due" /\ slot = "ready"
  /\ read' = rec /\ sql' = rec.sql
  /\ restore' = IF rec.tabs = <<>> THEN "done" ELSE "listing"
  /\ UNCHANGED <<slot, saving, rec, held, tabs, active, writer, opener, moves, history>>

\* The tables listed, its tabs go before those opened meanwhile; the active tab
\* stays where there is one of those.  Where they cannot be listed it ends.
RestoreList ==
  /\ restore = "listing" /\ restore' = "done"
  /\ \/ LET there == {t \in ToSet(read.tabs) : InDatabase(t)}
            shown == Retain(read.tabs, there)
            was == Len(Retain(SubSeq(read.tabs, 1, read.active), there))
            at == IF read.active # 0 /\ read.tabs[read.active] \in there THEN was ELSE 1
        IN  /\ tabs' = shown \o tabs
            /\ active' = IF shown = <<>> THEN active
                         ELSE IF active # 0 /\ tabs # <<>> THEN active + Len(shown) ELSE at
            /\ UNCHANGED mishaps
     \/ mishaps' = mishaps \cup {"unlisted"} /\ UNCHANGED <<tabs, active>>
  /\ UNCHANGED <<slot, saving, rec, held, sql, read, writer, opener, moves, closed>>

-----------------------------------------------------------------------------
(* Recording. *)

\* What the window holds, without the console's results.
Snapshot ==
  [tabs |-> Recorded(tabs), sql |-> sql,
   active |-> IF active # 0 /\ tabs[active] \notin Results THEN Place(Recorded(tabs), tabs[active]) ELSE 0]

Unchanged == seen # Nothing /\ SameTabs(seen, Snapshot) /\ seen.sql = sql

\* Mutant: recording does not wait for the restore.
MutantObserve ==
  /\ slot = "ready" /\ ~Unchanged
  /\ seen' = Snapshot /\ pending' = Snapshot
  /\ UNCHANGED <<slot, saving, rec, held, window, restore, read, written, opener, moves, history>>

\* The effect: a render that changed something restarts the wait.
Observe ==
  /\ Restored /\ slot = "ready" /\ ~Unchanged
  /\ seen' = Snapshot /\ pending' = Snapshot
  /\ UNCHANGED <<slot, saving, rec, held, window, restore, read, written, opener, moves, history>>

\* Mutant: what was seen last counts as written, though its wait was restarted.
MutantWrite ==
  /\ pending # Nothing
  /\ LET before == IF written = Nothing THEN Blank ELSE seen IN
     rec' = [tabs |-> IF before.tabs = pending.tabs THEN rec.tabs ELSE pending.tabs,
             active |-> pending.active, sql |-> pending.sql]
  /\ written' = pending /\ pending' = Nothing
  /\ UNCHANGED <<slot, saving, held, window, restore, read, seen, opener, moves, history>>

\* write: the parts that differ from what was last written.
Write ==
  /\ pending # Nothing
  /\ LET same == written # Nothing /\ SameTabs(written, pending)
     IN  rec' = [tabs |-> IF same THEN rec.tabs ELSE pending.tabs,
                 active |-> IF same THEN rec.active ELSE pending.active,
                 sql |-> IF written # Nothing /\ written.sql = pending.sql THEN rec.sql ELSE pending.sql]
  /\ written' = pending /\ pending' = Nothing
  /\ UNCHANGED <<slot, saving, held, window, restore, read, seen, opener, moves, history>>

-----------------------------------------------------------------------------
(* The user. *)

\* close_tab and active_after_close.
CloseTab(i) ==
  /\ moves < MaxMoves /\ moves' = moves + 1
  /\ tabs' = RemoveAt(tabs, i)
  /\ active' = CASE active < i -> active
                 [] active > i -> active - 1
                 [] OTHER -> IF Len(tabs) = 1 THEN 0 ELSE IF i = Len(tabs) THEN i - 1 ELSE i
  /\ closed' = closed \cup {tabs[i]}
  /\ mishaps' = IF written # Nothing /\ tabs[i] \in ToSet(written.tabs) THEN mishaps
                ELSE mishaps \cup {"brief"}
  /\ UNCHANGED <<slot, saving, rec, held, sql, restore, read, writer, opener>>

Activate(i) ==
  /\ moves < MaxMoves /\ moves' = moves + 1
  /\ active' = i
  /\ UNCHANGED <<slot, saving, rec, held, tabs, sql, restore, read, writer, opener, history>>

TypeSql ==
  /\ moves < MaxMoves /\ moves' = moves + 1
  /\ sql' = sql + 1
  /\ UNCHANGED <<slot, saving, rec, held, tabs, active, restore, read, writer, opener, history>>

\* show_rows: a run's rows in a tab, or in place of those of the run before.
ShowResult(t) ==
  /\ slot = "ready" /\ moves < MaxMoves /\ moves' = moves + 1
  /\ tabs' = IF t \in ToSet(tabs) THEN tabs ELSE Append(tabs, t)
  /\ active' = Place(tabs', t)
  /\ UNCHANGED <<slot, saving, rec, held, sql, restore, read, writer, opener, history>>

SyncInit ==
  /\ slot = "booting" /\ saving = "no"
  /\ rec = [tabs |-> Opened, active |-> Len(Opened), sql |-> IF Reopened THEN 1 ELSE 0]
  /\ held \in SUBSET ToSet(Opened)
  /\ tabs = <<>> /\ active = 0 /\ sql = 0
  /\ restore = "off" /\ read = Blank
  /\ seen = Nothing /\ written = Nothing /\ pending = Nothing
  /\ pendingOpen = <<>> /\ jobs = {} /\ dropped = {} /\ made = {}
  /\ moves = 0 /\ closed = {}
  /\ mishaps = IF IsInjective(AsTables(Opened)) THEN {} ELSE {"again"}

Work == \E j \in jobs : Register(j) \/ Show(j)

SyncNext ==
  \/ Land \/ Retry \/ Save \/ Promote \/ RestoreRead \/ RestoreList \/ Observe \/ Write \/ Work \/ TypeSql
  \/ \E f \in Files : Drop(f)
  \/ \E i \in DOMAIN tabs : CloseTab(i) \/ Activate(i)
  \/ \E t \in Results : ShowResult(t)

SyncSpec == SyncInit /\ [][SyncNext]_syncVars

-----------------------------------------------------------------------------
(* Properties. *)

\* A tab comes of one thing once: a session's tabs are brought back once and each
\* file dropped gives one tab, however restoring, opening, saving and failing
\* overlap; and the active one is one of them, in the window and in its record.
ShownOnce ==
  /\ IsInjective(tabs) /\ active \in 0 .. Len(tabs)
  /\ rec.active \in 0 .. Len(rec.tabs)

\* A tab the session was opened with leaves its record only if the user closed
\* it or its table is gone: recording never outruns the restore, however slow,
\* whatever is opened and saved meanwhile.
KeepsOpened ==
  [][mishaps' \subseteq {"brief", "again"} =>
       \A t \in ToSet(rec.tabs) \cap ToSet(Opened) :
         t \in ToSet(rec'.tabs) \/ t \in closed \/ t \notin held]_syncVars

\* Files dropped while a session opens, or a save has it, become tabs in the
\* order they were dropped, after the tabs restored, with other files being
\* opened all the while.
InOrder ==
  \A q \in dropped : \A t, u \in ToSet(tabs) :
    \/ \E i, j \in DOMAIN q : i < j /\ q[i] = t /\ q[j] = u
    \/ t \in ToSet(Opened) /\ u \in ToSet(q)
    => Place(tabs, t) < Place(tabs, u)

\* Once nothing waits to be written the session has what the window shows, unless a retry
\* put another session behind it, a restore failed, or a tab was closed within
\* the wait it was opened in: the session was given it when it was registered,
\* and what was last written is compared with a window that lacks it again.  So
\* it is when a file is dropped again, and one of its table's tabs closed.
Follows ==
  slot = "ready" /\ Restored /\ jobs = {} /\ pending = Nothing /\ Unchanged /\ mishaps = {} =>
    AsTables(rec.tabs) = AsTables(Snapshot.tabs) /\ rec.sql = Snapshot.sql
=============================================================================
