# dat0 in TLA+

Specifications of dat0, a desktop data workbench: a Rust process with several
windows, each over an embedded DuckDB database. Paths are relative to the
repository; `core` is `crates/dat0-core/src`, `ui` is `crates/dat0-ui/src`,
`engine` is `crates/dat0-engine/src`.

## The system

One process per user (an flock on a pid file; a second launch forwards its paths
over a socket and exits). All windows run on one UI thread, each a tree of
components whose tasks are futures polled by one executor: windows interleave
only where the code awaits. Beside it run a tokio runtime for engine calls and
sockets, and one thread for the boot sweep.

| Component | State it keeps | Operations | Talks to | What is hard | Correct when |
|---|---|---|---|---|---|
| Sessions and homes (`core/session`, `core/workspace`, `core/recovery_scan.rs`, `ui/workspace_save.rs`, `ui/session_boot.rs`, `ui/components/recovery.rs`) | scratch directory and `.dat0`: database, log, session.json, manifest, lock; a window's slot, engine, in-memory record | new, recover, open workspace, persist, save as workspace, resume, discard, retry, sweep | engine registry, windows, recents | crash between two moves, copies across volumes, rows acted on late, two windows on one home, a save whose reopening fails | recorded work is never lost nor stranded; one engine per home; a record never shrinks |
| Workspace locks (`core/workspace/lock.rs`, `lock_manifest.rs`, `networked.rs`) | `.dat0/lock` (flock), `.dat0/lock.json` | acquire, decide, claim, tombstone | other machines through a synced folder | no write is atomic with a read; records may be stale | two machines hold one workspace only if a user was warned |
| Single instance (`core/app_lock.rs`) | `dat0.pid`, `dat0.sock` | acquire, forward, serve, drop | another process | a start during a stop | at most one instance; a forwarded path is opened |
| Windows and the process bus (`ui/launch.rs`, `core/events.rs`, `core/globals.rs`) | registry of windows, focus, folder held, the receiver's lease | open, close, focus, send | every component | a holder closing with events queued, one notified closing before it runs | the bus always has a drainer while a window is open; events keep their order; windows agree on the theme |
| Session sync (`ui/session_sync.rs`, `ui/state.rs`) | what was seen, what was written, a generation | restore, record | session, grid, console | debounce against close, save and retry; restore against files opened meanwhile | the record follows the window, and never replaces tabs that were not restored |
| Grid data (`core/grid`, `ui/components/grid`) | source bound, page cache, row count, selection | fetch, select, copy, edit | engine | sources replaced under reads, row ids that go stale | a grid shows its table's steps over its table's rows |
| Views and history (`core/view`, `ui/components/grid/views.rs`) | per table: stack, past, future, the view made of it | apply, undo, redo, jump, remove, rebind | engine | a change superseded in any of its statements | an edit is shown in the rows it was made in |
| SQL console (`core/query`, `ui/components/sql_console`) | query tabs, tabs of rows, one run, its guard | run, cancel, open, close, select | engine, session | an interrupt that comes late; tabs closed under a run | a cancelled run never shows its rows; rows are labelled with their run's tab |
| Live refresh (`core/workspace/source_watcher.rs`, `ui/components/live_refresh.rs`) | watched files, re-imports under way | refresh, re-import, shape, replay | engine, views | edits, saves and refreshes during one | a file is read as it was read first |
| Engine (`engine`) | registry of open files, catalog, origins | open, register, replace, execute, interrupt | DuckDB | handles outlive windows; what an operation knew before it had the lock | one engine per file; no file is read over another table |
| Packages (`crates/dat0-format`, `core/package`) | a `.dat0` archive | write, read, diff, replay, unpack | engine | refusing what is damaged | read(write(p)) = p |
| Updates (`core/update`) | downloaded file, installed bundle | check, download, verify, swap | network | swap cut short | a runnable bundle is always installed |
| Small stores (`core/recents`, `core/settings`, `crates/dat0-keychain`) | one JSON file each | read, change, write | every window | concurrent writers | a write loses no other |
| Panes beside the grid (`ui/components/charts`, `ui/components/inspector`, `core/inspector`) | the chart bound to the active tab, each table's picks; the inspector's mode, profiles kept per table and epoch, small charts | pick, save, reopen, toggle, profile | views, engine, Live Refresh | tasks that start again while the old one still ends, columns that are not those of now, a mode left under a profile | a pane at rest shows the active tab as its grid reads it; picks come back with their tab |
| AI, connections, telemetry, shell | requests in flight, consent, layout | | services | superseded answers, consent | an answer is of the current request; nothing leaves without consent |

`PROJECT.json` lists every component with its status, and the hazards with the
line each bites at.

## Modules

| Module | What it is |
|---|---|
| `SessionHomes` | sessions and homes, whole: disk, windows, process, sweep |
| `KeptWork` | what `SessionHomes` promises, without files or windows |
| `SingleInstance` | the pid file, its lock, the socket, and the sweep of an instance that starts |
| `WorkspaceLocks` | a workspace on a synced drive: `lock.json`, the flock, machines, processes and windows |
| `ProcessBus` | the windows of one process, the bus they share under a lease, and each one's own |
| `SessionSync` | a window's tabs and SQL, restored from its session and recorded in it, and files dropped meanwhile |
| `QueryLanes` | the queries of a window on its one connection: console runs, view changes, page reads |
| `ConsoleTabs` | the console's query tabs, and the tabs of rows its runs leave |
| `Console` | `QueryLanes` and `ConsoleTabs` composed: a run is a step of both |
| `EngineTables` | the tables of an engine, the rows and the map that say where they came from |
| `TableViews` | a table's steps and history, the views made of them, Live Refresh, and a save in between |
| `GridCells` | the grid of a window: pages of its source, what is painted, verbs that read rows first, the cell editor |
| `PaneTabs` | what the panes beside the grid read: the active tab, its view, its file's readings |
| `ChartPane` | the charts pane: its binding, the picks kept for each table, the plot, charts saved and opened again |
| `InspectorPane` | the inspector: its two modes, profiles kept per table and epoch, the small charts |
| `MC...` | each of these with the definitions TLC needs: symmetry, model values, `ProcessBus`'s fairness; `MCPanes` has one pane in each behaviour, since they share nothing but the window |
| `Retain` | what `Vec::retain` and `Iterator::filter` leave of a sequence, as a function proofs can use |
| `...Proofs` | the theorems: `SessionHomesProofs`, `LocksProofs` (of `SingleInstance` and `WorkspaceLocks`), `WindowsProofs` (of `ProcessBus` and `SessionSync`), `EngineProofs` (of `EngineTables`, `QueryLanes` and `Console`), `TableViewsProofs`, `GridCellsProofs`, `PanesProofs`; `RetainProofs` has the lemmas about `Retain` |

They meet in the code, and each takes of its neighbours what it needs of them: a
window's slot in `SessionSync` and `TableViews` is the slot of `SessionHomes`,
which may go `Booting` for a save at any time and come back, or fail; a change
in `TableViews` is a `Change` in `QueryLanes`, whose interrupt either reaches what
executes or does not; and a re-import in `TableViews` is an `Import` in
`EngineTables`. `Console` is a composition in TLA+ as well: its actions are
conjunctions of one of each module, and `ConsoleImplementsLanes` and `ConsoleImplementsTabs` are proved.

### SessionHomes

*Disk.* A home is a record of three files, `db`, `wal`, `json`. A file is
`Absent`, `Cut` (a copy left it short) or a set of edits: for `db` and `wal` the
edits committed in it, for `json` the edits whose trace (a tab, a view step, a
history entry) it records. `dir`, `manifest` and `recent` are the directories,
`.dat0/manifest.json`, and membership of the recents list. `xvol` says that the
folder is on another volume, so that `fs::rename` fails and `move_file` copies.

*Windows.* `win` is a window's phase. `opening` lasts from `open_window` until
the first render; `booting` and `waiting` are `SessionSlot::Booting` before and
after session.json is read; `ready` and `failed` are the slot's other values;
`alone` to `aftermath` are the points of `workspace_save::promote` and
`Session::promote_to`. The phases in `Sync` have no await between them and the
next: no other window acts then (`Turn`), though the process may die there. A
closed window's engine may outlive it, on the worker thread its last query runs on:
`lingers` are the homes such engines have, and `LetGo` is the end of one. Until then
the home opens for nobody (`EngineFree`), and the query may still commit an edit.

*Correspondence.* An action is one stretch of a handler between two awaits or
between two system calls that a crash may separate. The names say which:
`Checkpoint` is `alone` and the checkpoint of `promote_to`; `CreateDat0`,
`Rename`, `StartCopy`, `FinishCopy`, `RemoveSource`, `WriteManifest` are
`promote_files`; `Adopt` is `adopt_workspace` with its three ways to fail;
`Aftermath` is what `promote` does then, an engine that is `Ready` taken for a session
nothing was moved of among it; `ReadRecord`, `OpenEngine`, `OpenFails`
are `recover` and `recover_workspace`; `Retry`, `RetryNew`, `CloseWindow`,
`OpenWorkspace`, `OpenOrphan`, `Resume`, the two Discards and the two steps of the
sweep are the handlers of those names. `map` in `PROJECT.json` gives the lines.

*What the environment may do* is the constant `Hazards`, so that a run can ask
one question at a time: `io`, any system call of a save fails; `reopen`, a
home that is free and whole does not open, its database or its record;
`overlap`, a second window is asked for before the first mounts; `stale`, a recovery row is acted on that is
no longer listed. The code excludes none of the four. Crashes are always
allowed, up to `MaxCrashes`.

*Abstracted.* One session and one folder. An engine that lingers on a home which is removed
and made again (a row acted on late is needed for it) is taken to be on the new one. An edit is any committed statement. An
engine that closes checkpoints. Migrations of session.json and files a newer
dat0 wrote are left out; so are Inspect windows, which own no home, and loss of
what the system had acknowledged (a crash is of the process, not of the
machine). The workspace lock is the flock; its
networked record is `WorkspaceLocks`. An edit committed and not
yet in session.json when the process dies with nothing else recorded is what
the boot sweep counts as nothing to recover: no property promises it.

### KeptWork

The edits each home holds, those recorded and not discarded, and the homes some
window works on. An edit leaves only with a home no window works on: by `Discard`,
or by `Sweep`, which also needs that nothing recorded is held by that home alone.
Everything else, a save in all its steps included, is a `Move`, which keeps every edit
in one home or the other. `SessionHomes` implements it with `held` what its databases
hold, log included, and `working` the homes of its ready windows; so a save, a crash in
it or a window closing over it that loses an edit for even one step is an error, be
the edit recorded or not.

### SingleInstance

*State.* A pid file and a socket are known by the launch that made them, since
a name may be unlinked and made again while a process has the old file open, and
a lock is on the file. `pidfile` and `sock` are what the names lead to, `holder`
the flock of each file, `fd` the file a process has open. An instance is three
threads of control: `main`, `serve` (the task that owns the `AppLock`) and the
sweep (`due`). `shown` and `dirs` are the windows it has on a session with
nothing recorded yet, and their directories.

*Correspondence.* `OpenPid` and `TryLock` are `try_acquire`, cut between open and
flock; `Forward` is `forward_open_window`; `Run` is `main` from the lock on and
`run_app` up to the event loop; `ClearStale`, `Bind` and `Accept` are `serve`;
`UnlinkPid`, `UnlinkSock` and `Unlock` are `Drop for AppLock` and the close of its
file, in that order. `Die` is quit or a kill: the event loop never returns
and `manage_window` ends with `process::exit`, so that nothing is dropped, both names
stay, and only the kernel's close releases the lock. A drop is therefore left
to two cases: the task ends because the socket could not be bound (`bind`), and
`main` returns before the event loop (`boot`). `released` remembers that one
happened.

A launch that finds the lock taken and nobody listening is `refused`, and ends: `launch.rs`
has no second try.

*Abstracted.* The pid's text, which nothing reads; what a window does with its
paths; logging, settings and the crash marker of `boot.rs` except that they may
fail. Failures to open the pid file end a launch before it counts.

### WorkspaceLocks

*State.* `rec` is each machine's copy of `.dat0/lock.json`; `fresh` says which
copies are the last one written, `here` which machines have the workspace at all, and
`Sync` is the drive bringing either to another. `flock` is `.dat0/lock`, which no other
machine sees. A window is `asked` while the modal about another machine is up,
`opening`, `retrying` or `saving` from its decision until its session is there, and
`failed` in between. `behind` are the windows whose decision has been overtaken by a write.

*Correspondence.* `Outcomes` is `acquire`; `Open` and `Answer` are
`workspace_open::open` and its modal, `Lock` the flock of `recover_workspace`; `Fail` and
`Retry` are the two arms of `session_boot`, the second of which looks at no record;
`Save` and `Moved` are Save Workspace into a folder, whose lock is taken before there is a
record to read; `Claim` is `claim_lock` of `build` and of `adopted`, `Close` the drop of the
session and its guard, in that order. `Exit` is a quit or a kill, which drop nothing.
`excused` is history: what has happened that the record is no match for.

*Abstracted.* The path guess of `networked.rs`: the folder is always shared. A
conflict copy of the record that a drive makes of two writes is one of them lost.

### ProcessBus

*State.* `life` and `open` are the registry; `holder` has the receiver of the
process bus on lease; `parked`, `permit`, `awake` and `woken` are tokio's
`Notify`, whose permit and queue decide who tries next. `busy` is the window the
holder waits for. `bus` is each window's own.

*Correspondence.* What a task does between two awaits is one action, all windows
being on one thread: `Try` is the loop of `use_window_bus`, `Pass` is `pass_on`,
`Handle` is `handle`, `Mount` and `Close` are a component's mount and drop with
every task it owns, `Post`, `Raise` and `Choose` what sends. Events are of three
kinds by what becomes of them: they open a window, are performed where the
target is, or are told to all. A theme chosen is told to all whether or not the file took it:
`chosen` is the last one, `saved` what the file has.

*Abstracted.* Events addressed to one window go straight to its bus and need no
lease. The queue is unbounded in the code; `MaxPosts` bounds the run.

### SessionSync

*State.* `rec` is what the session holds, `held` the tables its database has; `tabs`,
`active` and `sql` what the window shows; `seen`, `pending` and `written` the three ages of
a snapshot in the debounced effect. `pendingOpen` are the files that wait for the session,
`jobs` the `open_paths` tasks, of which there may be several. A tab is known by what it came
of, and `TableOf` says of which table it is: a file dropped again is another tab of the
same one.

*Correspondence.* `Land` is `session_boot::land`, `Retry`, `Drop`,
`Register`, `Show`, `CloseTab` and `ShowResult` the handlers of those names;
`RestoreRead` and `RestoreList` the two halves of `restore`, before and after it
awaits the tables; `Observe` the effect and `Write` the end of its wait. `Save` takes the
slot at once and waits for the session (`saving`); `Promote` is the end of that wait with
nobody else on it, and the other end is `Land`: the slot goes back, and what was dropped
meanwhile is opened by a job of its own beside those that run. `mishaps` names the
events after which the record does not follow; they are
described below. SQLite files are attached rather than made tables, ahead of
the others: `InOrder` is about the rest.

*Abstracted.* The SQL is a version number. A table that is restored has its data. A write
of the record that fails is left out: it is logged, and the next change writes all of it.

### QueryLanes, ConsoleTabs, Console

*State.* `at`, `left` and `result` follow a query through its statements; `conn` is
whose statement executes, `slot` the engine's one `inflight` token, `run` the
console's guard. `early` and `stray` are history: runs cancelled before their
last statement, and whether an interrupt reached another query than it was meant
for. In `ConsoleTabs` a view has the place of the query tab it was run in.

*Correspondence.* `Begin`, `End`, `InterruptScoped` and `InterruptViews` are the
engine's; `Lock` and `Return` the blocking task of every statement; `Run`,
`Cancel`, `GoOn` and `Finish` are `run`, `cancel`, `rows` and `finish` of the
console's host; `Change` and `Changed` are `start_view_change`; `Read` is `page_for`.

*Abstracted.* Of a view change, the drop of the old view, whose failure is none.
SQL text is whether it has rows. A statement may fail at any time.

### EngineTables

*State.* A table is known by where its data is from: `db` says it of the database,
`meta` of the rows of `__dat0_meta_origins`, `origins` of the map in memory, `tabbed` of
the tabs, which name their files. Names are `1 .. Last`, the files' common stem and its
suffixed forms. Rows are best effort in the code: `unkept` are the names whose row could not
be written or removed.

*Correspondence.* `Call` is what an operation does before it has the connection's
lock (an import copies the map), `Import`, `Create`, `Drop`, `Rename` and `Half`
what it does under it, `Land` the map's turn. `NameFor` is `table_name_for`, `Load` the rows'
reading and pruning. `Execute` is the user's own SQL, `Attach` and `Detach` an attached
database. `Reopen` is a new engine on the file, as after a crash: it reads the rows, and
each tab that is restored then tells it its file (`restore_origin`), whatever the rows say.
`Carry` is a save, which hands the whole map of the old engine to the new one.

*Abstracted.* Files share one stem, the case in which names collide. The engine has
`drop_table` and `rename_table`, which the interface does not call yet. The import wizard,
which reads a file over its own table with other options, is left out.

### TableViews

*State.* `vm` is a table's `ViewModel`: stack, past, future, its view's number and
SQL. `views` are the engine's TEMP views, by name and by the stack they were
compiled of, and `bound` the source of each grid. `task` are the changes under
way, `rows` counts how often a table was read: an edit is known by the reading
whose row ids it names.

*Correspondence.* `Regenerate`, `Checkpoint`, `Undone`, `Redone`, `Upserted`, `Reset`
and `Rebind` are functions of `ViewModel`; `Start` is `start_view_change`, and
`Create`, `Count`, `DropView` the statements of its task; `EditBegin` and
`EditEnd` are `write` of `edits.rs` before and after it awaits row ids;
`Refresh`, `Reimport` and `Replay` are the stages of Live Refresh, `Reimport` with its four
ends: the rows are new; they are new, and then an error; another table had the file; nothing
happened. `DropAgain` is a drop of the same file, which reads it into the table with no
replay. `RebindAll` is what a window does when a save's session lands. `reads` is what the
engine has of how a file is read and `asked` how it was asked for; `unkept` are tables whose
read could not be recorded. `mishaps` is history, each kind of it described below.

*Abstracted.* A filter stands for a sort and every other step that changes rows,
a rename for those that change only what is displayed.

### GridCells

*State.* `made` are the sources built so far, each a table, the orders its rows may come
in (more than one where a sort leaves ties, which it breaks anew for every page) and
the reading of its file it was built over; `cache` is each one's pages, last used
first. `shown`, `top` and `painted` are what the last render had; `fetching` the tasks
that read ahead, `editor` the cell editor, `verbs` the copies, cuts and commits that
are still reading their rows. `done` remembers what the last of them came to.

*Correspondence.* `PageFor`, `Get` and `Put` are the cache's; `Rendered` a render,
`ReadAhead` the effect after it and `Fetch` its task; `Switch` and `Show` are a tab's
choice and the shell's resource, which may build a source of the same table again, `Land` the end of a change of a view, `Reread` Live
Refresh, `Header` whatever goes through `Views::change`. `Begin`, `Read`, `Stop`, `Again`
and `Finish` the verbs of `edits.rs`: a row whose page is in memory is read without
a wait, so that one step reads the rows at hand that are on one page (`Beside`), or
fails (`Stop`). `Open`, `Type`, `Commit` and `Escape` are the editor; `MaySkip` and `MayWrite` are what its
comparison of texts can come to, `Again` the second reading of a cut's rows.

*Abstracted.* One column, whose texts all differ. The order of a view's rows is a
rotation, and tied rows may come in either of two. How a view is made is `TableViews`, and that statements queue for the
connection is `QueryLanes`: here a read may fail at any time.

### PaneTabs, ChartPane, InspectorPane

*State.* Of the window a pane sees `active`, `live` (whether there is a session),
`reads` (what each grid reads, the number of a view), `cols` and `rows` (the columns and
the reading of each file), `reread`, how many readings its tab was told of, and `owed`, how
many it is still to be told of; `known` is the reading it was told of last. A chart
is the columns picked; `kept` is each table's. A profile is its mode, the view and the
reading it is of. `want`, `lost`, `strayed`, `mixed`, `failed` and `unmade` are history.

*Correspondence.* A resource of the interface is a task that starts again when a signal
it read changes. It does so when its turn comes, until when the old one may still
end: `rebind`, `replot` and `again` say that it is due, `describe`, `plot` and `task`
what the old one is at. `Rebind` and `Described` are the binding resource before and
after its await, `Bind` the effect that follows either, `Keep` and `ChartFor` its parts;
`Replot` and `Plotted` are the second one. `Configure`, `Save`, `Reopen` and `Show` are
the handlers of those names. `Reprofile`, `Profiled` or `Unprofiled`, and `Extra` are the
inspector's resource; `BarsOf` is `set_target`, `Fresh` `bump_epoch`, `ToggleMode`
`toggle_mode` with the reload after it. `PaneTabs` is the rest of the window.

*Abstracted.* A plot or profile is of any reading between its question and its answer.
The load ids of the inspector's model are left out: a restart cancels the old task,
so that what it writes presents the last id. A chart's type and its axes are one set.
How a view is made and bound is `TableViews`; queries, drawing, export and lineage
are left out, and so is a console run that replaces the rows of its tab.

## Runs

| Run | Instance | Checks |
|---|---|---|
| `homes_save` | `io`, either volume, a remembered folder, two windows, two edits, one crash | `WorkKept`, `UnderLock`, `LiveHomeStays`, `WorkOffered`, `RecordGrows`, and `KeptSpec`, that `KeptWork` is implemented |
| `homes_settle` | every hazard, no edit, either volume, either memory of recents, one crash, fairness | `OneOwner`, `Settles` |
| `homes_reuse` | `reopen`, one edit, no crash | `NotReused`, which TLC finds violated: see below |
| `instances` | three launches, `bind`, `boot`, fairness | `OneInstance`, `Reachable`, `Answered` |
| `locks` | two machines, two windows and two pids each, every step | `HeldKnowingly`, `CleanRelease` |
| `bus` | three windows, two openings, a command, two themes, two posts, fairness | `TypeOK`, `NobodyAsleep`, `InTurn`, `Agree`, `Forwarded` |
| `sync` | a session of two tabs, two files of which one is the first tab's again, one result, three moves | `ShownOnce`, `InOrder`, `Follows`, `KeepsOpened` |
| `console` | two runs, one view change, one page read, two query tabs | `CancelHeard`, `Labelled`, `RowsRan` |
| `tables` | two names, two files, two operations at once, five calls | `Known`, `KeepsData` |
| `views` | two tables, two values, a cap of two, three moves, three tasks | `TypeOK`, `Shown`, `EditsOnTheirRows`, `KeepsRead` |
| `cells` | three rows of a page each, a cache of two, two sources, one read ahead, a cut, three moves | `TypeOK`, `Filled`, `WholeBlock`, `AsTyped` |
| `panes` | two tables, two columns, four moves | `PicksKept`, `DrawnIsAsked`, `Inspected` |

*Bounds.* Every run of `SessionHomes` has two windows: at most two
can hold a session's home between two awaits, and windows are otherwise alike. Two
edits: a home, a log and a record differ by one at a time,
and the second tells a lost edit from an empty database. One crash reaches
every file state a save can leave. `homes_settle` has no edit, since what is
left to settle turns on which files are there; a log to move is in `homes_save`.
Three launches are one that stops, one that lost
against it and one that starts, the smallest case in which a file without a name
is locked. In `locks` a second window of a machine meets the first's flock, and a
second pid makes both a reused one and one that is not; a state in which both
properties are excused, which it then stays, is not looked beyond (`Unexcused`). Three
windows in `bus` are a holder that closes, one notified that closes before it runs, and one
left; two posts are two of any kind in either order, with the windows' own events
beside them. In `sync` two files are what an order needs, and three moves a save, a
retry and a change in any order. In `console` two runs make the second the
heir of the first's tab, guard and slot, with a view change to displace it. In
`tables` two operations are an overlap, and five calls a table that is made,
renamed, shadowed by an attached one and read over. In `views` three moves are an
edit, a change and a refresh, which is what the hardest of its properties relates.
In `cells` a page is a row, so that three rows outgrow a cache of two, the
least that a render of rows in two pages needs; the code has `PAGE_ROWS` 1024 and
`LRU_CAPACITY` 64. Four moves in `panes` are a pick, a tab's switch and its return with a
refresh between, or a mode's toggle and its return around the same.

*Deadlock* is checked in `locks` alone, where every state has a next one. Elsewhere the system really may stop: the
user has closed every window, or has made the last of the run's moves.

*Fairness.* `Settles` assumes strong fairness of a window's save and boot steps and weak
fairness of the sweep's. A ready future is polled, every wait of a save or a
boot has a deadline (`alone` 5 s, `build_engine_when_free` 10 s), and the
sweep's thread is the system's to schedule. It is strong because windows share
one thread: another window between two awaits disables a step for a moment, and
may do so again and again. `Answered` assumes weak fairness of each process and of
each line an instance has been sent, `Forwarded` that a task that can go on is
polled and that a window asked for mounts: all are the scheduler's. Of users,
crashes and failures nothing is assumed.

*Mutants.* Each property of a passing run has a mutant: an operator of the module,
named `Mutant...`, that changes one mapped definition as a slip in that code
would, and under which TLC finds the property violated.

## Where the code does not do what it says

Several properties name what they except: a hazard, an excuse, a mishap. Each
exception is something the code does. Each was found by stating the property
without it and reading TLC's counterexample; a reader can do the same with the
run of the module or the constants given here.

| Statement without the exception | What TLC shows | Words it is against |
|---|---|---|
| `NotReused`, as `homes_reuse` (the run, and a finding of `PROJECT.json`) | a save that fails where the moved database is opened again leaves its session on a temporary engine; `promote` sees that engine `Ready` and gives the session back to the window (`ui/workspace_save.rs:171`) | `core/session/mod.rs:549`: it must not be reused |
| `EditsOnTheirRows` and `Shown` without `unreplayed` | a file dropped again, or read again with an error after its table was replaced, leaves the steps on the new rows | `ui/components/grid/refresh.rs:5-8` |
| `EditsOnTheirRows` without `late` | an edit whose row ids are still being read ends after a Live Refresh and names rows of the new reading by ids of the old | `ui/components/grid/refresh.rs:5-8` |
| `LeftAsItWas`, as `cells` | the editor opens empty on a cell whose page has not come, and leaving it writes the empty text; it does so too when another source was given under it; and after a Live Refresh an editor nobody typed in writes the text it opened on, which the cell no longer has | `ui/components/grid/edits.rs:115-117` |
| `HeadersToo`, as `cells` | between a tab's choice and its source's landing, a click in the header shown changes the other tab's view | `ui/components/grid/views.rs:40-42` |
| `PicksKept` without `lost` | a description that failed counts as no columns (`unwrap_or_default`), so that every pick goes though no column has; a chart opened again on a pane that has the columns of an earlier reading drops picks the table now has | `ui/components/charts/host.rs:247`, `ui/components/inspector/host.rs:234` |
| `Inspected` without `strayed` | a mode's toggle drops one table's profile: another tab comes back with the profile of the mode left | `ui/components/inspector/host.rs:12-15` |
| `Inspected` without `mixed` | the old task's next small chart lands between a toggle to current view and the restart | `core/inspector/model.rs:78-79` |
| `Inspected` without `Untold` | a whole table profile is kept though the file was dropped again, or read again with an error at the end | `ui/components/inspector/host.rs:10-13` |
| `DrawnIsAsked` without `Untold` | after the same the plot stays on the old rows: the binding restarts only for what a tab's grid is told of | `ui/components/charts/host.rs:90-92` |
| `WorkOffered` without `Incomplete => recent`, `Remembered = {FALSE}`, one crash | an interrupted save is looked for only in recent folders, which the folder is not yet | `core/recovery_scan.rs` |
| `WorkOffered` without `json # Cut`, `Volumes = {TRUE}`, one crash | after Resume over a short session.json the folder neither opens nor is listed | `core/workspace/promote.rs` |
| `DiscardSparesOpen`, `Hazards = {"stale"}`, one crash | Discard of an interrupted save does not look again whether it has been opened since | `ui/components/recovery.rs:121` |
| `RecordGrows` without `RetryNew`, as `homes_save` | Retry of a scratch window opens a new session and writes its empty record over the old one's | `ui/session_boot.rs:452` |
| `LiveHomeStays`, `Hazards = {"overlap"}`, one crash | two Opens of one orphan pass the check that it is not live | `ui/launch.rs:487` |
| `Answered` without `refused`, as `instances` | a second launch between an instance's lock and its bind fails: it tries once | `core/app_lock.rs:80-81`: the caller takes it for a race, and a brief retry may succeed |
| `SweepSparesWindows`, as `instances` | an instance that cannot bind its socket drops its lock and stays; the next one sweeps the directory under its window | `ui/launch.rs:130-133`: a failed listener must not take the running instance down |
| `Scoped`, two runs and two changes in `QueryLanes` | the slot names the query that began last, the interrupt stops whatever executes: a superseded change that waits for the lock has the page read, run or change ahead of it stopped | `core/view/spawn.rs:8-14`, `core/query/mod.rs:67-69` |

The exceptions, module by module, and what each stands for:

- `SessionHomes`: `WorkOffered` excepts an interrupted save of a folder that is not in
  recents, and a short session.json; `RecordGrows` a Retry of a scratch window.
- `SingleInstance`: `released`, an `AppLock` was dropped by a process that goes on, which
  one that could not bind its socket does; `refused`, as above.
- `WorkspaceLocks`: `raced`, two machines decide on copies that have not met;
  `retried`, a window that had failed claims the folder over a record that came since;
  `unclaimed`, the record could not be written, which `session_boot` logs and goes on
  from; `unread`, a malformed record opens as if there were none; `warned`, the user went on;
  `quit`, a process that quits leaves its record standing, which only `CleanRelease` excepts.
  The drop of a guard tombstones whichever record is there (`lock_manifest.rs:109`): after a
  `raced`, `retried` or `warned` opening it is the other machine's, which `CleanRelease` shows
  does no harm to who comes later, while `HeldKnowingly` no longer holds: that
  machine's lock has been marked free under it.
- `SessionSync`: `unlisted`, a restore that cannot list the tables returns, recording
  begins with none and writes that over the session's tabs, which is what the
  comment at `session_sync.rs:64-66` says recording waits to avoid; `replaced`, a Retry
  put another session behind the window; `brief`, a tab closed within a quarter of a
  second of being opened stays in the record; `again`, a file was dropped again, and of its
  table's two tabs one is closed: a record that names tables cannot say which. Only
  `Follows` excepts the last two. That the second drop gives a second tab is the code's
  behaviour; `ShownOnce` says that each drop gives one.
- `ProcessBus`: `Forwarded` excepts a process whose workbench windows are all closed
  while the settings window is open: it stays alive, answers a second launch, and
  nothing drains its files until there is a window again (`launch.rs:347`). `Agree` excepts
  `missed`: a theme that could not be saved is told to every window all the same, and a window
  that opens after shows the one of the file.
- `Console`: `spoilt`, a query tab's view has been made again by a run that is under way, or
  that failed or was cancelled before its rows were counted: the tab of rows the run before
  left then reads a view that is not its own, and keeps that run's label. `Labelled` and
  `RowsRan` except such tabs.
- `EngineTables`: `unkept`, above; `masked`, names an attached table has had. `loose`, names of
  which nothing is promised: the user's SQL has changed the table; an operation failed
  with the table half made; a drop or a rename raced with another operation; or an engine
  opened again was told something else than the row: an older tab's file, though the
  table has been made anew since (`session_sync.rs:245`), or a row that had not been kept.
  `raced`: an import decides on a copy of the map taken before it has the lock
  (`duckdb_engine.rs:474`), so that one which a drop, a rename or SQL overtakes can read over
  a table that has become another file's.
- `TableViews`: `crossed`, a change of one table stops another table's, since the lane
  is the engine's; `unstopped`, a change superseded while it waited for the lock runs
  all the same, and may bind its grid last; `reused`, the model of a table closed and opened
  again numbers its views from one, the numbers of a change still under way; `failed`, a
  statement failed, and the grid keeps its old source under the new steps; `overlapped`, a
  table is read again while it is; `late`, an edit began on the old rows and ended on the
  new; `unreplayed`, a file was read again with nobody told, or while a save had the session;
  `misread`, a refresh found the file to be another table's, and read that one; `unkept`,
  above. `Shown` excepts all but `overlapped` and `unkept`, `EditsOnTheirRows` `late` and `unreplayed`, `KeepsRead`
  `overlapped`, `misread` and `unkept`. Of a table nothing excepted is said again: no later
  refresh clears a mishap.
- `GridCells`: `gaps`, pages in view that could not be read or were dropped for others,
  which stay blank until the next scroll; `late`, a file read again under a verb, whose
  row ids are then of the old rows; `moved`, another source given under an open editor; `gone`,
  the page of the cell left was no longer in memory; and sources whose rows may come in more
  than one order: pages read apart then repeat or skip tied rows, and a cut may remove others
  than it copied (`render.rs:316-327`).
- `ChartPane` and `InspectorPane`: `lost`, `strayed` and `mixed` as above; `Untold`, a file read
  again with nobody told; `unmade`, a view
  whose making failed after a refresh leaves a pane with the reading before; `failed`, a
  profile that could not be had leaves the one before in place. `Inspected` says
  whose small charts are, not of which reading: a column's that is not fetched again after
  a refresh stays, and none is fetched when a kept profile is shown.

## Theorems

Each is for every value of its module's constants, and rests on that module's
named assumption alone, which says that model values are distinct and bounds are
numbers. Where `Hazards` is a constant the table says which it covers. Every
preservation proof has one step per action.

| Theorem | For | Module |
|---|---|---|
| `TypeCorrect`: `[]TypeOK` | any hazards | `SessionHomesProofs` |
| `OneOwnerAlways`: `[]OneOwner` | any hazards | `SessionHomesProofs` |
| `UnderLockAlways`: `[]UnderLock` | not `stale` | `SessionHomesProofs` |
| `WorkKeptAlways`: `[]WorkKept` | `io` at most | `SessionHomesProofs` |
| `LiveHomeAlways`: `[]LiveHomeStays` | `io` at most | `SessionHomesProofs` |
| `ImplementsKeptWork`: `KeptSpec` | `io` at most | `SessionHomesProofs` |
| `RecordGrowsAlways`: `RecordGrows` | `io` at most | `SessionHomesProofs` |
| `WorkOfferedAlways`: `[]WorkOffered` | `io` at most | `SessionHomesProofs` |
| `LaunchTypeCorrect`: `[]LaunchTypeOK` | any hazards | `LocksProofs` |
| `OneInstanceAlways`: `[]OneInstance` | any hazards | `LocksProofs` |
| `ReachableAlways`: `[]Reachable` | any hazards | `LocksProofs` |
| `LocksTypeCorrect`, `OnePerMachineAlways`, `HeldKnowinglyAlways`, `CleanReleaseAlways` | any machines, windows, pids | `LocksProofs` |
| `BusTypeCorrect`, `NobodyAsleepAlways`, `AgreeAlways`, `InTurnAlways` | any windows, events | `WindowsProofs` |
| `ShownOnceAlways`, `InOrderAlways`, `FollowsAlways`, `KeepsOpenedAlways`: `KeepsOpened` | any session, files, results, changes | `WindowsProofs` |
| `LanesTypeCorrect`, `NewestInSlotAlways`, `GuardAlways`, `CancelHeardAlways` | any runs, changes, reads | `EngineProofs` |
| `ConsoleImplementsLanes`, `ConsoleImplementsTabs`: `ConsoleSpec => Spec`, `T!Spec` | any runs, changes, reads, tabs | `EngineProofs` |
| `ConsoleTypeCorrect`, `LabelledAlways`, `RowsRanAlways` | any runs, changes, reads, tabs | `EngineProofs` |
| `TablesTypeCorrect`, `KnownAlways`, `KeepsDataAlways` | any names, files, operations | `EngineProofs` |
| `ViewsTypeCorrect`, `KeepsReadAlways`, `EditsOnTheirRowsAlways`, `ShownAlways` | any finite set of tables, any values, tasks, cap | `TableViewsProofs` |
| `CellsTypeCorrect`, `FilledAlways`, `WholeBlockAlways`, `AsTypedAlways` | any tables, rows, pages, limits, moves; a window of a page and a row at most | `GridCellsProofs` |
| `PicksKeptAlways`, `DrawnIsAskedAlways`, `InspectedAlways` | any tables, columns, moves | `PanesProofs` |

*Types.* `TypeOK` is not inductive: `Commit` and `CloseWindow` write the home a
window's engine is in, so `TypeInv` adds `HasEngine`, that a window which may
commit has one.

*Owners.* `OwnerInv` extends `OneOwner` to the phases in which a window has its
engine for good (`ready`, `alone`, `clean`). In the others it may share a home
for a moment, which is what `EngineFree` waits for. It says so of a closed window's engine
that lingers as well.

*Locks.* `LockInv` says phase by phase where the lock is: taken with `.dat0` by a
save, or before the record is read by a boot, and kept while the engine is
there. It also needs that a manifest stands beside a database, so that no
finished workspace is listed as interrupted, nor one whose engine lingers: Discard would
take the lock file away. A late row does that, hence the exclusion of `stale`.

*Work.* `WorkInv` has six parts beside the property. `FilesInv`: what a file names
was made, what a record names was recorded, no file of the scratch directory is
short. `WindowsInv`: at most one window has the session, and it is live from its
first render on. `LingersInv`: a home that a save moves, or a window has gone on with, has no closed
window's engine. `SaveInv`: which files a save has moved, per phase; in
particular that no log is left to move, and that a database being copied is the
only file in `.dat0`. `BesideInv`: recorded work of the scratch database is in
the record beside it or in the other home too, which is why the sweep may go by
the record. `ChoiceInv`: the directory the sweep chose names nothing, and no
window can come to it before it is removed. Each action is then shown to be a
step of `KeptWork`, and `WorkKept` follows from that specification rather than
again from the files. `overlap` breaks the one window, `reopen` the engine and
its record, `stale` the spared directory.

*Records.* `RecordInv` says that a window's session has in memory whatever the record it
will write over names, through a save and a wait for an engine as well, and where a save
that copies has the record. `Uses` makes a home one window's: the scratch directory's
by `WindowsInv`, the folder's by its lock; so no window writes a record another has read.
Discards and a scratch window's Retry apart, every step then keeps what was recorded
(`Grown`). For `WorkOffered`, `ListedInv` adds that a session is live only for a window it
has, after which `BesideInv` says which of the two rows lists an edit.

*Instances.* For any number of launches, from `InstanceAssumption`. `Owned` adds to the
two properties that, until an `AppLock` is dropped, every process that has a pid
file open has the one with the name, and that the task that serves is an
instance's: two instances would then hold the lock of one file, and the name of
the socket is only cleared by the one that serves.

*Workspace locks.* `Flocked`, that an open window's flock is its own, gives
`OnePerMachine`; `Attended` says that windows are of a `dat0` that runs. `HeldKnowingly` needs
`Decided`: while only quits excuse it, the last record is that of whoever has the workspace
open, and a window about to claim, failed ones among them, that no write has overtaken found
no other machine's. A save claims a folder without having looked, for which `Placed` says
that a record is only where the workspace is. `CleanRelease` is
nearly inductive: it needs that who has a guard has written a record (`Written`)
and that fresh copies are one (`OneRecord`).

*Bus.* `Waiting` says that every open window holds the lease, is parked or is awake, no two
of these, and that a free lease with windows parked has been notified to one that has yet
to run: not merely to one that is awake, since an awake window nobody notified may close
and passes nothing on. `ThemeInv` follows a choice: the theme chosen last is the last on the
process bus, or that bus has none and it is the last on the window's own, or neither has one
and the window shows it. Passing an event on moves it from the end of one to the other. `InTurn` follows the openings: what is on the
process bus is the end of what was posted (`Lined`), the openings that have left it, and
no others, are done in the order of their posts (`InLine`), and a command is once on one
window's bus or done once (`Once`).

*Sync.* `SyncInv` has nine parts: its types; how far slot, save and restore can be apart (`Phased`);
that all there is was the session's or dropped, and has a table of its own unless it was
dropped again (`Told`); and six that carry the properties. `Unrestored`: until a session opened again has been
restored nothing of it is shown, written or waits to be, and what it holds is what it was
opened with, unless a retry replaced it. `Brought`: after that each of its tabs is shown or
was closed, and is in what waits to be written; `KeepsOpened` follows, since only a write
takes tabs from a record. `Registered` and `Apart` say where a file can be: it is a table
from the time it is registered, and waits, is opened and is shown once each, so that a tab
restored and one opened meanwhile differ. `Queued` is `InOrder` in motion: the queue, a
job's files to do and its files done are in order, and a file dropped earlier is never still
to come when a later one is done or shown; that a second job runs beside the first does not
disturb it, since a queue is one job's.
`Caught`: what was seen last waits or was written, and what the record has beyond what was
written are files registered since, which are shown or in a job (`Ahead`); at rest there is
no such file that the snapshot lacks. A tab closed before it was recorded breaks it, hence
`brief`, and one of a table with two, hence `again`. What a filter keeps is `Within` the sequence, in its order.

*Lanes.* A run's end retires the token of the guard, so `NewestInSlot` needs
`GuardIsTheRuns`, that the guard is of the run that ends. `EarlyStops` carries a
cancel to the end of its run: it has statements left until it ends, hence ends
as interrupted or failed. The composition needs no invariant of its own, since
each step of `Console` is one of `QueryLanes` and something more; and one of `ConsoleTabs`.
So the invariant of the tabs (`TabsInv`: no two query tabs have one title, `OwnTitles`; the view a tab of
rows has is of a run of the query tab it is labelled with, and no other tab's, `Filed`) is
proved of them alone, and `Labelled` follows. `RowsRan` is about both: `RunsAgree` says that the run
the tabs have under way is the run that is out.

*Tables.* `Doubt` widens `loose` to names an operation under way will make loose.
`RowsRight` is the half of `Known` about rows, `MapRight` the other: no entry says a file its
table is not of, also while an operation has yet to land. `Pending` is what an operation with
no race has left for its landing to make right; `Owned`, that what an import took from
the map still holds as long as nothing races it, whence `KeepsData`. That one not raced is
beside imports and makings only (`Formed`) keeps them apart. `NameFor` is a least element:
its existence comes from the library's theorem that `<` is well-founded on the naturals.

*Views.* `Typed` is the type invariant with what it needs: of the stacks a model goes
through, of tasks, of a binding. `Placed` says of the whole history, undone steps as
well, what `EditsOnTheirRows` says of the present: outside a re-import every edit is
of the rows its table has, unless the mishaps say the replay was late or never
came. `OneView` says that a table has one task that makes its view, and that it is the
model's, or none, and the grid is bound to what the model says; whence `Shown`. A session
back from a save starts a task for every model at once: `OneToOne` gives
them ids of their own, and `AgainIs` what each is to make. What a history drops it drops by
`Retain`, a recursive function: the facts about it (what is kept, in which order,
how it commutes with appending) are proved in `RetainProofs` by taking a least
counterexample, since the library's induction takes an operator and its theorem that `<`
is well-founded takes a set.

*Refresh.* `Carried`: without an overlap one re-import of a table is under way at
most, began with the file's read as it was asked for, and has it to give back.

*Cells.* `GetIs` and `PutIs` say which pages a use and a read leave in a cache. `Dated`: a page in
memory is of a reading between its source's making and now; `Grown`: a source stays
as made and readings only grow, whence a verb that no refresh overtook has read one
reading, and, where its source has one order (`Single`), one order. `ReadSoFar` says of a verb under way that what it has and what it has left are the
rows asked of it, in order and of its source, which `DoneOK` says of the last one that
ended; `Tasked` carries both. `Awaited` is `Filled` in motion: every page in view is in memory, or a
task has it to read, or it is in `gaps`. It needs `TwoPages`: a window no higher than a page and a
row spans two pages, and those are the two the effect asks for.

*Panes.* `PicksKept` needs beside itself the types of what is kept. `DrawnIsAsked` is a
statement about rest, which `Bindings`, `Plots` and `Counted` carry through motion: with no
restart due, what the task is at, or what the pane has, is of the signals as they
are; `Behind` marks a table whose view is still to be made again, or could not be, and a
reading nobody was told of is one later than `known`. The same
holds of the inspector: `Fresher` orders the readings of table, profile and task,
`OfMode` and `BarsHere` say whose profiles and small charts are, and `Followed` that an
inspector with no restart due is on the active tab in its mode.

The type invariants of `SessionHomes`, `SingleInstance` (`LaunchTypeOK`), `WorkspaceLocks`,
`QueryLanes` and `EngineTables` (`TablesTypeOK`), and `OnePerMachine`, `NewestInSlot` and `GuardIsTheRuns`, are proved for
all values, and no run checks them again.

Only model-checked: `Settles`, `Answered` and `Forwarded`, since liveness and
`ENABLED` are beyond the prover.

## Plan

What is left, in this order:

1. The layout of the docks, which is written as `SessionSync` writes.
2. The update's swap, the crash marker and consent, settings and recents.
3. Pure algorithms against reference definitions over bounded inputs: selection
   rectangles, `scroll.rs`, statement splitting, catalog navigation, package diff.

## Not modelled

Wording, colours, rendering, argument parsing, the SQL text dat0 generates and
the wire formats of services are conversions with no state of their own, and
make up most of the code. Packages, lineage and the catalog tree read the engine
and lay out what they find, as do the queries and drawing of charts. AI and connections are requests to
services whose answers are outside. Settings and recents are one file each,
read and written in a call; `ProcessBus` keeps the theme and `SessionHomes` the
recent folder. An update's swap has no recovery to state a property of. Inside
the modelled components, `PROJECT.json` says with each what was left out.
