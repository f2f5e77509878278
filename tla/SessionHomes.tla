---------------------------- MODULE SessionHomes ----------------------------
(***************************************************************************)
(* One session's work on disk, and the windows that hold it, save it as a  *)
(* workspace, recover it, resume an interrupted save, or discard it.       *)
(*                                                                         *)
(* A session has two possible homes: its scratch directory, and the .dat0  *)
(* directory of the folder it is saved into.  A home holds a database, the *)
(* database's log, and session.json; the .dat0 also holds a manifest and a *)
(* lock file.  Save Workspace moves the files one at a time, by rename or, *)
(* across volumes, by copy and remove, and a crash may fall between any    *)
(* two of its system calls.                                                *)
(*                                                                         *)
(* Work is a set of edits.  A database holds the edits committed to it, a  *)
(* session.json those it records.  Every window runs on one UI thread, so  *)
(* windows interleave only where the code awaits; the boot sweep has a     *)
(* thread of its own.                                                      *)
(***************************************************************************)
EXTENDS Naturals, FiniteSets, Sequences

CONSTANTS
  Windows,      \* the windows that may hold this session, one after another
  Edits,        \* the changes the user may make
  Absent, Cut,  \* no such file; a file a copy left short
  NoWindow,     \* the lock file's holder, when nothing holds it
  Hazards,      \* what the environment may do to this run, of AllHazards
  Volumes,      \* whether the folder is on another volume: the choices
  Remembered,   \* whether the folder is in Recents already: the choices
  MaxCrashes    \* bound: how often the process dies

AllHazards == {"io",      \* a system call of a save fails
               "reopen",  \* a home that is free and whole does not open
               "overlap", \* a second window is asked for before the first mounts
               "stale"}   \* a row is acted on that is no longer listed

ASSUME HomesAssumption ==
  /\ \A s \in SUBSET Edits : s # Absent /\ s # Cut
  /\ Absent # Cut
  /\ NoWindow \notin Windows
  /\ Hazards \subseteq AllHazards
  /\ Volumes \subseteq BOOLEAN /\ Remembered \subseteq BOOLEAN
  /\ MaxCrashes \in Nat

NoEngine == "none"

Homes == {"scratch", "dat0"}
Parts == {"db", "wal", "json"}
File  == {Absent, Cut} \cup SUBSET Edits

\* The order promote_files moves a home's files in.
MoveOrder == <<"db", "wal", "json">>

\* The phases of a save; those with no await between them, during which no
\* other window runs; and the phases of a window.
Sync   == {"create", "move", "copying", "copied", "manifest", "clean", "aftermath"}
Saving == Sync \cup {"alone", "adopt"}
Phases == Saving \cup {"closed", "opening", "booting", "waiting", "ready", "failed"}

VARIABLES
  \* the disk
  file,      \* what each home's files hold
  dir,       \* whether each home's directory exists
  manifest,  \* whether .dat0/manifest.json exists
  recent,    \* whether the folder is in Recents
  xvol,      \* whether the folder is on another volume than the scratch root
  \* the windows
  win,       \* each window's phase
  kind,      \* what each window was opened for, which its Retry opens again
  target,    \* the home a booting window opens
  engine,    \* where each window's engine is
  doc,       \* the record each window's session keeps in memory
  part,      \* which of MoveOrder a save is moving
  adrift,    \* edits committed to a throwaway engine
  lingers,   \* homes a closed window's engine still has, for a query to end
  \* the process
  up,        \* whether it is running
  live,      \* whether the scratch directory's window id is in LIVE_WINDOWS
  roots,     \* the windows registered as holding the folder
  flock,     \* the window holding the lock file
  sweep,     \* the boot sweep's progress over the scratch directory
  rows,      \* what a recovery panel left open shows
  crashes,   \* how often the process has died
  \* history, for the properties only
  made,      \* edits committed
  noted,     \* edits a session.json has recorded
  dropped    \* edits the user discarded

disk  == <<file, dir, manifest, recent, xvol>>
wins  == <<win, kind, target, engine, doc, part, adrift, lingers>>
proc  == <<up, live, roots, flock, sweep, rows, crashes>>
ghost == <<made, noted, dropped>>
vars  == <<disk, wins, proc, ghost>>

-----------------------------------------------------------------------------
(* What the disk holds. *)

Held(f) == IF f \in {Absent, Cut} THEN {} ELSE f

\* What an engine opening home h finds: the file, and its log replayed.
Contents(h) ==
  IF file[h].db \in {Absent, Cut} THEN {} ELSE file[h].db \cup Held(file[h].wal)

Empty == [p \in Parts |-> Absent]

\* Mutant: a missing manifest alone is not an interrupted save.
MutantIncomplete == dir["dat0"] /\ file["dat0"].db = Absent

\* detect_incomplete
Incomplete == dir["dat0"] /\ (~manifest \/ file["dat0"].db = Absent)

\* SessionState::nothing_to_recover, of a record that loads
NothingToRecover(f) == f = {}

\* recoverable_scratch and scan_incomplete_workspaces: the rows the panel lists.
Listed ==
  {r \in {"orphan", "incomplete"} :
     \/ /\ r = "orphan"
        /\ dir["scratch"] /\ ~live
        /\ file["scratch"].json # Absent
        /\ ~NothingToRecover(file["scratch"].json)
     \/ r = "incomplete" /\ recent /\ Incomplete}

\* A row of a panel just opened, or of one left open while things changed.
May(r) == r \in Listed \/ ("stale" \in Hazards /\ r \in rows)

\* Mutant: nothing refuses a second engine.
MutantEngineFree(w, h) == TRUE

\* remember: the folder goes into Recents, unless the list cannot be written.
Remember ==
  \/ recent' = TRUE
  \/ "io" \in Hazards /\ UNCHANGED recent

\* The engine registry (Held::claim): no other window's engine has the file,
\* nor does a closed window's that has a query to end.
EngineFree(w, h) == h \notin lingers /\ \A v \in Windows \ {w} : engine[v] # h

\* No other window is between two awaits of a save.
Turn(w) == up /\ \A v \in Windows \ {w} : win[v] \notin Sync

\* The UI thread is free for an event no window of this session handles.
UIFree == up /\ \A v \in Windows : win[v] \notin Sync

\* Where a window's session persists its record.
RecordHome(w) == IF engine[w] = "dat0" THEN "dat0" ELSE "scratch"

-----------------------------------------------------------------------------
(* Working in a window. *)

\* A statement commits: the edit is in the engine's log.
Commit(w, e) ==
  /\ Turn(w) /\ win[w] = "ready" /\ e \in Edits \ made
  /\ made' = made \cup {e}
  /\ IF engine[w] = "throwaway"
     THEN adrift' = adrift \cup {e} /\ UNCHANGED file
     ELSE /\ file' = [file EXCEPT ![engine[w]].wal = Held(@) \cup {e}]
          /\ UNCHANGED adrift
  /\ UNCHANGED <<dir, manifest, recent, xvol, win, kind, target, engine, doc, part,
                 lingers, proc, noted, dropped>>

\* The session records what its tables show, and persists: a history entry, a
\* tab, a view.
Note(w) ==
  LET seen == IF engine[w] = "throwaway" THEN adrift ELSE Contents(engine[w])
      h == RecordHome(w)
  IN /\ Turn(w) /\ win[w] = "ready" /\ ~(seen \subseteq doc[w])
     /\ dir[h]
     /\ doc' = [doc EXCEPT ![w] = @ \cup seen]
     /\ file' = [file EXCEPT ![h].json = doc[w] \cup seen]
     /\ noted' = noted \cup doc[w] \cup seen
     /\ UNCHANGED <<dir, manifest, recent, xvol, win, kind, target, engine, part, adrift, lingers,
                    proc, made, dropped>>

-----------------------------------------------------------------------------
(* Save Workspace. *)

\* save: the window's slot turns Booting, so that its tasks let the engine go.
StartSave(w) ==
  /\ Turn(w) /\ win[w] = "ready" /\ engine[w] # "dat0" /\ ~dir["dat0"]
  /\ win' = [win EXCEPT ![w] = "alone"]
  /\ UNCHANGED <<disk, kind, target, engine, doc, part, adrift, lingers, proc, ghost>>

\* Mutant: a save moves the files without a checkpoint.
MutantCheckpoint(w) ==
  /\ Turn(w) /\ win[w] = "alone"
  /\ win' = [win EXCEPT ![w] = "create"]
  /\ UNCHANGED <<disk, kind, target, engine, doc, part, adrift, lingers, proc, ghost>>

\* alone, then promote_to's checkpoint: the log goes into the database file,
\* and the engine is flagged closed.  A busy engine, a folder that became a
\* workspace meanwhile or a checkpoint that fails leaves the session as it was.
Checkpoint(w) ==
  /\ Turn(w) /\ win[w] = "alone"
  /\ \/ /\ ~dir["dat0"]
        /\ file' = IF engine[w] = "throwaway" THEN file
                   ELSE [file EXCEPT !["scratch"].db = Contents("scratch"),
                                     !["scratch"].wal = Absent]
        /\ win' = [win EXCEPT ![w] = "create"]
     \/ UNCHANGED file /\ win' = [win EXCEPT ![w] = "ready"]
  /\ UNCHANGED <<dir, manifest, recent, xvol, kind, target, engine, doc, part, adrift, lingers,
                 proc, ghost>>

\* What a failed step of the save leads to: promote_to returns, its lock guard drops, and
\* workspace_save looks at what is on disk.
FailSave(w) ==
  /\ win' = [win EXCEPT ![w] = "aftermath"]
  /\ flock' = IF flock = w THEN NoWindow ELSE flock

\* promote_files: .dat0/lineage, then the workspace lock.
CreateDat0(w) ==
  /\ Turn(w) /\ win[w] = "create"
  /\ \/ /\ dir' = [dir EXCEPT !["dat0"] = TRUE]
        /\ flock' = w
        /\ win' = [win EXCEPT ![w] = "move"]
        /\ part' = [part EXCEPT ![w] = 1]
     \/ "io" \in Hazards /\ FailSave(w) /\ dir' \in {dir, [dir EXCEPT !["dat0"] = TRUE]} /\ UNCHANGED part
  /\ UNCHANGED <<file, manifest, recent, xvol, kind, target, engine, doc, adrift, lingers,
                 up, live, roots, sweep, rows, crashes, ghost>>

\* The file a save is moving, and the phase once it has moved.
Moving(w) == MoveOrder[part[w]]

Moved(w) ==
  IF part[w] < Len(MoveOrder)
  THEN win' = [win EXCEPT ![w] = "move"] /\ part' = [part EXCEPT ![w] = @ + 1]
  ELSE win' = [win EXCEPT ![w] = "manifest"] /\ UNCHANGED part

\* move_file by rename; a log that does not exist is passed over.  The engine's
\* handle follows the database.
Rename(w) ==
  /\ Turn(w) /\ win[w] = "move"
  /\ \/ /\ ~xvol \/ file["scratch"][Moving(w)] = Absent
        /\ Moving(w) = "wal" \/ file["scratch"][Moving(w)] # Absent
        /\ file' = IF file["scratch"][Moving(w)] = Absent THEN file
                   ELSE [file EXCEPT !["dat0"][Moving(w)] = file["scratch"][Moving(w)],
                                     !["scratch"][Moving(w)] = Absent]
        /\ engine' = IF Moving(w) = "db" THEN [engine EXCEPT ![w] = "dat0"] ELSE engine
        /\ Moved(w) /\ UNCHANGED flock
     \/ /\ \/ "io" \in Hazards
           \/ Moving(w) # "wal" /\ file["scratch"][Moving(w)] = Absent
        /\ FailSave(w) /\ UNCHANGED <<file, engine, part>>
  /\ UNCHANGED <<dir, manifest, recent, xvol, kind, target, doc, adrift, lingers,
                 up, live, roots, sweep, rows, crashes, ghost>>

\* move_file across volumes: fs::copy fills the destination, which a process
\* that dies meanwhile (Die) and a copy that fails leave short, ...
StartCopy(w) ==
  /\ Turn(w) /\ win[w] = "move" /\ xvol /\ file["scratch"][Moving(w)] # Absent
  /\ file' = [file EXCEPT !["dat0"][Moving(w)] = file["scratch"][Moving(w)]]
  /\ win' = [win EXCEPT ![w] = "copying"]
  /\ UNCHANGED <<dir, manifest, recent, xvol, kind, target, engine, doc, part, adrift, lingers,
                 proc, ghost>>

FinishCopy(w) ==
  /\ Turn(w) /\ win[w] = "copying"
  /\ \/ win' = [win EXCEPT ![w] = "copied"] /\ UNCHANGED <<file, flock>>
     \/ /\ "io" \in Hazards /\ FailSave(w)
        /\ \E left \in {Absent, Cut} : file' = [file EXCEPT !["dat0"][Moving(w)] = left]
  /\ UNCHANGED <<dir, manifest, recent, xvol, kind, target, engine, doc, part, adrift, lingers,
                 up, live, roots, sweep, rows, crashes, ghost>>

\* ... and only then is the source removed.
RemoveSource(w) ==
  /\ Turn(w) /\ win[w] = "copied"
  /\ \/ /\ file["scratch"][Moving(w)] # Absent
        /\ file' = [file EXCEPT !["scratch"][Moving(w)] = Absent]
        /\ Moved(w) /\ UNCHANGED flock
     \/ /\ "io" \in Hazards \/ file["scratch"][Moving(w)] = Absent
        /\ FailSave(w) /\ UNCHANGED <<file, part>>
  /\ UNCHANGED <<dir, manifest, recent, xvol, kind, target, engine, doc, adrift, lingers,
                 up, live, roots, sweep, rows, crashes, ghost>>

\* The manifest, last.
WriteManifest(w) ==
  /\ Turn(w) /\ win[w] = "manifest"
  /\ \/ /\ manifest' = TRUE
        /\ win' = [win EXCEPT ![w] = "adopt"] /\ UNCHANGED flock
     \/ "io" \in Hazards /\ FailSave(w) /\ UNCHANGED manifest
  /\ UNCHANGED <<file, dir, recent, xvol, kind, target, engine, doc, part, adrift, lingers,
                 up, live, roots, sweep, rows, crashes, ghost>>

\* adopt_workspace: a throwaway engine takes the old one's place, the old one
\* drops, and the engine opens where the database now is.
Adopt(w) ==
  /\ Turn(w) /\ win[w] = "adopt"
  /\ \/ \* opened, and the session persisted in its new home
        /\ EngineFree(w, "dat0") /\ dir["dat0"]
        /\ engine' = [engine EXCEPT ![w] = "dat0"]
        /\ file' = [file EXCEPT !["dat0"].json = doc[w]]
        /\ win' = [win EXCEPT ![w] = "clean"] /\ UNCHANGED flock
     \/ \* no throwaway engine: the session's is still the closed one
        "io" \in Hazards /\ FailSave(w) /\ UNCHANGED <<file, engine>>
     \/ \* opened, but not persisted: the session is a workspace all the same
        /\ "io" \in Hazards /\ EngineFree(w, "dat0") /\ dir["dat0"]
        /\ engine' = [engine EXCEPT ![w] = "dat0"]
        /\ win' = [win EXCEPT ![w] = "ready"] /\ UNCHANGED <<file, flock>>
     \/ \* not opened: the session is left with the throwaway engine, which is
        \* Ready, so workspace_save takes the session for untouched
        /\ "reopen" \in Hazards \/ ~EngineFree(w, "dat0") \/ ~dir["dat0"]
        /\ engine' = [engine EXCEPT ![w] = "throwaway"]
        /\ flock' = IF flock = w THEN NoWindow ELSE flock
        /\ win' = [win EXCEPT ![w] = "ready"] /\ UNCHANGED file
  /\ UNCHANGED <<dir, manifest, recent, xvol, kind, target, doc, part, adrift, lingers,
                 up, live, roots, sweep, rows, crashes, ghost>>

\* The scratch directory goes, best effort, and adopted records the folder.
Clean(w) ==
  /\ Turn(w) /\ win[w] = "clean"
  /\ \/ /\ file' = [file EXCEPT !["scratch"] = Empty]
        /\ dir' = [dir EXCEPT !["scratch"] = FALSE]
     \/ "io" \in Hazards /\ UNCHANGED <<file, dir>>
  /\ Remember
  /\ roots' = roots \cup {w}
  /\ win' = [win EXCEPT ![w] = "ready"]
  /\ UNCHANGED <<manifest, xvol, kind, target, engine, doc, part, adrift, lingers,
                 up, live, flock, sweep, rows, crashes, ghost>>

\* Mutant: a database in .dat0 counts as moved, even beside the original, and
\* what is left in the scratch directory goes.
MutantAftermath(w) ==
  /\ Turn(w) /\ win[w] = "aftermath"
  /\ engine' = [engine EXCEPT ![w] = NoEngine]
  /\ win' = [win EXCEPT ![w] = "booting"]
  /\ target' = [target EXCEPT ![w] = IF file["dat0"].db # Absent THEN "dat0" ELSE "scratch"]
  /\ manifest' = (manifest \/ file["dat0"].db # Absent)
  /\ file' = IF file["dat0"].db # Absent THEN [file EXCEPT !["scratch"] = Empty] ELSE file
  /\ UNCHANGED <<dir, recent, xvol, kind, doc, part, adrift, lingers, proc, ghost>>

\* workspace_save's promote, after a failure: the engine drops.  Where the
\* database has left the scratch directory the save is finished, its session
\* file copied if it stayed behind, and the workspace opened; else the scratch
\* session is.
Aftermath(w) ==
  LET moved == file["dat0"].db # Absent /\ file["scratch"].db = Absent
      copied == [file EXCEPT !["dat0"].json = file["scratch"].json]
      short == [file EXCEPT !["dat0"].json = Cut]
  IN /\ Turn(w) /\ win[w] = "aftermath"
     /\ engine' = [engine EXCEPT ![w] = NoEngine]
     /\ target' = [target EXCEPT ![w] = IF moved THEN "dat0" ELSE "scratch"]
     /\ IF moved /\ file["dat0"].json = Absent /\ file["scratch"].json # Absent
        THEN file' = copied \/ ("io" \in Hazards /\ file' \in {file, short})
        ELSE UNCHANGED file
     /\ \/ /\ win' = [win EXCEPT ![w] = "booting"]
           /\ manifest' = (manifest \/ moved)
        \/ /\ "io" \in Hazards /\ moved /\ ~manifest
           /\ win' = [win EXCEPT ![w] = "failed"]
           /\ UNCHANGED manifest
     /\ UNCHANGED <<dir, recent, xvol, kind, doc, part, adrift, lingers, proc, ghost>>

-----------------------------------------------------------------------------
(* A window opening on a home. *)

\* Mutant: a recovered session's window id is not registered as live.
MutantMount(w) ==
  /\ Turn(w) /\ win[w] = "opening"
  /\ win' = [win EXCEPT ![w] = "booting"]
  /\ roots' = IF kind[w] = "workspace" THEN roots \cup {w} ELSE roots
  /\ UNCHANGED <<disk, kind, target, engine, doc, part, adrift, lingers,
                 up, live, flock, sweep, rows, crashes, ghost>>

\* A window's first render: a session's window id becomes live, a workspace's
\* window holds its folder.
Mount(w) ==
  /\ Turn(w) /\ win[w] = "opening"
  /\ win' = [win EXCEPT ![w] = "booting"]
  /\ live' = (live \/ kind[w] = "recover")
  /\ roots' = IF kind[w] = "workspace" THEN roots \cup {w} ELSE roots
  /\ UNCHANGED <<disk, kind, target, engine, doc, part, adrift, lingers,
                 up, flock, sweep, rows, crashes, ghost>>

\* Mutants: the workspace lock is not waited on; a session.json that does not
\* load leaves the slot Booting.
MutantLockedRead(w) ==
  /\ Turn(w) /\ win[w] = "booting"
  /\ win' = [win EXCEPT ![w] = "waiting"]
  /\ doc' = [doc EXCEPT ![w] = Held(file[target[w]].json)]
  /\ flock' = IF target[w] = "dat0" THEN w ELSE flock
  /\ UNCHANGED <<disk, kind, target, engine, part, adrift, lingers,
                 up, live, roots, sweep, rows, crashes, ghost>>
MutantStuckRead(w) ==
  /\ Turn(w) /\ win[w] = "booting"
  /\ target[w] = "dat0" => dir["dat0"] /\ manifest /\ flock = NoWindow
  /\ file[target[w]].json # Cut
  /\ win' = [win EXCEPT ![w] = "waiting"]
  /\ doc' = [doc EXCEPT ![w] = Held(file[target[w]].json)]
  /\ flock' = IF target[w] = "dat0" THEN w ELSE flock
  /\ UNCHANGED <<disk, kind, target, engine, part, adrift, lingers,
                 up, live, roots, sweep, rows, crashes, ghost>>

\* recover and recover_workspace, up to the engine: the workspace lock and its
\* manifest first, then session.json.  None is an empty session; one that does
\* not parse is an error.
ReadRecord(w) ==
  LET h == target[w]
      locked == h = "dat0" => /\ dir["dat0"] /\ manifest
                              /\ flock = NoWindow
      loads == file[h].json # Cut
  IN /\ Turn(w) /\ win[w] = "booting"
     /\ IF locked /\ loads
        THEN /\ win' = [win EXCEPT ![w] = "waiting"]
             /\ doc' = [doc EXCEPT ![w] = Held(file[h].json)]
             /\ flock' = IF h = "dat0" THEN w ELSE flock
        ELSE /\ win' = [win EXCEPT ![w] = "failed"]
             /\ UNCHANGED <<doc, flock>>
     /\ UNCHANGED <<disk, kind, target, engine, part, adrift, lingers,
                    up, live, roots, sweep, rows, crashes, ghost>>

\* Mutant: the record persisted is a new session's, not the one read.
MutantOpenEngine(w) ==
  LET h == target[w]
  IN /\ Turn(w) /\ win[w] = "waiting"
     /\ EngineFree(w, h) /\ dir[h] /\ file[h].db # Cut
     /\ file' = [file EXCEPT ![h].db = Held(@), ![h].json = {}]
     /\ engine' = [engine EXCEPT ![w] = h]
     /\ win' = [win EXCEPT ![w] = "ready"]
     /\ recent' = (recent \/ h = "dat0")
     /\ roots' = IF h = "dat0" THEN roots \cup {w} ELSE roots
     /\ UNCHANGED <<dir, manifest, xvol, kind, target, doc, part, adrift, lingers,
                    up, live, flock, sweep, rows, crashes, ghost>>

\* The engine opens, once no engine of this process has the file: a database
\* that is not there is made, empty, and a log without one removed.  Then the
\* record read before the wait is persisted, and a workspace's folder put in
\* Recents.
OpenEngine(w) ==
  LET h == target[w]
  IN /\ Turn(w) /\ win[w] = "waiting"
     /\ EngineFree(w, h) /\ dir[h] /\ file[h].db # Cut
     /\ file' = [file EXCEPT ![h] =
                   [db |-> Held(@.db),
                    wal |-> IF @.db = Absent THEN Absent ELSE @.wal,
                    json |-> doc[w]]]
     /\ engine' = [engine EXCEPT ![w] = h]
     /\ win' = [win EXCEPT ![w] = "ready"]
     /\ IF h = "dat0" THEN Remember /\ roots' = roots \cup {w} ELSE UNCHANGED <<recent, roots>>
     /\ UNCHANGED <<dir, manifest, xvol, kind, target, doc, part, adrift, lingers,
                    up, live, flock, sweep, rows, crashes, ghost>>

\* It does not open: another engine kept the file past the wait, the file is
\* short, the directory is gone.  Or it opens and the record cannot be
\* persisted, and the engine drops again.  The window's slot is Failed.
OpenFails(w) ==
  LET h == target[w]
      opens == EngineFree(w, h) /\ dir[h] /\ file[h].db # Cut
  IN /\ Turn(w) /\ win[w] = "waiting"
     /\ \/ ~opens /\ UNCHANGED file
        \/ "reopen" \in Hazards /\ UNCHANGED file
        \/ /\ "reopen" \in Hazards /\ opens
           /\ file' = [file EXCEPT ![h].db = Contents(h), ![h].wal = Absent]
     /\ win' = [win EXCEPT ![w] = "failed"]
     /\ flock' = IF flock = w THEN NoWindow ELSE flock
     /\ UNCHANGED <<dir, manifest, recent, xvol, kind, target, engine, doc, part, adrift, lingers,
                    up, live, roots, sweep, rows, crashes, ghost>>

\* Retry opens again what the window was opened for, ...
Retry(w) ==
  /\ Turn(w) /\ win[w] = "failed" /\ kind[w] # "scratch"
  /\ target' = [target EXCEPT ![w] = IF kind[w] = "recover" THEN "scratch" ELSE "dat0"]
  /\ win' = [win EXCEPT ![w] = "booting"]
  /\ UNCHANGED <<disk, kind, engine, doc, part, adrift, lingers, proc, ghost>>

\* ... which for a scratch window is a new session under its own window id:
\* new_with_id opens whatever database is there, and persists an empty record.
RetryNew(w) ==
  /\ Turn(w) /\ win[w] = "failed" /\ kind[w] = "scratch"
  /\ EngineFree(w, "scratch") /\ file["scratch"].db # Cut
  /\ file' = [file EXCEPT !["scratch"] =
                [db |-> Held(@.db),
                 wal |-> IF @.db = Absent THEN Absent ELSE @.wal,
                 json |-> {}]]
  /\ dir' = [dir EXCEPT !["scratch"] = TRUE]
  /\ engine' = [engine EXCEPT ![w] = "scratch"]
  /\ target' = [target EXCEPT ![w] = "scratch"]
  /\ doc' = [doc EXCEPT ![w] = {}]
  /\ win' = [win EXCEPT ![w] = "ready"]
  /\ UNCHANGED <<manifest, recent, xvol, kind, part, adrift, lingers, proc, ghost>>

\* A window closes.  Its tasks end where they await, its window id is no longer
\* live and its lock is released.  Its engine drops, which checkpoints, at once
\* or, with a query still running on a worker, once that ends.
CloseWindow(w) ==
  LET h == engine[w]
  IN /\ Turn(w) /\ win[w] \notin Sync \cup {"closed", "opening"}
     /\ win' = [win EXCEPT ![w] = "closed"]
     /\ engine' = [engine EXCEPT ![w] = NoEngine]
     /\ doc' = [doc EXCEPT ![w] = {}]
     /\ adrift' = IF h = "throwaway" THEN {} ELSE adrift
     /\ \/ /\ file' = IF h \in Homes /\ file[h].db \notin {Absent, Cut}
                      THEN [file EXCEPT ![h].db = Contents(h), ![h].wal = Absent]
                      ELSE file
           /\ UNCHANGED lingers
        \/ /\ h \in Homes /\ win[w] \in {"ready", "alone"}
           /\ lingers' = lingers \cup {h} /\ UNCHANGED file
     /\ live' = (live /\ kind[w] = "workspace")
     /\ roots' = roots \ {w}
     /\ flock' = IF flock = w THEN NoWindow ELSE flock
     /\ UNCHANGED <<dir, manifest, recent, xvol, kind, target, part,
                    up, sweep, rows, crashes, ghost>>

\* The query ends on its worker thread, whatever the windows do: it may commit
\* an edit nobody waits for, and the engine lets the file go, checkpointed,
\* unless the home was removed meanwhile.
LetGo(h) ==
  /\ up /\ h \in lingers
  /\ lingers' = lingers \ {h}
  /\ \/ /\ file[h].db \notin {Absent, Cut}
        /\ \E last \in {{}} \cup {{e} : e \in Edits \ made} :
             /\ made' = made \cup last
             /\ file' = [file EXCEPT ![h].db = Contents(h) \cup last, ![h].wal = Absent]
     \/ file[h].db \in {Absent, Cut} /\ UNCHANGED <<made, file>>
  /\ UNCHANGED <<dir, manifest, recent, xvol, win, kind, target, engine, doc, part, adrift,
                 proc, noted, dropped>>

-----------------------------------------------------------------------------
(* Opening windows, and the recovery panel. *)

\* A closed window is asked for, unless one asked for before has yet to mount.
NewWindow(w, k, h) ==
  /\ win[w] = "closed"
  /\ "overlap" \in Hazards \/ \A v \in Windows : win[v] # "opening"
  /\ win' = [win EXCEPT ![w] = "opening"]
  /\ kind' = [kind EXCEPT ![w] = k]
  /\ target' = [target EXCEPT ![w] = h]

\* workspace_open: a folder holding a finished workspace opens in a window of
\* its own, unless a window holds it, which is brought forward.
OpenWorkspace(w) ==
  /\ UIFree /\ dir["dat0"] /\ ~Incomplete /\ roots = {}
  /\ NewWindow(w, "workspace", "dat0")
  /\ UNCHANGED <<disk, engine, doc, part, adrift, lingers, proc, ghost>>

\* The panel is opened and left open.
Look ==
  /\ UIFree /\ "stale" \in Hazards /\ rows # Listed
  /\ rows' = Listed
  /\ UNCHANGED <<disk, wins, up, live, roots, flock, sweep, crashes, ghost>>

\* Open, on an orphan: open_window refuses a directory that is live now.
OpenOrphan(w) ==
  /\ UIFree /\ May("orphan") /\ ~live
  /\ NewWindow(w, "recover", "scratch")
  /\ UNCHANGED <<disk, engine, doc, part, adrift, lingers, proc, ghost>>

\* Resume, on an interrupted save: finish_incomplete asks for a database file
\* and writes the manifest; then the folder opens as any workspace does.
Resume(w) ==
  /\ UIFree /\ May("incomplete") /\ file["dat0"].db # Absent
  /\ manifest' = TRUE
  /\ IF roots = {} THEN NewWindow(w, "workspace", "dat0")
     ELSE UNCHANGED <<win, kind, target>>
  /\ UNCHANGED <<file, dir, recent, xvol, engine, doc, part, adrift, lingers, proc, ghost>>

\* Discard, on an orphan: refused if it is live now.  The user gives up what is
\* in no other home.
DiscardOrphan ==
  /\ UIFree /\ May("orphan") /\ ~live /\ dir["scratch"]
  /\ dropped' = dropped \cup (Contents("scratch") \ Contents("dat0"))
  /\ file' = [file EXCEPT !["scratch"] = Empty]
  /\ dir' = [dir EXCEPT !["scratch"] = FALSE]
  /\ rows' = IF "stale" \in Hazards THEN Listed \ {"orphan"} ELSE rows
  /\ UNCHANGED <<manifest, recent, xvol, wins, up, live, roots, flock, sweep, crashes,
                 made, noted>>

\* Discard, on an interrupted save: .dat0 goes, whatever it has become.
DiscardIncomplete ==
  /\ UIFree /\ May("incomplete") /\ dir["dat0"]
  /\ dropped' = IF "incomplete" \in Listed
                THEN dropped \cup (Contents("dat0") \ Contents("scratch")) ELSE dropped
  /\ file' = [file EXCEPT !["dat0"] = Empty]
  /\ dir' = [dir EXCEPT !["dat0"] = FALSE]
  /\ manifest' = FALSE
  /\ flock' = NoWindow
  /\ rows' = IF "stale" \in Hazards THEN Listed \ {"incomplete"} ELSE rows
  /\ UNCHANGED <<recent, xvol, wins, up, live, roots, sweep, crashes, made, noted>>

-----------------------------------------------------------------------------
(* The process. *)

\* It is killed, or quits, which closes no window first: what the disk holds is
\* what the system calls so far left there.
Die ==
  /\ up /\ crashes < MaxCrashes
  /\ crashes' = crashes + 1
  /\ \/ UNCHANGED file
     \/ \E w \in Windows : /\ win[w] = "copying"
                           /\ file' = [file EXCEPT !["dat0"][Moving(w)] = Cut]
  /\ up' = FALSE
  /\ win' = [w \in Windows |-> "closed"]
  /\ engine' = [w \in Windows |-> NoEngine]
  /\ doc' = [w \in Windows |-> {}]
  /\ adrift' = {} /\ lingers' = {}
  /\ live' = FALSE /\ roots' = {} /\ flock' = NoWindow
  /\ sweep' = "done" /\ rows' = {}
  /\ UNCHANGED <<dir, manifest, recent, xvol, kind, target, part, ghost>>

\* main: a first window opens, on a session of its own, while the sweep runs.
Boot ==
  /\ ~up /\ up' = TRUE /\ sweep' = "due"
  /\ UNCHANGED <<disk, wins, live, roots, flock, rows, crashes, ghost>>

\* sweep_scratch comes to the session's directory and decides, ...
SweepDecides ==
  /\ up /\ sweep = "due"
  /\ LET disposable == \/ file["scratch"].json = Absent
                       \/ NothingToRecover(file["scratch"].json)
     IN sweep' = IF dir["scratch"] /\ ~live /\ disposable THEN "chosen" ELSE "done"
  /\ UNCHANGED <<disk, wins, up, live, roots, flock, rows, crashes, ghost>>

\* ... and then removes it.
SweepRemoves ==
  /\ up /\ sweep = "chosen"
  /\ sweep' = "done"
  /\ file' = [file EXCEPT !["scratch"] = Empty]
  /\ dir' = [dir EXCEPT !["scratch"] = FALSE]
  /\ UNCHANGED <<manifest, recent, xvol, wins, up, live, roots, flock, rows, crashes, ghost>>

-----------------------------------------------------------------------------
\* A window on a new scratch session.
Init ==
  /\ file = [h \in Homes |->
              IF h = "scratch" THEN [db |-> {}, wal |-> Absent, json |-> {}] ELSE Empty]
  /\ dir = [h \in Homes |-> h = "scratch"]
  /\ manifest = FALSE
  /\ recent \in Remembered
  /\ xvol \in Volumes
  /\ \E first \in Windows :
       /\ win = [w \in Windows |-> IF w = first THEN "ready" ELSE "closed"]
       /\ engine = [w \in Windows |-> IF w = first THEN "scratch" ELSE NoEngine]
  /\ kind = [w \in Windows |-> "scratch"]
  /\ target = [w \in Windows |-> "scratch"]
  /\ doc = [w \in Windows |-> {}]
  /\ part = [w \in Windows |-> 1]
  /\ adrift = {} /\ lingers = {}
  /\ up = TRUE /\ live = TRUE /\ roots = {} /\ flock = NoWindow
  /\ sweep = "done" /\ rows = {} /\ crashes = 0
  /\ made = {} /\ noted = {} /\ dropped = {}

SaveStep(w) ==
  \/ Checkpoint(w) \/ CreateDat0(w) \/ Rename(w) \/ StartCopy(w) \/ FinishCopy(w)
  \/ RemoveSource(w) \/ WriteManifest(w) \/ Adopt(w) \/ Clean(w) \/ Aftermath(w)

BootStep(w) == Mount(w) \/ ReadRecord(w) \/ OpenEngine(w) \/ OpenFails(w)

Next ==
  \/ \E w \in Windows :
       \/ \E e \in Edits : Commit(w, e)
       \/ Note(w) \/ StartSave(w) \/ SaveStep(w) \/ BootStep(w)
       \/ Retry(w) \/ RetryNew(w) \/ CloseWindow(w)
       \/ OpenWorkspace(w) \/ OpenOrphan(w) \/ Resume(w)
  \/ \E h \in Homes : LetGo(h)
  \/ Look \/ DiscardOrphan \/ DiscardIncomplete
  \/ Die \/ Boot \/ SweepDecides \/ SweepRemoves

Spec == Init /\ [][Next]_vars

\* A task that can run does: the executor polls a window's futures, every wait
\* in them has a deadline, and the sweep's thread is scheduled.  What a user or
\* the environment does is not promised.
Fairness ==
  /\ \A w \in Windows : SF_vars(SaveStep(w)) /\ SF_vars(BootStep(w))
  /\ WF_vars(SweepDecides) /\ WF_vars(SweepRemoves)

FairSpec == Spec /\ Fairness

-----------------------------------------------------------------------------
(* Properties. *)

\* The type of every variable.
DiskOK ==
  /\ file \in [Homes -> [Parts -> File]]
  /\ dir \in [Homes -> BOOLEAN]
  /\ manifest \in BOOLEAN /\ recent \in BOOLEAN /\ xvol \in BOOLEAN
WinsOK ==
  /\ win \in [Windows -> Phases]
  /\ kind \in [Windows -> {"scratch", "recover", "workspace"}]
  /\ target \in [Windows -> Homes]
  /\ engine \in [Windows -> Homes \cup {"throwaway", NoEngine}]
  /\ doc \in [Windows -> SUBSET Edits]
  /\ part \in [Windows -> 1 .. 3]
  /\ adrift \in SUBSET Edits /\ lingers \in SUBSET Homes
ProcOK ==
  /\ up \in BOOLEAN /\ live \in BOOLEAN
  /\ roots \in SUBSET Windows
  /\ flock \in Windows \cup {NoWindow}
  /\ sweep \in {"done", "due", "chosen"}
  /\ rows \in SUBSET {"orphan", "incomplete"}
  /\ crashes \in Nat
GhostOK == made \in SUBSET Edits /\ noted \in SUBSET Edits /\ dropped \in SUBSET Edits

TypeOK == DiskOK /\ WinsOK /\ ProcOK /\ GhostOK

\* Whatever step of a save, of its recovery or of a sweep the process dies or
\* fails in, every edit a session file ever recorded is in the database of one
\* of the two homes, unless the user discarded it.
WorkKept == noted \ dropped \subseteq Contents("scratch") \cup Contents("dat0")

\* No recorded edit is stranded: with the process up, the boot sweep over and
\* no window on either home, what holds it is listed by the recovery panel or
\* is a workspace that opens.
Opens == dir["dat0"] /\ manifest /\ file["dat0"].db \notin {Absent, Cut}
                    /\ file["dat0"].json # Cut
Offered ==
  (IF "orphan" \in Listed THEN Contents("scratch") ELSE {})
    \cup (IF "incomplete" \in Listed \/ Opens THEN Contents("dat0") ELSE {})
WorkOffered ==
  (/\ up /\ sweep = "done" /\ \A w \in Windows : win[w] = "closed"
   /\ (Incomplete => recent) /\ file["dat0"].json # Cut)
    => noted \ dropped \subseteq Offered

\* Two engines never work on one home: a window opened while another's engine
\* has the file, be that window open, saving, or closed with a query still
\* running, waits for it or fails.
OneOwner ==
  \A v \in Windows :
    win[v] = "ready" /\ engine[v] \in Homes =>
      /\ engine[v] \notin lingers
      /\ \A w \in Windows \ {v} : win[w] = "ready" => engine[w] # engine[v]

\* A workspace's engine runs under its lock, through a save that fails, its
\* Retry, and another window opening the folder meanwhile.
UnderLock == \A w \in Windows : win[w] = "ready" /\ engine[w] = "dat0" => flock = w

\* The directory under a working window's engine is never removed: not by the
\* sweep, whose decision and removal are two steps, and not by a Discard.
LiveHomeStays ==
  \A w \in Windows : win[w] = "ready" /\ engine[w] = "scratch" => dir["scratch"]

\* What the session files record is never lost: not by a window that read one
\* before it waited for the engine, not by a save that fails or is copied across
\* volumes, not by its Retry or a crash in it, not by the sweep.  It goes with a
\* home the user discards, and when a scratch window's Retry, which is a new
\* session, persists that one's empty record.
Records == Held(file["scratch"].json) \cup Held(file["dat0"].json)
RecordGrows ==
  [][\/ Records \subseteq Records'
     \/ DiscardOrphan \/ DiscardIncomplete
     \/ \E w \in Windows : RetryNew(w)]_vars

\* The windows, the save and the sweep do what KeptWork promises: an edit leaves
\* the homes only with one no window works on, which the user discards or the
\* sweep removes.  In particular no step of a save, of its failures or of a
\* crash in it loses one, recorded or not.
Working == {engine[w] : w \in {v \in Windows : win[v] = "ready"}} \cap Homes
Kept == INSTANCE KeptWork
          WITH held <- [h \in Homes |-> Contents(h)], noted <- noted \ dropped,
               working <- Working
KeptSpec == Kept!Spec

\* adopt_workspace's comment: after an error past the swap the session is
\* indeterminate and must not be reused, the caller tears the window down.
NotReused == \A w \in Windows : win[w] = "ready" => engine[w] # "throwaway"

\* docs/live-data-recovery.md: Discard removes only the unfinished .dat0 of an
\* interrupted workspace, never a workspace a window has open.
DiscardSparesOpen ==
  [][\A w \in Windows : engine[w] = "dat0" /\ win[w] = "ready" /\ dir["dat0"] => dir'["dat0"]]_vars

\* A window that opens, or whose session is being saved, settles: its slot
\* becomes Ready or Failed, or it closes.
Unsettled == {"opening", "booting", "waiting"} \cup Saving
Settles == \A w \in Windows : win[w] \in Unsettled ~> win[w] \notin Unsettled
=============================================================================
