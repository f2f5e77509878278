---------------------------- MODULE WorkspaceLocks ----------------------------
(***************************************************************************)
(* A workspace in a folder that several machines synchronise: the record   *)
(* .dat0/lock.json, which warns a machine that another has the workspace   *)
(* open, and the flock beside it, which no other machine sees.             *)
(*                                                                         *)
(* Each machine has its own copy of the record; the drive brings the last  *)
(* one written to the others, later.  A machine runs one dat0 at a time.   *)
(* The folder is a workspace from the start or becomes one by a save.      *)
(***************************************************************************)
CONSTANTS
  Machines,  \* the machines the folder is synchronised to
  Slots,     \* the windows a machine's dat0 may have on the workspace
  Pids,      \* process ids of a machine
  None       \* no record, no process, no window

Record == [host : Machines, pid : Pids, tombstoned : BOOLEAN]
ASSUME LocksAssumption ==
  None \notin Pids /\ None \notin Machines \X Slots /\ None \notin Record

Windows == Machines \X Slots
On(w) == w[1]

VARIABLES
  here,    \* the machines whose copy of the folder has a workspace in it
  rec,     \* each machine's copy of lock.json
  fresh,   \* the machines whose copy is the last one written
  pid,     \* the pid of each machine's dat0
  flock,   \* the window that holds each machine's .dat0/lock
  phase,   \* each window: see Phases
  guard,   \* windows whose session holds a LockManifestGuard
  behind,  \* history: windows opened on a copy that is not, or is no longer, the last
  excused  \* history: what has happened that the record is no match for

vars == <<here, rec, fresh, pid, flock, phase, guard, behind, excused>>

Excuses == {"warned",     \* a user opened it anyway
            "raced",      \* a claim was decided on a copy that was not the last
            "retried",    \* so was one made when an opening that failed was tried again
            "unclaimed",  \* the record could not be written
            "quit",       \* a process ended with its record standing
            "unread"}     \* the record could not be read, or is malformed

Live(m) == rec[m] # None /\ ~rec[m].tombstoned

\* The user is asked; the session is being built, also by a save, or again
\* after it failed; it is there.
Opening == {"opening", "saving", "retrying"}
Phases == Opening \cup {"off", "asked", "failed", "open"}

\* Whose window will claim the workspace, as far as it has read.
Deciding == {w \in Windows : phase[w] \in Opening \cup {"asked", "failed"}}

-----------------------------------------------------------------------------
(* The record. *)

\* acquire, a read with no write: what it may find.  The pid of a process of
\* this machine that is gone may be another program's by now.
Outcomes(m) ==
  CASE ~Live(m) -> {"Available"}
    [] Live(m) /\ rec[m].host # m -> {"ConflictForeign"}
    [] OTHER -> {"HeldSameMachine"} \cup (IF rec[m].pid = pid[m] THEN {} ELSE {"Reclaimable"})

\* write: the machine's copy is now the last.  The windows that have decided
\* elsewhere and not yet claimed did so on an older one.
Write(m, r) ==
  /\ rec' = [rec EXCEPT ![m] = r]
  /\ fresh' = {m}
  /\ behind' = {w \in Deciding : w \in behind \/ On(w) # m}

\* Mutant: the record a closing window leaves is not marked.
MutantTombstone(m) == UNCHANGED <<rec, fresh, behind>>

\* tombstone: whatever record is there.
Tombstone(m) ==
  IF rec[m] = None THEN UNCHANGED <<rec, fresh, behind>>
  ELSE Write(m, [rec[m] EXCEPT !.tombstoned = TRUE])

-----------------------------------------------------------------------------
(* Opening. *)

\* What a window claims the workspace on: the copy its machine has by now.
Decide(w) == behind' = IF On(w) \in fresh THEN behind ELSE behind \cup {w}

\* Mutant: a record of another machine is taken for one of a dead process.
MutantOpen(w) ==
  LET m == On(w) IN
  /\ pid[m] # None /\ phase[w] = "off" /\ flock[m] = None /\ m \in here
  /\ phase' = [phase EXCEPT ![w] = "opening"]
  /\ Decide(w)
  /\ UNCHANGED <<here, rec, fresh, pid, flock, guard, excused>>

\* workspace_open::open: a window of this dat0 that has the folder is raised,
\* also one whose session could not be built; else the record decides.  Held on
\* this machine, a banner says so.
Open(w) ==
  LET m == On(w) IN
  /\ pid[m] # None /\ phase[w] = "off" /\ flock[m] = None /\ m \in here
  /\ \A s \in Slots : phase[<<m, s>>] \notin {"failed", "retrying"}
  /\ \/ /\ \E o \in Outcomes(m) \ {"HeldSameMachine"} :
              phase' = [phase EXCEPT ![w] = IF o = "ConflictForeign" THEN "asked" ELSE "opening"]
        /\ UNCHANGED excused
     \/ /\ rec[m] # None
        /\ phase' = [phase EXCEPT ![w] = "opening"]
        /\ excused' = excused \cup {"unread"}
  /\ Decide(w)
  /\ UNCHANGED <<here, rec, fresh, pid, flock, guard>>

\* The modal's two buttons.
Answer(w) ==
  /\ phase[w] = "asked"
  /\ \/ /\ phase' = [phase EXCEPT ![w] = "opening"]
        /\ excused' = excused \cup {"warned"}
        /\ UNCHANGED behind
     \/ /\ phase' = [phase EXCEPT ![w] = "off"]
        /\ behind' = behind \ {w} /\ UNCHANGED excused
  /\ UNCHANGED <<here, rec, fresh, pid, flock, guard>>

Free(w) == IF flock[On(w)] = w THEN [flock EXCEPT ![On(w)] = None] ELSE flock

\* recover_workspace takes the flock, of a workspace that is there.
Lock(w) ==
  /\ phase[w] \in Opening /\ flock[On(w)] = None /\ On(w) \in here
  /\ flock' = [flock EXCEPT ![On(w)] = w]
  /\ UNCHANGED <<here, rec, fresh, pid, phase, guard, behind, excused>>

\* The flock is taken, or what follows it fails: the window stays, and says so.
Fail(w) ==
  /\ phase[w] \in {"opening", "retrying"}
  /\ phase' = [phase EXCEPT ![w] = "failed"] /\ flock' = Free(w)
  /\ UNCHANGED <<here, rec, fresh, pid, guard, behind, excused>>

\* retry: the same opening, without another look at the record.
Retry(w) ==
  /\ phase[w] = "failed" /\ phase' = [phase EXCEPT ![w] = "retrying"]
  /\ UNCHANGED <<here, rec, fresh, pid, flock, guard, behind, excused>>

\* Save Workspace into the folder, of a window that had none: no look at the
\* record, as there is no .dat0 yet.
Save(w) ==
  LET m == On(w) IN
  /\ pid[m] # None /\ phase[w] = "off" /\ flock[m] = None /\ m \notin here
  /\ phase' = [phase EXCEPT ![w] = "saving"]
  /\ flock' = [flock EXCEPT ![m] = w]
  /\ Decide(w)
  /\ UNCHANGED <<here, rec, fresh, pid, guard, excused>>

\* promote: the files are there, under the lock taken for them, or to be opened
\* anew after something later failed.
Moved(w) ==
  /\ phase[w] = "saving" /\ flock[On(w)] = w
  /\ here' = here \cup {On(w)}
  /\ flock' \in {flock, Free(w)}
  /\ UNCHANGED <<rec, fresh, pid, phase, guard, behind, excused>>

\* A window with no session closes; a save fails, and the window has no
\* workspace.
Leave(w) ==
  /\ phase[w] \in Opening \cup {"failed"}
  /\ phase' = [phase EXCEPT ![w] = "off"] /\ flock' = Free(w)
  /\ behind' = behind \ {w}
  /\ UNCHANGED <<here, rec, fresh, pid, guard, excused>>

\* build and adopted, once the session is there: claim_lock writes the record
\* without looking at it again.  One that cannot be written leaves the flock alone.
Claim(w) ==
  LET m == On(w) IN
  /\ phase[w] \in Opening /\ flock[m] = w /\ m \in here
  /\ phase' = [phase EXCEPT ![w] = "open"]
  /\ \/ /\ Write(m, [host |-> m, pid |-> pid[m], tombstoned |-> FALSE])
        /\ guard' = guard \cup {w}
        /\ excused' = excused \cup {e \in {"raced", "retried"} :
                          w \in behind /\ (e = "retried" <=> phase[w] = "retrying")}
     \/ /\ excused' = excused \cup {"unclaimed"}
        /\ behind' = behind \ {w} /\ UNCHANGED <<rec, fresh, guard>>
  /\ UNCHANGED <<here, pid, flock>>

\* The window closes while others of its dat0 stay: the session is dropped,
\* the flock first and then the guard, whose write may fail.
Close(w) ==
  LET m == On(w) IN
  /\ phase[w] = "open"
  /\ phase' = [phase EXCEPT ![w] = "off"]
  /\ flock' = [flock EXCEPT ![m] = None]
  /\ guard' = guard \ {w}
  /\ \/ /\ IF w \in guard THEN Tombstone(m) ELSE UNCHANGED <<rec, fresh, behind>>
        /\ UNCHANGED excused
     \/ /\ w \in guard
        /\ excused' = excused \cup {"unclaimed"} /\ UNCHANGED <<rec, fresh, behind>>
  /\ UNCHANGED <<here, pid>>

-----------------------------------------------------------------------------
(* Processes and the drive. *)

Start(m, p) ==
  /\ pid[m] = None
  /\ pid' = [pid EXCEPT ![m] = p]
  /\ UNCHANGED <<here, rec, fresh, flock, phase, guard, behind, excused>>

\* Quit is process::exit: nothing is dropped, as when the process is killed.
Exit(m) ==
  /\ pid[m] # None
  /\ pid' = [pid EXCEPT ![m] = None]
  /\ flock' = [flock EXCEPT ![m] = None]
  /\ phase' = [w \in Windows |-> IF On(w) = m THEN "off" ELSE phase[w]]
  /\ guard' = {w \in guard : On(w) # m}
  /\ behind' = {w \in behind : On(w) # m}
  /\ excused' = excused \cup (IF \E w \in guard : On(w) = m THEN {"quit"} ELSE {})
  /\ UNCHANGED <<here, rec, fresh>>

\* The drive brings a machine the workspace, with the last record written or
\* with that still to come.
Sync(m) ==
  /\ here # {} /\ here' = here \cup {m}
  /\ \/ /\ m \notin fresh
        /\ \E n \in fresh : rec' = [rec EXCEPT ![m] = rec[n]]
        /\ fresh' = fresh \cup {m}
     \/ m \notin here /\ UNCHANGED <<rec, fresh>>
  /\ UNCHANGED <<pid, flock, phase, guard, behind, excused>>

Init ==
  /\ here \in {{}, Machines}
  /\ rec = [m \in Machines |-> None] /\ fresh = Machines
  /\ pid = [m \in Machines |-> None]
  /\ flock = [m \in Machines |-> None]
  /\ phase = [w \in Windows |-> "off"]
  /\ guard = {} /\ behind = {} /\ excused = {}

Next ==
  \/ \E w \in Windows :
       \/ Open(w) \/ Answer(w) \/ Lock(w) \/ Fail(w) \/ Retry(w) \/ Leave(w)
       \/ Save(w) \/ Moved(w) \/ Claim(w) \/ Close(w)
  \/ \E m \in Machines : Exit(m) \/ Sync(m) \/ \E p \in Pids : Start(m, p)

Spec == Init /\ [][Next]_vars

-----------------------------------------------------------------------------
(* Properties. *)

\* The type of every variable.
TypeOK ==
  /\ here \in SUBSET Machines
  /\ rec \in [Machines -> Record \cup {None}] /\ fresh \in SUBSET Machines
  /\ pid \in [Machines -> Pids \cup {None}]
  /\ flock \in [Machines -> Windows \cup {None}]
  /\ phase \in [Windows -> Phases]
  /\ guard \in SUBSET Windows /\ behind \in SUBSET Windows
  /\ excused \in SUBSET Excuses

Both(w, v) == phase[w] = "open" /\ phase[v] = "open" /\ w # v

\* What the record is for: two windows have the workspace open at once only if
\* a user was warned and went on, two opened or saved it before either's record
\* had come to the other, a record could not be written or read, or a window
\* whose opening had failed tried again without reading the record that had
\* come meanwhile.  Quits, kills, reused pids, failed openings and saves, and
\* windows that close in between make no other way.
HeldKnowingly == excused \subseteq {"quit"} => \A w, v \in Windows : ~Both(w, v)

\* On one machine nothing excuses two: the flock keeps a second window of the
\* same dat0 out, however their openings overlap.
OnePerMachine == \A w, v \in Windows : Both(w, v) => On(w) # On(v)

\* A record that stands is somebody's: unless a process quit or died with the
\* workspace open, the machines that have the last record are not warned of a
\* holder there is no longer, whoever wrote over whose and in whichever order
\* they closed.
CleanRelease ==
  excused \subseteq {"warned", "raced", "retried"} =>
    \A m \in fresh : Live(m) => \E w \in guard : On(w) = rec[m].host
=============================================================================
