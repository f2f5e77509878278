------------------------------- MODULE LocksProofs -------------------------------
(***************************************************************************)
(* The two locks that make an owner, each proved for any number of those    *)
(* who want it.  SingleInstance: as long as no AppLock was dropped, one     *)
(* instance runs and the socket's name leads to it.  WorkspaceLocks: one    *)
(* window of a machine has the workspace, two machines have it only when    *)
(* the record could not have told them, and a record that stands is         *)
(* somebody's.                                                              *)
(***************************************************************************)
EXTENDS SingleInstance, WorkspaceLocks, TLAPS


\* What the argument needs of a process: the task that serves belongs to an
\* instance, and a lock nobody dropped is on the one file that has the name,
\* which every process that opened it shares.
Owned(p) ==
  /\ serve[p] \notin {"off", "ended"} => p \in Running
  /\ ~released =>
       /\ serve[p] \notin {"nopid", "nosock", "ended"}
       /\ fd[p] # Nobody => fd[p] = pidfile
       /\ p \in Running => fd[p] # Nobody /\ holder[fd[p]] = p
       /\ Listens(p) => sock = p

LaunchInv == LaunchTypeOK /\ \A p \in Launches : Owned(p)

-----------------------------------------------------------------------------
(* Every variable keeps its type, and a launch about to try has a file. *)

LEMMA LaunchTypeKept == LaunchInv /\ [LaunchNext]_launchVars => LaunchTypeOK'
<1>1. SUFFICES ASSUME LaunchInv, [LaunchNext]_launchVars PROVE LaunchTypeOK'
  OBVIOUS
<1> USE InstanceAssumption
<1>2. ASSUME NEW p \in Launches, OpenPid(p) PROVE LaunchTypeOK'
  BY <1>1, <1>2 DEF LaunchInv, LaunchTypeOK, OpenPid, Running, files, procs
<1>3. ASSUME NEW p \in Launches, TryLock(p) PROVE LaunchTypeOK'
  BY <1>1, <1>3 DEF LaunchInv, LaunchTypeOK, TryLock, Running, files, procs
<1>4. ASSUME NEW p \in Launches, Forward(p) PROVE LaunchTypeOK'
  BY <1>1, <1>4 DEF LaunchInv, LaunchTypeOK, Forward, Running, files, procs
<1>5. ASSUME NEW p \in Launches, Run(p) PROVE LaunchTypeOK'
  BY <1>1, <1>5 DEF LaunchInv, LaunchTypeOK, Run, Running, files, procs
<1>6. ASSUME NEW p \in Launches, ClearStale(p) PROVE LaunchTypeOK'
  BY <1>1, <1>6 DEF LaunchInv, LaunchTypeOK, ClearStale, Running, files, procs
<1>7. ASSUME NEW p \in Launches, Bind(p) PROVE LaunchTypeOK'
  BY <1>1, <1>7 DEF LaunchInv, LaunchTypeOK, Bind, Running, files, procs
<1>8. ASSUME NEW p \in Launches, UnlinkPid(p) PROVE LaunchTypeOK'
  BY <1>1, <1>8 DEF LaunchInv, LaunchTypeOK, UnlinkPid, Running, files, procs
<1>9. ASSUME NEW p \in Launches, UnlinkSock(p) PROVE LaunchTypeOK'
  BY <1>1, <1>9 DEF LaunchInv, LaunchTypeOK, UnlinkSock, Running, files, procs
<1>10. ASSUME NEW p \in Launches, Unlock(p) PROVE LaunchTypeOK'
  BY <1>1, <1>10 DEF LaunchInv, Owned, LaunchTypeOK, Unlock, Running, files, procs
<1>11. ASSUME NEW p \in Launches, Sweep(p) PROVE LaunchTypeOK'
  BY <1>1, <1>11 DEF LaunchInv, LaunchTypeOK, Sweep, Running, files, procs
<1>12. ASSUME NEW p \in Launches, Show(p) PROVE LaunchTypeOK'
  BY <1>1, <1>12 DEF LaunchInv, LaunchTypeOK, Show, Running, files, procs
<1>13. ASSUME NEW p \in Launches, Die(p) PROVE LaunchTypeOK'
  BY <1>1, <1>13 DEF LaunchInv, LaunchTypeOK, Die, Running, files, procs
<1>14. ASSUME NEW p \in Launches, NEW q \in Launches, Accept(p, q) PROVE LaunchTypeOK'
  BY <1>1, <1>14 DEF LaunchInv, LaunchTypeOK, Accept, files
<1>15. CASE UNCHANGED launchVars
  BY <1>1, <1>15 DEF LaunchInv, LaunchTypeOK, launchVars, files, procs
<1>16. QED
  BY <1>1, <1>2, <1>3, <1>4, <1>5, <1>6, <1>7, <1>8, <1>9, <1>10, <1>11, <1>12, <1>13, <1>14, <1>15, <1>15 DEF LaunchNext, Step

-----------------------------------------------------------------------------
(* The lock and the socket stay with the one instance. *)

\* Two instances would hold the lock of the same file.
LEMMA OneRuns ==
  ASSUME \A p \in Launches : Owned(p), ~released,
         NEW p \in Running, NEW q \in Running
  PROVE  p = q
<1>1. p \in Launches /\ q \in Launches
  BY DEF Running
<1>2. fd[p] = pidfile /\ fd[q] = pidfile
  BY <1>1 DEF Owned
<1>3. QED
  BY <1>1, <1>2 DEF Owned

LEMMA OwnedKept == LaunchInv /\ [LaunchNext]_launchVars => \A r \in Launches : Owned(r)'
<1>1. SUFFICES ASSUME LaunchInv, [LaunchNext]_launchVars, NEW r \in Launches PROVE Owned(r)'
  OBVIOUS
<1>2. LaunchTypeOK /\ LaunchTypeOK'
  BY <1>1, LaunchTypeKept DEF LaunchInv
<1>3. Owned(r)
  BY <1>1 DEF LaunchInv
<1>4. \A p, q \in Running : ~released => p = q
  BY <1>1, OneRuns DEF LaunchInv
<1> USE InstanceAssumption
<1>5. ASSUME NEW p \in Launches, OpenPid(p) PROVE Owned(r)'
  BY <1>1, <1>2, <1>3, <1>4, <1>5 DEF LaunchInv, LaunchTypeOK, Owned, OpenPid, Running, Listens, files, procs
<1>6. ASSUME NEW p \in Launches, TryLock(p) PROVE Owned(r)'
  BY <1>1, <1>2, <1>3, <1>4, <1>6 DEF LaunchInv, LaunchTypeOK, Owned, TryLock, Running, Listens, files, procs
<1>7. ASSUME NEW p \in Launches, Forward(p) PROVE Owned(r)'
  BY <1>1, <1>2, <1>3, <1>4, <1>7 DEF LaunchInv, LaunchTypeOK, Owned, Forward, Running, Listens, files, procs
<1>8. ASSUME NEW p \in Launches, Run(p) PROVE Owned(r)'
  BY <1>1, <1>2, <1>3, <1>4, <1>8 DEF LaunchInv, LaunchTypeOK, Owned, Run, Running, Listens, files, procs
<1>9. ASSUME NEW p \in Launches, ClearStale(p) PROVE Owned(r)'
  BY <1>1, <1>2, <1>3, <1>4, <1>9 DEF LaunchInv, LaunchTypeOK, Owned, ClearStale, Running, Listens, files, procs
<1>10. ASSUME NEW p \in Launches, Bind(p) PROVE Owned(r)'
  BY <1>1, <1>2, <1>3, <1>4, <1>10 DEF LaunchInv, LaunchTypeOK, Owned, Bind, Running, Listens, files, procs
<1>11. ASSUME NEW p \in Launches, UnlinkPid(p) PROVE Owned(r)'
  BY <1>1, <1>2, <1>3, <1>4, <1>11 DEF LaunchInv, LaunchTypeOK, Owned, UnlinkPid, Running, Listens, files, procs
<1>12. ASSUME NEW p \in Launches, UnlinkSock(p) PROVE Owned(r)'
  BY <1>1, <1>2, <1>3, <1>4, <1>12 DEF LaunchInv, LaunchTypeOK, Owned, UnlinkSock, Running, Listens, files, procs
<1>13. ASSUME NEW p \in Launches, Unlock(p) PROVE Owned(r)'
  BY <1>1, <1>2, <1>3, <1>4, <1>13 DEF LaunchInv, LaunchTypeOK, Owned, Unlock, Running, Listens, files, procs
<1>14. ASSUME NEW p \in Launches, Sweep(p) PROVE Owned(r)'
  BY <1>1, <1>2, <1>3, <1>4, <1>14 DEF LaunchInv, LaunchTypeOK, Owned, Sweep, Running, Listens, files, procs
<1>15. ASSUME NEW p \in Launches, Show(p) PROVE Owned(r)'
  BY <1>1, <1>2, <1>3, <1>4, <1>15 DEF LaunchInv, LaunchTypeOK, Owned, Show, Running, Listens, files, procs
<1>16. ASSUME NEW p \in Launches, Die(p) PROVE Owned(r)'
  BY <1>1, <1>2, <1>3, <1>4, <1>16 DEF LaunchInv, LaunchTypeOK, Owned, Die, Running, Listens, files, procs
<1>17. ASSUME NEW p \in Launches, NEW q \in Launches, Accept(p, q) PROVE Owned(r)'
  BY <1>3, <1>17 DEF Owned, Accept, Running, Listens, files
<1>18. CASE UNCHANGED launchVars
  BY <1>3, <1>18 DEF Owned, Running, Listens, launchVars, files, procs
<1>19. QED
  BY <1>1, <1>5, <1>6, <1>7, <1>8, <1>9, <1>10, <1>11, <1>12, <1>13, <1>14, <1>15, <1>16, <1>17, <1>18 DEF LaunchNext, Step

-----------------------------------------------------------------------------
LEMMA LaunchInductive == LaunchSpec => []LaunchInv
<1>1. LaunchInit => LaunchInv
  BY InstanceAssumption DEF LaunchInit, LaunchInv, LaunchTypeOK, Owned, Running, Listens
<1>2. LaunchInv /\ [LaunchNext]_launchVars => LaunchInv'
  BY LaunchTypeKept, OwnedKept DEF LaunchInv
<1>3. QED
  BY <1>1, <1>2, PTL DEF LaunchSpec

\* The launches, their files and the record of who listens stay well formed.
THEOREM LaunchTypeCorrect == LaunchSpec => []LaunchTypeOK
<1>1. LaunchInv => LaunchTypeOK
  BY DEF LaunchInv
<1>2. QED
  BY <1>1, LaunchInductive, PTL

\* Two processes never take themselves for the only dat0 at the same time,
\* unless an AppLock was dropped (try_acquire, run_app and the kernel's close
\* of a process's files, against any number of launches).
THEOREM OneInstanceAlways == LaunchSpec => []OneInstance
<1>1. LaunchInv => OneInstance
  BY OneRuns DEF LaunchInv, OneInstance
<1>2. QED
  BY <1>1, LaunchInductive, PTL

\* A launch that finds the lock taken reaches the instance that serves: no
\* other launch, in clearing a stale socket, takes the name of a live one away.
THEOREM ReachableAlways == LaunchSpec => []Reachable
<1>1. LaunchInv => Reachable
  BY DEF LaunchInv, Owned, Reachable
<1>2. QED
  BY <1>1, LaunchInductive, PTL

-----------------------------------------------------------------------------
(* WorkspaceLocks. *)


\* A window is of a dat0 that runs.
Attended == \A w \in Windows : phase[w] # "off" => pid[On(w)] # None

\* Whose window is open, the machine's flock is that window's.
Flocked == \A w \in Windows : phase[w] = "open" => flock[On(w)] = w

\* The machines that have the last record have the same one, and some have it.
OneRecord == (Windows # {} => fresh # {}) /\ \A m, n \in fresh : rec[m] = rec[n]

\* Whose window claims the workspace without another look at the record.
Pending == Opening \cup {"failed"}

\* While nothing but quits excuse it, the last record is that of whoever has the
\* workspace open, and of nobody else when a window is about to claim it that
\* has not been overtaken.
Decided ==
  excused \subseteq {"quit"} =>
    \A n \in fresh, w \in Windows :
      /\ phase[w] = "open" => Live(n) /\ rec[n].host = On(w)
      /\ phase[w] \in Pending /\ w \notin behind => (Live(n) => rec[n].host = On(w))

\* Who holds a guard has written a record, and a record once there stays.
Written ==
  \A w \in guard : rec[On(w)] # None /\ \A n \in fresh : rec[n] # None

\* A record is in a workspace.
Placed == \A m \in Machines : rec[m] # None => m \in here

IInv == TypeOK /\ Attended /\ Flocked /\ OneRecord /\ Placed /\ Decided /\ Written /\ CleanRelease

\* What becomes of a window that has decided, up to its claim.
Boot(w) == Lock(w) \/ Fail(w) \/ Retry(w) \/ Leave(w) \/ Save(w) \/ Moved(w)

-----------------------------------------------------------------------------
(* The record. *)

LEMMA OnType == \A w \in Windows : On(w) \in Machines
BY DEF Windows, On

\* What a write does to the copies.
LEMMA Writes ==
  ASSUME TypeOK, NEW m \in Machines, NEW r \in Record, Write(m, r)
  PROVE  /\ rec' \in [Machines -> Record \cup {None}] /\ fresh' = {m}
         /\ rec'[m] = r /\ r # None
         /\ \A n \in Machines : rec[n] # None => rec'[n] # None
         /\ behind' \in SUBSET Windows
         /\ \A w \in Windows : w \in Deciding /\ On(w) # m => w \in behind'
         /\ \A w \in Windows : w \in Deciding /\ w \in behind => w \in behind'
BY LocksAssumption DEF TypeOK, Write, Deciding

\* A window's session is built, or is not, with nothing said of it elsewhere.
LEMMA Boots ==
  ASSUME TypeOK, NEW w \in Windows, Boot(w)
  PROVE  /\ UNCHANGED <<rec, fresh, pid, guard, excused>>
         /\ here' \in SUBSET Machines /\ here \subseteq here'
         /\ phase' \in [Windows -> Phases] /\ behind' \in SUBSET Windows
         /\ \A v \in Windows : v # w => phase'[v] = phase[v] /\ (v \in behind' <=> v \in behind)
         /\ phase'[w] # "open" /\ phase[w] # "open"
         /\ phase'[w] # "off" => pid[On(w)] # None \/ phase[w] # "off"
         /\ phase'[w] \in Opening \cup {"failed"} /\ w \notin behind' =>
              \/ phase[w] \in Opening \cup {"failed"} /\ w \notin behind
              \/ On(w) \notin here /\ On(w) \in fresh
         /\ flock' \in [Machines -> Windows \cup {None}]
         /\ \A v \in Windows : v # w /\ flock[On(v)] = v => flock'[On(v)] = v
<1> USE OnType, LocksAssumption DEF TypeOK, Free, Opening, Phases
<1>0. \A v \in Windows : v # None
  BY DEF Windows
<1>1. CASE Lock(w)
  BY <1>0, <1>1 DEF Lock
<1>2. CASE Fail(w) \/ Retry(w)
  BY <1>2 DEF Fail, Retry
<1>3. CASE Leave(w) \/ Moved(w)
  BY <1>3 DEF Leave, Moved
<1>4. CASE Save(w)
  BY <1>0, <1>4 DEF Save, Decide
<1> QED
  BY <1>1, <1>2, <1>3, <1>4 DEF Boot

\* The record a closing window leaves is no live one.
LEMMA Tombstones ==
  ASSUME TypeOK, NEW m \in Machines, rec[m] # None
  PROVE  /\ [rec[m] EXCEPT !.tombstoned = TRUE] \in Record
         /\ [rec[m] EXCEPT !.tombstoned = TRUE].tombstoned = TRUE
BY DEF TypeOK, Record

LEMMA Starts == Init => IInv
<1> SUFFICES ASSUME Init PROVE IInv
  OBVIOUS
<1>1. TypeOK
  BY DEF Init, TypeOK, Phases
<1>2. Attended /\ Flocked /\ Placed /\ Decided /\ Written
  BY DEF Init, Attended, Flocked, Placed, Decided, Written, Live, Opening
<1>3. OneRecord /\ CleanRelease
  BY DEF Init, OneRecord, CleanRelease, Live, Windows
<1>4. QED
  BY <1>1, <1>2, <1>3 DEF IInv

-----------------------------------------------------------------------------
(* One step. *)

\* A window that closes writes the record it is the guard of, or writes nothing.
LEMMA Closes ==
  ASSUME TypeOK, NEW w \in Windows, Close(w)
  PROVE  \/ /\ w \in guard /\ rec[On(w)] # None
            /\ \E r \in Record : r.tombstoned = TRUE /\ Write(On(w), r)
            /\ excused' = excused
         \/ /\ UNCHANGED <<rec, fresh, behind>>
            /\ excused' = excused /\ (w \in guard => rec[On(w)] = None)
         \/ UNCHANGED <<rec, fresh, behind>> /\ excused' = excused \cup {"unclaimed"}
<1>1. CASE w \in guard /\ rec[On(w)] # None /\ excused' = excused
  <2>1. CASE Tombstone(On(w))
    BY <1>1, <2>1, OnType, Tombstones DEF Tombstone
  <2>2. CASE ~Tombstone(On(w))
    BY <2>2, <1>1 DEF Close
  <2>3. QED BY <2>1, <2>2
<1>2. CASE ~(w \in guard /\ rec[On(w)] # None /\ excused' = excused)
  BY <1>2 DEF Close, Tombstone
<1>3. QED BY <1>1, <1>2

LEMMA TypeKept == TypeOK /\ Attended /\ [Next]_vars => TypeOK'
<1>1. SUFFICES ASSUME TypeOK, Attended, [Next]_vars PROVE TypeOK'
  OBVIOUS
<1> USE OnType
<1>2. ASSUME NEW w \in Windows, Open(w) PROVE TypeOK'
  BY <1>1, <1>2 DEF TypeOK, Open, Decide, Opening, Phases, Excuses
<1>3. ASSUME NEW w \in Windows, Answer(w) PROVE TypeOK'
  BY <1>1, <1>3 DEF TypeOK, Answer, Opening, Phases, Excuses
<1>4. ASSUME NEW w \in Windows, Boot(w) PROVE TypeOK'
  BY <1>1, <1>4, Boots DEF TypeOK
<1>5. ASSUME NEW w \in Windows, Claim(w) PROVE TypeOK'
  <2>1. /\ phase' \in [Windows -> Phases] /\ here' = here
        /\ pid' = pid /\ flock' = flock /\ guard' \in SUBSET Windows
        /\ excused' \in SUBSET Excuses
    BY <1>1, <1>5 DEF TypeOK, Claim, Phases, Excuses
  <2>2. CASE UNCHANGED <<rec, fresh>> /\ behind' = behind \ {w}
    BY <1>1, <2>1, <2>2 DEF TypeOK
  <2>3. CASE Write(On(w), [host |-> On(w), pid |-> pid[On(w)], tombstoned |-> FALSE])
    <3>1. pid[On(w)] \in Pids \cup {None}
      BY <1>1 DEF TypeOK
    <3>2. CASE pid[On(w)] \in Pids
      <4>1. [host |-> On(w), pid |-> pid[On(w)], tombstoned |-> FALSE] \in Record
        BY <3>2 DEF Record
      <4>2. QED
        BY <1>1, <2>1, <2>3, <4>1, Writes DEF TypeOK
    <3>3. pid[On(w)] # None
      BY <1>1, <1>5 DEF Attended, Claim, Opening
    <3>4. QED BY <3>1, <3>2, <3>3
  <2>4. QED BY <1>5, <2>2, <2>3 DEF Claim
<1>6. ASSUME NEW w \in Windows, Close(w) PROVE TypeOK'
  <2>1. /\ phase' \in [Windows -> Phases] /\ here' = here
        /\ pid' = pid /\ flock' \in [Machines -> Windows \cup {None}] /\ guard' \in SUBSET Windows
        /\ excused' \in SUBSET Excuses
    BY <1>1, <1>6 DEF TypeOK, Close, Phases, Excuses
  <2>2. rec' \in [Machines -> Record \cup {None}] /\ fresh' \in SUBSET Machines /\ behind' \in SUBSET Windows
    <3>1. CASE UNCHANGED <<rec, fresh, behind>>
      BY <1>1, <3>1 DEF TypeOK
    <3>2. CASE \E r \in Record : Write(On(w), r)
      BY <1>1, <3>2, Writes
    <3>3. QED BY <1>1, <1>6, <3>1, <3>2, Closes
  <2>3. QED BY <2>1, <2>2, <1>1 DEF TypeOK
<1>7. ASSUME NEW m \in Machines, Exit(m) PROVE TypeOK'
  BY <1>1, <1>7 DEF TypeOK, Exit, Phases, Excuses
<1>8. ASSUME NEW m \in Machines, Sync(m) PROVE TypeOK'
  BY <1>1, <1>8 DEF TypeOK, Sync
<1>9. ASSUME NEW m \in Machines, NEW p \in Pids, Start(m, p) PROVE TypeOK'
  BY <1>1, <1>9 DEF TypeOK, Start
<1>10. CASE UNCHANGED vars
  BY <1>1, <1>10 DEF TypeOK, vars
<1>11. QED
  BY <1>1, <1>2, <1>3, <1>4, <1>5, <1>6, <1>7, <1>8, <1>9, <1>10 DEF Next, Boot

\* Windows stop with their dat0, and the flock is taken by the window that
\* finds it free.
LEMMA FlockKept == TypeOK /\ Attended /\ Flocked /\ [Next]_vars => Attended' /\ Flocked'
<1>1. SUFFICES ASSUME TypeOK, Attended, Flocked, [Next]_vars PROVE Attended' /\ Flocked'
  OBVIOUS
<1> USE OnType, LocksAssumption
<1>2. ASSUME NEW w \in Windows, Open(w) PROVE Attended' /\ Flocked'
  BY <1>1, <1>2 DEF TypeOK, Attended, Flocked, Open
<1>3. ASSUME NEW w \in Windows, Answer(w) PROVE Attended' /\ Flocked'
  BY <1>1, <1>3 DEF TypeOK, Attended, Flocked, Answer
<1>4. ASSUME NEW w \in Windows, Boot(w) PROVE Attended' /\ Flocked'
  BY <1>1, <1>4, Boots DEF TypeOK, Attended, Flocked
<1>5. ASSUME NEW w \in Windows, Claim(w) PROVE Attended' /\ Flocked'
  BY <1>1, <1>5 DEF TypeOK, Attended, Flocked, Claim, Opening
<1>6. ASSUME NEW w \in Windows, Close(w) PROVE Attended' /\ Flocked'
  BY <1>1, <1>6 DEF TypeOK, Attended, Flocked, Close
<1>7. ASSUME NEW m \in Machines, Exit(m) PROVE Attended' /\ Flocked'
  BY <1>1, <1>7 DEF TypeOK, Attended, Flocked, Exit
<1>8. ASSUME NEW m \in Machines, Sync(m) PROVE Attended' /\ Flocked'
  BY <1>1, <1>8 DEF TypeOK, Attended, Flocked, Sync
<1>9. ASSUME NEW m \in Machines, NEW p \in Pids, Start(m, p) PROVE Attended' /\ Flocked'
  BY <1>1, <1>9 DEF TypeOK, Attended, Flocked, Start
<1>10. CASE UNCHANGED vars
  BY <1>1, <1>10 DEF Attended, Flocked, vars
<1>11. QED
  BY <1>1, <1>2, <1>3, <1>4, <1>5, <1>6, <1>7, <1>8, <1>9, <1>10 DEF Next, Boot

\* What a step may do to the record, for every conjunct about it.
LEMMA Records ==
  ASSUME IInv, [Next]_vars
  PROVE  \/ \E w \in Windows, r \in Record :
              /\ Claim(w) \/ Close(w)
              /\ Write(On(w), r)
         \/ \E m \in Machines : Sync(m)
         \/ rec' = rec /\ fresh' = fresh
<1> USE OnType
<1>1. ASSUME NEW w \in Windows, Claim(w), Write(On(w), [host |-> On(w), pid |-> pid[On(w)], tombstoned |-> FALSE])
      PROVE  \E r \in Record : Write(On(w), r)
  <2>1. pid[On(w)] \in Pids
    BY <1>1 DEF IInv, TypeOK, Attended, Claim, Opening
  <2>2. [host |-> On(w), pid |-> pid[On(w)], tombstoned |-> FALSE] \in Record
    BY <2>1 DEF Record
  <2>3. QED BY <1>1, <2>2
<1>2. ASSUME NEW w \in Windows, Claim(w)
      PROVE  (rec' = rec /\ fresh' = fresh) \/ \E r \in Record : Write(On(w), r)
  BY <1>1, <1>2 DEF Claim
<1>3. ASSUME NEW w \in Windows, Close(w)
      PROVE  (rec' = rec /\ fresh' = fresh) \/ \E r \in Record : Write(On(w), r)
  BY <1>3, Closes DEF IInv
<1>4. ASSUME NEW w \in Windows, Open(w) \/ Answer(w) \/ Boot(w) PROVE rec' = rec /\ fresh' = fresh
  BY <1>4, Boots DEF IInv, Open, Answer
<1>5. ASSUME NEW m \in Machines, Exit(m) \/ (\E p \in Pids : Start(m, p)) PROVE rec' = rec /\ fresh' = fresh
  BY <1>5 DEF Exit, Start
<1>6. CASE UNCHANGED vars
  BY <1>6 DEF vars
<1>7. QED
  BY <1>2, <1>3, <1>4, <1>5, <1>6 DEF Next, Boot

LEMMA OneRecordKept == IInv /\ [Next]_vars => OneRecord'
<1>1. SUFFICES ASSUME IInv, [Next]_vars PROVE OneRecord'
  OBVIOUS
<1>2. ASSUME NEW w \in Windows, NEW r \in Record, Write(On(w), r) PROVE OneRecord'
  BY <1>2 DEF Write, OneRecord
<1>3. ASSUME NEW m \in Machines, Sync(m) PROVE OneRecord'
  BY <1>1, <1>3 DEF IInv, TypeOK, Sync, OneRecord
<1>4. CASE rec' = rec /\ fresh' = fresh
  BY <1>1, <1>4 DEF IInv, OneRecord
<1>5. QED
  BY <1>1, <1>2, <1>3, <1>4, Records

\* Who writes a record is in the workspace, and so is whom the drive brings one.
LEMMA PlacedKept == IInv /\ [Next]_vars => Placed'
<1>1. SUFFICES ASSUME IInv, [Next]_vars PROVE Placed'
  OBVIOUS
<1> USE OnType
<1>2. TypeOK /\ Placed
  BY <1>1 DEF IInv
<1>3. ASSUME NEW w \in Windows, Claim(w) PROVE Placed'
  BY <1>2, <1>3 DEF TypeOK, Placed, Claim, Write
<1>4. ASSUME NEW w \in Windows, Close(w) PROVE Placed'
  <2>1. here' = here
    BY <1>4 DEF Close
  <2>2. CASE UNCHANGED rec
    BY <1>2, <2>1, <2>2 DEF Placed
  <2>3. ASSUME rec[On(w)] # None, NEW r \in Record, Write(On(w), r) PROVE Placed'
    BY <1>2, <2>1, <2>3 DEF TypeOK, Placed, Write
  <2>4. QED BY <1>2, <1>4, <2>2, <2>3, Closes
<1>5. ASSUME NEW m \in Machines, Sync(m) PROVE Placed'
  BY <1>2, <1>5 DEF TypeOK, Placed, Sync
<1>6. ASSUME NEW w \in Windows, Open(w) \/ Answer(w) PROVE Placed'
  BY <1>2, <1>6 DEF Placed, Open, Answer
<1>7. ASSUME NEW w \in Windows, Boot(w) PROVE Placed'
  BY <1>2, <1>7, Boots DEF Placed
<1>8. ASSUME NEW m \in Machines, Exit(m) \/ (\E p \in Pids : Start(m, p)) PROVE Placed'
  BY <1>2, <1>8 DEF Placed, Exit, Start
<1>9. CASE UNCHANGED vars
  BY <1>2, <1>9 DEF Placed, vars
<1>10. QED
  BY <1>1, <1>3, <1>4, <1>5, <1>6, <1>7, <1>8, <1>9 DEF Next, Boot

\* A claim that was not overtaken goes over nobody's record, so that it is the
\* only window open; and a close leaves a record nobody has.
LEMMA DecidedKept == IInv /\ [Next]_vars => Decided'
<1>1. SUFFICES ASSUME IInv, [Next]_vars, excused' \subseteq {"quit"},
                      NEW n \in fresh', NEW v \in Windows
               PROVE  /\ phase'[v] = "open" => Live(n)' /\ rec'[n].host = On(v)
                      /\ phase'[v] \in Pending /\ v \notin behind' => (Live(n)' => rec'[n].host = On(v))
  BY DEF Decided, Pending
<1> DEFINE Good == /\ phase'[v] = "open" => Live(n)' /\ rec'[n].host = On(v)
                   /\ phase'[v] \in Pending /\ v \notin behind' => (Live(n)' => rec'[n].host = On(v))
<1> USE OnType
<1>2. /\ TypeOK /\ Flocked /\ OneRecord
      /\ excused \subseteq {"quit"} =>
           \A k \in fresh, w \in Windows :
             /\ phase[w] = "open" => Live(k) /\ rec[k].host = On(w)
             /\ phase[w] \in Pending /\ w \notin behind => (Live(k) => rec[k].host = On(w))
  BY <1>1 DEF IInv, Decided, Pending
<1>3. ASSUME NEW w \in Windows, Open(w) PROVE Good
  <2>1. excused \subseteq {"quit"} /\ rec' = rec /\ fresh' = fresh
    BY <1>1, <1>3 DEF Open
  <2>2. /\ \E o \in Outcomes(On(w)) \ {"HeldSameMachine"} :
             phase' = [phase EXCEPT ![w] = IF o = "ConflictForeign" THEN "asked" ELSE "opening"]
        /\ behind' = IF On(w) \in fresh THEN behind ELSE behind \cup {w}
    BY <1>1, <1>3 DEF Open, Decide
  <2>3. CASE v # w
    BY <1>2, <2>1, <2>2, <2>3 DEF TypeOK, Live
  <2>4. CASE v = w
    <3>1. phase'[v] \in {"asked", "opening"}
      BY <1>2, <2>2, <2>4 DEF TypeOK
    <3>2. ASSUME phase'[v] \in Pending, v \notin behind' PROVE Live(n)' => rec'[n].host = On(v)
      <4>1. On(w) \in fresh /\ rec[On(w)] = rec[n]
        BY <1>1, <1>2, <2>1, <2>2, <2>4, <3>2 DEF OneRecord
      <4>2. ~(Live(On(w)) /\ rec[On(w)].host # On(w))
        BY <1>2, <2>2, <2>4, <3>2 DEF Outcomes, TypeOK, Pending, Opening
      <4>3. QED BY <2>1, <2>4, <4>1, <4>2 DEF Live
    <3>3. QED BY <3>1, <3>2
  <2>5. QED BY <2>3, <2>4
<1>4. ASSUME NEW w \in Windows, Answer(w) PROVE Good
  <2>1. /\ phase[w] = "asked" /\ phase' = [phase EXCEPT ![w] = "off"]
        /\ behind' = behind \ {w} /\ excused' = excused /\ rec' = rec /\ fresh' = fresh
    BY <1>1, <1>4 DEF Answer
  <2>2. QED BY <1>1, <1>2, <2>1 DEF TypeOK, Live, Pending, Opening
<1>5. ASSUME NEW w \in Windows, Boot(w) PROVE Good
  <2>1. rec' = rec /\ fresh' = fresh /\ excused' = excused
    BY <1>2, <1>5, Boots
  <2>2. CASE v # w
    BY <1>1, <1>2, <1>5, <2>1, <2>2, Boots DEF Live
  <2>3. CASE v = w
    <3>1. phase'[v] # "open"
      BY <1>2, <1>5, <2>3, Boots
    <3>2. CASE phase[w] \in Pending /\ w \notin behind
      BY <1>1, <1>2, <2>1, <2>3, <3>1, <3>2 DEF Live
    <3>3. CASE On(w) \notin here /\ On(w) \in fresh
      <4>1. rec[On(w)] = None
        BY <1>1, <3>3 DEF IInv, Placed
      <4>2. ~Live(n)'
        BY <1>1, <1>2, <2>1, <3>3, <4>1 DEF OneRecord, Live
      <4>3. QED BY <3>1, <4>2
    <3>4. QED BY <1>2, <1>5, <2>3, <3>1, <3>2, <3>3, Boots DEF Pending
  <2>4. QED BY <2>2, <2>3
<1>6. ASSUME NEW w \in Windows, Claim(w) PROVE Good
  <2>1. /\ phase[w] \in Pending /\ flock[On(w)] = w /\ phase' = [phase EXCEPT ![w] = "open"]
        /\ Write(On(w), [host |-> On(w), pid |-> pid[On(w)], tombstoned |-> FALSE])
        /\ w \in behind => "raced" \in excused' \/ "retried" \in excused'
        /\ excused \subseteq excused'
    BY <1>1, <1>6 DEF Claim, Pending
  <2>0. w \notin behind /\ excused \subseteq {"quit"}
    BY <1>1, <2>1
  <2>2. /\ fresh' = {On(w)} /\ rec' = [rec EXCEPT ![On(w)] = [host |-> On(w), pid |-> pid[On(w)], tombstoned |-> FALSE]]
        /\ behind' = {u \in Deciding : u \in behind \/ On(u) # On(w)}
    BY <2>1 DEF Write
  <2>3. n = On(w) /\ rec'[n] = [host |-> On(w), pid |-> pid[On(w)], tombstoned |-> FALSE]
    BY <1>1, <1>2, <2>2 DEF TypeOK
  <2>4. rec'[n].host = On(w) /\ rec'[n].tombstoned = FALSE
    BY <2>3
  <2>5. rec'[n] # None
    <3>1. pid[On(w)] \in Pids
      BY <1>1, <2>1 DEF IInv, TypeOK, Attended, Pending, Opening
    <3>2. rec'[n] \in Record
      BY <2>3, <3>1 DEF Record
    <3>3. QED BY <3>2, LocksAssumption
  <2>6. ASSUME phase'[v] = "open", v # w PROVE On(v) = On(w)
    <3>1. phase[v] = "open" /\ flock[On(v)] = v
      BY <1>2, <2>1, <2>6 DEF TypeOK, Flocked
    <3>2. CASE fresh = {}
      BY <1>2, <3>2 DEF OneRecord
    <3>3. ASSUME NEW k \in fresh PROVE On(v) = On(w)
      BY <1>2, <2>0, <2>1, <3>1
    <3>4. QED BY <3>2, <3>3
  <2>7. ASSUME phase'[v] \in Pending, v \notin behind' PROVE On(v) = On(w)
    BY <1>2, <2>0, <2>1, <2>2, <2>7 DEF TypeOK, Deciding, Pending, Opening
  <2>8. QED BY <2>4, <2>5, <2>6, <2>7 DEF Live
<1>7. ASSUME NEW w \in Windows, Close(w) PROVE Good
  <2>1. phase[w] = "open" /\ phase' = [phase EXCEPT ![w] = "off"] /\ excused' = excused
    BY <1>1, <1>7 DEF Close
  <2>2. ASSUME NEW r \in Record, r.tombstoned = TRUE, Write(On(w), r) PROVE Good
    <3>1. n = On(w) /\ rec'[n] = r
      BY <1>1, <1>2, <2>2, Writes
    <3>2. ~Live(n)'
      BY <2>2, <3>1 DEF Live
    <3>3. ASSUME phase'[v] = "open" PROVE FALSE
      <4>1. v # w /\ phase[v] = "open"
        BY <1>2, <2>1, <3>3 DEF TypeOK
      <4>2. PICK k \in fresh : TRUE
        BY <1>2 DEF OneRecord
      <4>3. On(v) = On(w)
        BY <1>1, <1>2, <2>1, <4>1, <4>2
      <4>4. QED BY <1>2, <2>1, <4>1, <4>3 DEF Flocked
    <3>4. QED BY <3>2, <3>3
  <2>3. CASE rec' = rec /\ fresh' = fresh /\ behind' = behind
    BY <1>1, <1>2, <2>1, <2>3 DEF TypeOK, Live, Pending, Opening
  <2>4. QED BY <1>2, <1>7, <2>1, <2>2, <2>3, Closes
<1>8. ASSUME NEW m \in Machines, Exit(m) PROVE Good
  <2>1. /\ excused \subseteq {"quit"} /\ rec' = rec /\ fresh' = fresh
        /\ phase' = [u \in Windows |-> IF On(u) = m THEN "off" ELSE phase[u]]
        /\ behind' = {u \in behind : On(u) # m}
    BY <1>1, <1>8 DEF Exit
  <2>2. CASE On(v) = m
    BY <2>1, <2>2 DEF Pending, Opening
  <2>3. CASE On(v) # m
    BY <1>1, <1>2, <2>1, <2>3 DEF Live
  <2>4. QED BY <2>2, <2>3
<1>9. ASSUME NEW m \in Machines, Sync(m) PROVE Good
  <2>1. \/ \E k \in fresh : rec' = [rec EXCEPT ![m] = rec[k]] /\ fresh' = fresh \cup {m} /\ m \notin fresh
        \/ rec' = rec /\ fresh' = fresh
    BY <1>9 DEF Sync
  <2>2. phase' = phase /\ behind' = behind /\ excused' = excused
    BY <1>9 DEF Sync
  <2>3. \E l \in fresh : rec'[n] = rec[l]
    BY <1>1, <1>2, <2>1 DEF TypeOK
  <2>4. QED BY <1>1, <1>2, <2>2, <2>3 DEF Live
<1>10. ASSUME NEW m \in Machines, NEW p \in Pids, Start(m, p) PROVE Good
  BY <1>1, <1>2, <1>10 DEF Start, Live
<1>11. CASE UNCHANGED vars
  BY <1>1, <1>2, <1>11 DEF Live, vars
<1>12. QED
  BY <1>1, <1>3, <1>4, <1>5, <1>6, <1>7, <1>8, <1>9, <1>10, <1>11 DEF Next, Boot

\* A guard comes with a record, and no step takes one away.
LEMMA WrittenKept == IInv /\ [Next]_vars => Written'
<1>1. SUFFICES ASSUME IInv, [Next]_vars PROVE Written'
  OBVIOUS
<1> USE OnType
<1>2. TypeOK /\ Written
  BY <1>1 DEF IInv
<1>3. ASSUME NEW w \in Windows, Claim(w) PROVE Written'
  <2>1. CASE Write(On(w), [host |-> On(w), pid |-> pid[On(w)], tombstoned |-> FALSE]) /\ guard' = guard \cup {w}
    <3>1. pid[On(w)] \in Pids
      BY <1>1, <1>3 DEF IInv, TypeOK, Attended, Claim, Opening
    <3>2. [host |-> On(w), pid |-> pid[On(w)], tombstoned |-> FALSE] \in Record
      BY <3>1 DEF Record
    <3>3. /\ fresh' = {On(w)} /\ rec'[On(w)] # None
          /\ \A n \in Machines : rec[n] # None => rec'[n] # None
      BY <1>2, <2>1, <3>2, Writes
    <3>4. QED BY <1>2, <2>1, <3>3 DEF Written, TypeOK
  <2>2. CASE UNCHANGED <<rec, fresh, guard>>
    BY <1>2, <2>2 DEF Written
  <2>3. QED BY <1>3, <2>1, <2>2 DEF Claim
<1>4. ASSUME NEW w \in Windows, Close(w) PROVE Written'
  <2>1. guard' = guard \ {w}
    BY <1>4 DEF Close
  <2>2. ASSUME NEW r \in Record, Write(On(w), r) PROVE Written'
    <3>1. /\ fresh' = {On(w)} /\ rec'[On(w)] # None
          /\ \A n \in Machines : rec[n] # None => rec'[n] # None
      BY <1>2, <2>2, Writes
    <3>2. QED BY <1>2, <2>1, <3>1 DEF Written, TypeOK
  <2>3. CASE rec' = rec /\ fresh' = fresh
    BY <1>2, <2>1, <2>3 DEF Written
  <2>4. QED BY <1>2, <1>4, <2>2, <2>3, Closes
<1>5. ASSUME NEW m \in Machines, Sync(m) PROVE Written'
  BY <1>2, <1>5 DEF TypeOK, Written, Sync
<1>6. ASSUME NEW m \in Machines, Exit(m) PROVE Written'
  BY <1>2, <1>6 DEF Written, Exit
<1>7. ASSUME NEW w \in Windows, Open(w) \/ Answer(w) \/ Boot(w) PROVE Written'
  BY <1>2, <1>7, Boots DEF Written, Open, Answer
<1>8. ASSUME NEW m \in Machines, NEW p \in Pids, Start(m, p) PROVE Written'
  BY <1>2, <1>8 DEF Written, Start
<1>9. CASE UNCHANGED vars
  BY <1>2, <1>9 DEF Written, vars
<1>10. QED
  BY <1>1, <1>3, <1>4, <1>5, <1>6, <1>7, <1>8, <1>9 DEF Next, Boot

\* A claim leaves the claimer's record, a close one that is marked.
LEMMA ReleaseKept == IInv /\ [Next]_vars => CleanRelease'
<1>1. SUFFICES ASSUME IInv, [Next]_vars, excused' \subseteq {"warned", "raced", "retried"},
                      NEW n \in fresh', Live(n)'
               PROVE  \E w \in guard' : On(w) = rec'[n].host
  BY DEF CleanRelease
<1> DEFINE Good == \E w \in guard' : On(w) = rec'[n].host
<1> USE OnType
<1>2. TypeOK /\ Written
  BY <1>1 DEF IInv
<1>3. excused \subseteq {"warned", "raced", "retried"} => \A m \in fresh : Live(m) => \E w \in guard : On(w) = rec[m].host
  BY <1>1 DEF IInv, CleanRelease
<1>4. ASSUME NEW w \in Windows, Claim(w) PROVE Good
  <2>1. /\ guard' = guard \cup {w} /\ fresh' = {On(w)}
        /\ rec' = [rec EXCEPT ![On(w)] = [host |-> On(w), pid |-> pid[On(w)], tombstoned |-> FALSE]]
    BY <1>1, <1>4 DEF Claim, Write
  <2>2. rec'[n] = [host |-> On(w), pid |-> pid[On(w)], tombstoned |-> FALSE]
    BY <1>1, <1>2, <2>1 DEF TypeOK
  <2>3. QED BY <2>1, <2>2
<1>5. ASSUME NEW w \in Windows, Close(w) PROVE Good
  <2>1. guard' = guard \ {w} /\ excused' = excused
    BY <1>1, <1>5 DEF Close
  <2>2. ASSUME NEW r \in Record, r.tombstoned = TRUE, Write(On(w), r) PROVE FALSE
    <3>1. n = On(w) /\ rec'[n] = r
      BY <1>1, <1>2, <2>2, Writes
    <3>2. QED BY <1>1, <2>2, <3>1 DEF Live
  <2>3. CASE rec' = rec /\ fresh' = fresh /\ (w \in guard => rec[On(w)] = None)
    <3>1. w \notin guard
      BY <1>2, <2>3 DEF Written
    <3>2. guard' = guard /\ n \in fresh /\ Live(n)
      BY <1>1, <2>1, <2>3, <3>1 DEF Live
    <3>3. QED BY <1>1, <1>3, <2>1, <2>3, <3>2
  <2>4. \/ \E r \in Record : r.tombstoned = TRUE /\ Write(On(w), r)
        \/ UNCHANGED <<rec, fresh>> /\ (w \in guard => rec[On(w)] = None)
        \/ excused' = excused \cup {"unclaimed"}
    BY <1>2, <1>5, Closes
  <2>5. excused' # excused \cup {"unclaimed"}
    BY <1>1
  <2>6. QED BY <2>2, <2>3, <2>4, <2>5
<1>6. ASSUME NEW m \in Machines, Exit(m) PROVE Good
  <2>1. excused \subseteq {"warned", "raced", "retried"} /\ rec' = rec /\ fresh' = fresh /\ guard' = guard
    BY <1>1, <1>6 DEF Exit
  <2>2. QED BY <1>1, <1>3, <2>1 DEF Live
<1>7. ASSUME NEW m \in Machines, Sync(m) PROVE Good
  <2>1. \/ \E k \in fresh : rec' = [rec EXCEPT ![m] = rec[k]] /\ fresh' = fresh \cup {m}
        \/ rec' = rec /\ fresh' = fresh
    BY <1>7 DEF Sync
  <2>2. guard' = guard /\ excused' = excused
    BY <1>7 DEF Sync
  <2>3. \E l \in fresh : rec'[n] = rec[l]
    BY <1>1, <1>2, <2>1 DEF TypeOK
  <2>4. QED BY <1>1, <1>3, <2>2, <2>3 DEF Live
<1>8. ASSUME NEW w \in Windows, Open(w) \/ Answer(w) \/ Boot(w) PROVE Good
  <2>1. excused \subseteq excused' /\ rec' = rec /\ fresh' = fresh /\ guard' = guard
    BY <1>2, <1>8, Boots DEF Open, Answer
  <2>2. QED BY <1>1, <1>3, <2>1 DEF Live
<1>9. ASSUME NEW m \in Machines, NEW p \in Pids, Start(m, p) PROVE Good
  BY <1>1, <1>3, <1>9 DEF Start, Live
<1>10. CASE UNCHANGED vars
  BY <1>1, <1>3, <1>10 DEF Live, vars
<1>11. QED
  BY <1>1, <1>4, <1>5, <1>6, <1>7, <1>8, <1>9, <1>10 DEF Next, Boot

LEMMA Inductive == Spec => []IInv
<1>1. IInv /\ [Next]_vars => IInv'
  BY TypeKept, FlockKept, OneRecordKept, PlacedKept, DecidedKept, WrittenKept, ReleaseKept DEF IInv
<1>2. QED
  BY Starts, <1>1, PTL DEF Spec

-----------------------------------------------------------------------------
(* The theorems. *)

\* Records, locks and windows stay well formed, for any number of machines.
THEOREM LocksTypeCorrect == Spec => []TypeOK
<1>1. IInv => TypeOK
  BY DEF IInv
<1>2. QED
  BY Inductive, <1>1, PTL

\* The flock keeps a second window of a machine's dat0 out, however the two
\* openings overlap and whatever becomes of the record.
THEOREM OnePerMachineAlways == Spec => []OnePerMachine
<1>1. IInv => OnePerMachine
  BY DEF IInv, Flocked, OnePerMachine, Both
<1>2. QED
  BY Inductive, <1>1, PTL

\* Two windows have the workspace open only when a user was warned and went on,
\* a claim, of an opening, a save or a second try, was decided on an old copy, or
\* a record was not written or not read.
THEOREM HeldKnowinglyAlways == Spec => []HeldKnowingly
<1>1. ASSUME IInv, excused \subseteq {"quit"}, NEW w \in Windows, NEW v \in Windows, Both(w, v) PROVE FALSE
  <2>1. PICK n \in fresh : TRUE
    BY <1>1 DEF IInv, OneRecord
  <2>2. On(w) = On(v)
    BY <1>1, <2>1 DEF IInv, Decided, Both
  <2>3. QED
    BY <1>1, <2>2 DEF IInv, Flocked, Both
<1>2. IInv => HeldKnowingly
  BY <1>1 DEF HeldKnowingly
<1>3. QED
  BY Inductive, <1>2, PTL

\* A record that stands is that of a machine with a window on the workspace,
\* unless a process ended without dropping it or a record could not be written
\* or read.
THEOREM CleanReleaseAlways == Spec => []CleanRelease
<1>1. IInv => CleanRelease
  BY DEF IInv
<1>2. QED
  BY Inductive, <1>1, PTL
=============================================================================
