------------------------- MODULE SessionHomesProofs -------------------------
(***************************************************************************)
(* Theorems about SessionHomes, for any number of windows, edits and       *)
(* crashes: types and owners whatever fails; and, where system calls of a  *)
(* save may fail and no other hazard strikes, that recorded work is kept,  *)
(* stays recorded and is offered, and that KeptWork is implemented.        *)
(***************************************************************************)
EXTENDS SessionHomes, TLAPS

-----------------------------------------------------------------------------
(* Types and owners. *)

LEMMA HeldType == ASSUME NEW f \in File PROVE Held(f) \in SUBSET Edits
  BY HomesAssumption DEF Held, File

LEMMA FileTypes ==
  /\ Absent \in File /\ Cut \in File
  /\ \A s \in SUBSET Edits : s \in File
  /\ Empty \in [Parts -> File]
  BY DEF File, Empty

LEMMA ContentsType ==
  ASSUME DiskOK, NEW h \in Homes
  PROVE  Contents(h) \in SUBSET Edits
<1>1. file[h].db \in File /\ file[h].wal \in File
  BY DEF DiskOK, Parts
<1>2. Held(file[h].wal) \in SUBSET Edits
  BY <1>1, HeldType
<1> QED
  BY <1>1, <1>2, HomesAssumption DEF Contents, File

LEMMA MoveOrderFacts ==
  /\ Len(MoveOrder) = 3
  /\ MoveOrder[1] = "db" /\ MoveOrder[2] = "wal" /\ MoveOrder[3] = "json"
  BY DEF MoveOrder

\* Making a home's directory, or removing it.
LEMMA DirType ==
  ASSUME dir \in [Homes -> BOOLEAN], NEW h \in Homes, NEW there \in BOOLEAN,
         dir' \in {dir, [dir EXCEPT ![h] = there]}
  PROVE  dir' \in [Homes -> BOOLEAN]
  OBVIOUS

LEMMA InitType == Init => TypeOK
<1> SUFFICES ASSUME Init PROVE TypeOK
  OBVIOUS
<1>1. DiskOK
  <2>1. [db |-> {}, wal |-> Absent, json |-> {}] \in [Parts -> File]
    BY DEF Parts, File
  <2> QED
    BY <2>1, FileTypes, HomesAssumption DEF Init, DiskOK, Homes
<1>2. WinsOK
  BY DEF Init, WinsOK, Homes, Phases, NoEngine
<1>3. ProcOK /\ GhostOK
  BY DEF Init, ProcOK, GhostOK
<1> QED
  BY <1>1, <1>2, <1>3 DEF TypeOK

\* A window with work to commit or save has an engine.
HasEngine == \A w \in Windows : win[w] \in {"ready", "alone", "clean"} => engine[w] # NoEngine
TypeInv == TypeOK /\ HasEngine

LEMMA NextType == ASSUME TypeInv, [Next]_vars PROVE TypeInv'
<1> USE DEF TypeInv, TypeOK, DiskOK, WinsOK, ProcOK, GhostOK, HasEngine, Homes, Parts,
            Phases, Saving, Sync, NoEngine, disk, wins, proc, ghost

<1>1. ASSUME NEW w \in Windows, NEW e \in Edits, Commit(w, e) PROVE TypeInv'
  BY <1>1, HeldType, FileTypes DEF Commit
<1>2. ASSUME NEW w \in Windows, Note(w) PROVE TypeInv'
  BY <1>2, HeldType, ContentsType, FileTypes DEF Note, RecordHome
<1>3. ASSUME NEW w \in Windows, StartSave(w) PROVE TypeInv'
  BY <1>3, FileTypes DEF StartSave
<1>4. ASSUME NEW w \in Windows, Checkpoint(w) PROVE TypeInv'
  BY <1>4, ContentsType, FileTypes DEF Checkpoint
<1>5. ASSUME NEW w \in Windows, CreateDat0(w) PROVE TypeInv'
  <2>1. CASE win' = [win EXCEPT ![w] = "move"] /\ dir' = [dir EXCEPT !["dat0"] = TRUE]
                                             /\ part' = [part EXCEPT ![w] = 1] /\ flock' = w
    BY <1>5, <2>1 DEF CreateDat0
  <2>2. CASE FailSave(w) /\ dir' \in {dir, [dir EXCEPT !["dat0"] = TRUE]} /\ UNCHANGED part
    <3>1. dir' \in [Homes -> BOOLEAN]
      <4>1. dir \in [Homes -> BOOLEAN] /\ "dat0" \in Homes
        OBVIOUS
      <4> QED
        BY ONLY <2>2, <4>1, DirType
    <3> QED
      BY <1>5, <2>2, <3>1 DEF CreateDat0, FailSave
  <2> QED
    BY <1>5, <2>1, <2>2 DEF CreateDat0
<1>6. ASSUME NEW w \in Windows, Rename(w) PROVE TypeInv'
  BY <1>6, MoveOrderFacts, FileTypes DEF Rename, FailSave, Moved, Moving
<1>7. ASSUME NEW w \in Windows, StartCopy(w) PROVE TypeInv'
  BY <1>7, MoveOrderFacts, FileTypes DEF StartCopy, Moving
<1>8. ASSUME NEW w \in Windows, FinishCopy(w) PROVE TypeInv'
  BY <1>8, MoveOrderFacts, FileTypes DEF FinishCopy, FailSave, Moving
<1>9. ASSUME NEW w \in Windows, RemoveSource(w) PROVE TypeInv'
  BY <1>9, MoveOrderFacts, FileTypes DEF RemoveSource, FailSave, Moved, Moving
<1>10. ASSUME NEW w \in Windows, WriteManifest(w) PROVE TypeInv'
  <2>1. CASE manifest' = TRUE /\ win' = [win EXCEPT ![w] = "adopt"] /\ UNCHANGED flock
    BY <1>10, <2>1 DEF WriteManifest
  <2>2. CASE FailSave(w) /\ UNCHANGED manifest
    BY <1>10, <2>2 DEF WriteManifest, FailSave
  <2> QED
    BY <1>10, <2>1, <2>2 DEF WriteManifest
<1>11. ASSUME NEW w \in Windows, Adopt(w) PROVE TypeInv'
  BY <1>11, FileTypes DEF Adopt, FailSave
<1>12. ASSUME NEW w \in Windows, Clean(w) PROVE TypeInv'
  <2>1. file' \in [Homes -> [Parts -> File]]
    <3>1. CASE file' = [file EXCEPT !["scratch"] = Empty]
      BY <3>1, FileTypes
    <3> QED
      BY <1>12, <3>1 DEF Clean
  <2>2. dir' \in [Homes -> BOOLEAN]
    <3>1. dir \in [Homes -> BOOLEAN] /\ "scratch" \in Homes
      OBVIOUS
    <3>2. dir' \in {dir, [dir EXCEPT !["scratch"] = FALSE]}
      BY <1>12 DEF Clean
    <3> QED
      BY ONLY <3>1, <3>2, DirType
  <2> QED
    BY <1>12, <2>1, <2>2 DEF Clean, Remember
<1>13. ASSUME NEW w \in Windows, Aftermath(w) PROVE TypeInv'
  <2>1. file' \in [Homes -> [Parts -> File]]
    BY <1>13, FileTypes DEF Aftermath
  <2>2. target' \in [Windows -> Homes] /\ manifest' \in BOOLEAN
    BY <1>13 DEF Aftermath
  <2>3. win' \in [Windows -> Phases] /\ win'[w] \in {"booting", "failed"}
    BY <1>13 DEF Aftermath
  <2> QED
    BY <1>13, <2>1, <2>2, <2>3 DEF Aftermath
<1>14. ASSUME NEW w \in Windows, Mount(w) PROVE TypeInv'
  BY <1>14, FileTypes DEF Mount
<1>15. ASSUME NEW w \in Windows, ReadRecord(w) PROVE TypeInv'
  BY <1>15, HeldType, FileTypes DEF ReadRecord
<1>16. ASSUME NEW w \in Windows, OpenEngine(w) PROVE TypeInv'
  <2>1. recent' \in BOOLEAN /\ roots' \in SUBSET Windows
    BY <1>16 DEF OpenEngine, Remember
  <2> QED
    BY <1>16, <2>1, HeldType, FileTypes DEF OpenEngine
<1>17. ASSUME NEW w \in Windows, OpenFails(w) PROVE TypeInv'
  BY <1>17, ContentsType, FileTypes DEF OpenFails
<1>18. ASSUME NEW w \in Windows, Retry(w) PROVE TypeInv'
  BY <1>18, FileTypes DEF Retry
<1>19. ASSUME NEW w \in Windows, RetryNew(w) PROVE TypeInv'
  BY <1>19, HeldType, FileTypes DEF RetryNew
<1>20. ASSUME NEW w \in Windows, CloseWindow(w) PROVE TypeInv'
  BY <1>20, ContentsType, FileTypes DEF CloseWindow
<1>21. ASSUME NEW w \in Windows, OpenWorkspace(w) PROVE TypeInv'
  BY <1>21, FileTypes DEF OpenWorkspace, NewWindow
<1>22. ASSUME NEW w \in Windows, OpenOrphan(w) PROVE TypeInv'
  BY <1>22, FileTypes DEF OpenOrphan, NewWindow
<1>23. ASSUME NEW w \in Windows, Resume(w) PROVE TypeInv'
  BY <1>23, FileTypes DEF Resume, NewWindow
<1>24. ASSUME Look PROVE TypeInv'
  BY <1>24, FileTypes DEF Look, Listed
<1>25. ASSUME DiscardOrphan PROVE TypeInv'
  BY <1>25, ContentsType, FileTypes DEF DiscardOrphan, Listed
<1>26. ASSUME DiscardIncomplete PROVE TypeInv'
  BY <1>26, ContentsType, FileTypes DEF DiscardIncomplete, Listed
<1>27. ASSUME Die PROVE TypeInv'
  <2>1. crashes' \in Nat
    BY <1>27 DEF Die
  <2>2. DiskOK' /\ WinsOK' /\ HasEngine'
    BY <1>27, MoveOrderFacts, FileTypes DEF Die, Moving
  <2> QED
    BY <1>27, <2>1, <2>2 DEF Die
<1>28. ASSUME Boot PROVE TypeInv'
  BY <1>28, FileTypes DEF Boot
<1>29. ASSUME SweepDecides PROVE TypeInv'
  BY <1>29, FileTypes DEF SweepDecides
<1>30. ASSUME SweepRemoves PROVE TypeInv'
  BY <1>30, FileTypes DEF SweepRemoves
<1>32. ASSUME NEW h \in Homes, LetGo(h) PROVE TypeInv'
  <2>1. CASE file[h].db \in {Absent, Cut}
    BY <1>32, <2>1 DEF LetGo
  <2>2. CASE file[h].db \notin {Absent, Cut}
    <3>1. PICK last \in {{}} \cup {{e} : e \in Edits \ made} :
             /\ made' = made \cup last
             /\ file' = [file EXCEPT ![h].db = Contents(h) \cup last, ![h].wal = Absent]
      BY <1>32, <2>2 DEF LetGo
    <3>2. Contents(h) \cup last \in SUBSET Edits /\ made' \in SUBSET Edits
      BY <3>1, ContentsType
    <3>3. file' \in [Homes -> [Parts -> File]]
      BY <3>1, <3>2, FileTypes
    <3> QED
      BY <1>32, <3>2, <3>3 DEF LetGo
  <2> QED
    BY <2>1, <2>2
<1>31. CASE UNCHANGED vars
  BY <1>31 DEF vars
<1> QED
  BY <1>1, <1>2, <1>3, <1>4, <1>5, <1>6, <1>7, <1>8, <1>9, <1>10, <1>11, <1>12, <1>13, <1>14, <1>15, <1>16, <1>17, <1>18, <1>19, <1>20, <1>21, <1>22, <1>23, <1>24, <1>25, <1>26, <1>27, <1>28, <1>29, <1>30, <1>31, <1>32 DEF Next, SaveStep, BootStep

\* A window keeps its type invariant in every behaviour.
LEMMA TypeInvariant == Spec => []TypeInv
<1>1. Init => TypeInv
  BY InitType DEF TypeInv, HasEngine, Init, NoEngine
<1>2. TypeInv /\ [Next]_vars => TypeInv'
  BY NextType
<1> QED
  BY <1>1, <1>2, PTL DEF Spec

\* Every variable keeps its type, whatever the environment does.
THEOREM TypeCorrect == Spec => []TypeOK
  BY TypeInvariant, PTL DEF TypeInv

-----------------------------------------------------------------------------
(* One window on a home. *)

\* OneOwner of the windows that have their engine for good, a save between
\* two of its waits included, and of the engines of windows that closed.
Keeps == {"ready", "alone", "clean"}
OwnerInv ==
  /\ \A v, w \in Windows :
       v # w /\ win[v] \in Keeps /\ win[w] \in Keeps /\ engine[v] \in Homes
         => engine[v] # engine[w]
  /\ \A v \in Windows : win[v] \in Keeps => engine[v] \notin lingers

LEMMA NextOwner == ASSUME TypeInv, OwnerInv, [Next]_vars PROVE OwnerInv'
<1> USE DEF OwnerInv, Keeps, EngineFree, TypeInv, TypeOK, WinsOK, Homes, NoEngine, disk, wins, proc, ghost
<1>1. ASSUME NEW w \in Windows, NEW e \in Edits, Commit(w, e) PROVE OwnerInv'
  BY <1>1 DEF Commit
<1>2. ASSUME NEW w \in Windows, Note(w) PROVE OwnerInv'
  BY <1>2 DEF Note
<1>3. ASSUME NEW w \in Windows, StartSave(w) PROVE OwnerInv'
  BY <1>3 DEF StartSave
<1>4. ASSUME NEW w \in Windows, Checkpoint(w) PROVE OwnerInv'
  BY <1>4 DEF Checkpoint
<1>5. ASSUME NEW w \in Windows, CreateDat0(w) PROVE OwnerInv'
  BY <1>5 DEF CreateDat0, FailSave
<1>6. ASSUME NEW w \in Windows, Rename(w) PROVE OwnerInv'
  BY <1>6 DEF Rename, FailSave, Moved
<1>7. ASSUME NEW w \in Windows, StartCopy(w) PROVE OwnerInv'
  BY <1>7 DEF StartCopy
<1>8. ASSUME NEW w \in Windows, FinishCopy(w) PROVE OwnerInv'
  BY <1>8 DEF FinishCopy, FailSave
<1>9. ASSUME NEW w \in Windows, RemoveSource(w) PROVE OwnerInv'
  BY <1>9 DEF RemoveSource, FailSave, Moved
<1>10. ASSUME NEW w \in Windows, WriteManifest(w) PROVE OwnerInv'
  BY <1>10 DEF WriteManifest, FailSave
<1>11. ASSUME NEW w \in Windows, Adopt(w) PROVE OwnerInv'
  BY <1>11 DEF Adopt, FailSave
<1>12. ASSUME NEW w \in Windows, Clean(w) PROVE OwnerInv'
  BY <1>12 DEF Clean
<1>13. ASSUME NEW w \in Windows, Aftermath(w) PROVE OwnerInv'
  BY <1>13 DEF Aftermath
<1>14. ASSUME NEW w \in Windows, Mount(w) PROVE OwnerInv'
  BY <1>14 DEF Mount
<1>15. ASSUME NEW w \in Windows, ReadRecord(w) PROVE OwnerInv'
  BY <1>15 DEF ReadRecord
<1>16. ASSUME NEW w \in Windows, OpenEngine(w) PROVE OwnerInv'
  BY <1>16 DEF OpenEngine
<1>17. ASSUME NEW w \in Windows, OpenFails(w) PROVE OwnerInv'
  BY <1>17 DEF OpenFails
<1>18. ASSUME NEW w \in Windows, Retry(w) PROVE OwnerInv'
  BY <1>18 DEF Retry
<1>19. ASSUME NEW w \in Windows, RetryNew(w) PROVE OwnerInv'
  BY <1>19 DEF RetryNew
<1>20. ASSUME NEW w \in Windows, CloseWindow(w) PROVE OwnerInv'
  BY <1>20 DEF CloseWindow
<1>21. ASSUME NEW w \in Windows, OpenWorkspace(w) PROVE OwnerInv'
  BY <1>21 DEF OpenWorkspace, NewWindow
<1>22. ASSUME NEW w \in Windows, OpenOrphan(w) PROVE OwnerInv'
  BY <1>22 DEF OpenOrphan, NewWindow
<1>23. ASSUME NEW w \in Windows, Resume(w) PROVE OwnerInv'
  BY <1>23 DEF Resume, NewWindow
<1>24. ASSUME Look PROVE OwnerInv'
  BY <1>24 DEF Look
<1>25. ASSUME DiscardOrphan PROVE OwnerInv'
  BY <1>25 DEF DiscardOrphan
<1>26. ASSUME DiscardIncomplete PROVE OwnerInv'
  BY <1>26 DEF DiscardIncomplete
<1>27. ASSUME Die PROVE OwnerInv'
  BY <1>27 DEF Die
<1>28. ASSUME Boot PROVE OwnerInv'
  BY <1>28 DEF Boot
<1>29. ASSUME SweepDecides PROVE OwnerInv'
  BY <1>29 DEF SweepDecides
<1>30. ASSUME SweepRemoves PROVE OwnerInv'
  BY <1>30 DEF SweepRemoves
<1>32. ASSUME NEW h \in Homes, LetGo(h) PROVE OwnerInv'
  BY <1>32 DEF LetGo
<1>31. CASE UNCHANGED vars
  BY <1>31 DEF vars
<1> QED
  BY <1>1, <1>2, <1>3, <1>4, <1>5, <1>6, <1>7, <1>8, <1>9, <1>10, <1>11, <1>12, <1>13, <1>14, <1>15, <1>16, <1>17, <1>18, <1>19, <1>20, <1>21, <1>22, <1>23, <1>24, <1>25, <1>26, <1>27, <1>28, <1>29, <1>30, <1>31, <1>32 DEF Next, SaveStep, BootStep

\* Two windows never work on one home, whatever fails, overlaps or comes late.
THEOREM OneOwnerAlways == Spec => []OneOwner
<1>1. Init => OwnerInv
  BY DEF Init, OwnerInv, Keeps
<1>2. TypeInv /\ OwnerInv /\ [Next]_vars => OwnerInv'
  BY NextOwner
<1>3. OwnerInv => OneOwner
  BY DEF OwnerInv, OneOwner, Keeps
<1> QED
  BY <1>1, <1>2, <1>3, TypeInvariant, PTL DEF Spec

-----------------------------------------------------------------------------
(* A workspace is worked on under its lock. *)

\* Where the lock is, phase by phase: a window takes it when it makes .dat0 or
\* before it reads the record, and has it for as long as its engine is there.
\* The manifest stands beside a database, so what is finished is never listed
\* as interrupted and no Discard takes the lock file away.
LockInv ==
  /\ manifest => file["dat0"].db # Absent
  /\ file["dat0"].db # Absent => dir["dat0"]
  /\ flock # NoWindow => dir["dat0"]
  /\ "dat0" \in lingers => manifest
  /\ \A w \in Windows :
       /\ win[w] = "create" => ~dir["dat0"]
       /\ win[w] \in {"move", "copying", "copied", "manifest", "adopt"} => flock = w
       /\ win[w] \in {"move", "copying", "copied"} /\ part[w] > 1 => file["dat0"].db # Absent
       /\ win[w] \in {"move", "copying", "copied"} => ~manifest /\ dir["dat0"]
       /\ win[w] \in {"copying", "copied"} => file["dat0"][Moving(w)] # Absent
       /\ win[w] = "manifest" => ~manifest /\ dir["dat0"] /\ file["dat0"].db # Absent
       /\ win[w] = "adopt" => manifest
       /\ win[w] = "aftermath" => flock = NoWindow
       /\ win[w] = "alone" => engine[w] # "dat0"
       /\ win[w] = "waiting" /\ target[w] = "dat0" => manifest /\ flock = w
       /\ win[w] \in {"ready", "clean"} /\ engine[w] = "dat0" => manifest /\ flock = w

\* Letting a file go leaves absent what is, and the record.
LEMMA LetGoFiles ==
  ASSUME TypeInv, NEW h \in Homes, LetGo(h)
  PROVE  /\ \A g \in Homes : /\ file'[g].json = file[g].json
                             /\ file'[g].db = Absent <=> file[g].db = Absent
                             /\ g # h => file'[g] = file[g]
         /\ \/ file' = file
            \/ \E last \in SUBSET (Edits \ made) :
                 /\ file[h].db \notin {Absent, Cut} /\ made' = made \cup last
                 /\ file'[h].db = Contents(h) \cup last /\ file'[h].wal = Absent
<1>1. CASE file' = file
  BY <1>1
<1>2. ASSUME NEW last \in {{}} \cup {{e} : e \in Edits \ made}, file[h].db \notin {Absent, Cut},
             made' = made \cup last,
             file' = [file EXCEPT ![h].db = Contents(h) \cup last, ![h].wal = Absent]
      PROVE  /\ \A g \in Homes : /\ file'[g].json = file[g].json
                                 /\ file'[g].db = Absent <=> file[g].db = Absent
                                 /\ g # h => file'[g] = file[g]
             /\ file'[h].db = Contents(h) \cup last /\ file'[h].wal = Absent
  <2>1. last \in SUBSET (Edits \ made)
    BY <1>2
  <2>2. Contents(h) \cup last \in SUBSET Edits
    BY <2>1, ContentsType DEF TypeInv, TypeOK
  <2>3. Contents(h) \cup last # Absent
    BY <2>2, HomesAssumption
  <2> QED
    BY <1>2, <2>3 DEF TypeInv, TypeOK, DiskOK, Parts
<1> QED
  BY <1>1, <1>2 DEF LetGo

LEMMA NextLock ==
  ASSUME TypeInv, LockInv, "stale" \notin Hazards, [Next]_vars PROVE LockInv'
<1> USE HomesAssumption
    DEF LockInv, TypeInv, TypeOK, DiskOK, WinsOK, ProcOK, Homes, Parts, File, Sync, Saving, Phases,
        Turn, UIFree, Empty, Moving, NoEngine, disk, wins, proc, ghost
<1>1. ASSUME NEW w \in Windows, NEW e \in Edits, Commit(w, e) PROVE LockInv'
  BY <1>1 DEF Commit
<1>2. ASSUME NEW w \in Windows, Note(w) PROVE LockInv'
  BY <1>2 DEF Note, RecordHome
<1>3. ASSUME NEW w \in Windows, StartSave(w) PROVE LockInv'
  BY <1>3 DEF StartSave
<1>4. ASSUME NEW w \in Windows, Checkpoint(w) PROVE LockInv'
  BY <1>4 DEF Checkpoint
<1>5. ASSUME NEW w \in Windows, CreateDat0(w) PROVE LockInv'
  BY <1>5 DEF CreateDat0, FailSave
<1>6. ASSUME NEW w \in Windows, Rename(w) PROVE LockInv'
  BY <1>6, MoveOrderFacts DEF Rename, FailSave, Moved, Moving
<1>7. ASSUME NEW w \in Windows, StartCopy(w) PROVE LockInv'
  BY <1>7, MoveOrderFacts DEF StartCopy, Moving
<1>8. ASSUME NEW w \in Windows, FinishCopy(w) PROVE LockInv'
  BY <1>8, MoveOrderFacts DEF FinishCopy, FailSave, Moving
<1>9. ASSUME NEW w \in Windows, RemoveSource(w) PROVE LockInv'
  BY <1>9, MoveOrderFacts DEF RemoveSource, FailSave, Moved, Moving
<1>10. ASSUME NEW w \in Windows, WriteManifest(w) PROVE LockInv'
  BY <1>10 DEF WriteManifest, FailSave
<1>11. ASSUME NEW w \in Windows, Adopt(w) PROVE LockInv'
  BY <1>11 DEF Adopt, FailSave
<1>12. ASSUME NEW w \in Windows, Clean(w) PROVE LockInv'
  BY <1>12 DEF Clean
<1>13. ASSUME NEW w \in Windows, Aftermath(w) PROVE LockInv'
  BY <1>13 DEF Aftermath
<1>14. ASSUME NEW w \in Windows, Mount(w) PROVE LockInv'
  BY <1>14 DEF Mount
<1>15. ASSUME NEW w \in Windows, ReadRecord(w) PROVE LockInv'
  BY <1>15 DEF ReadRecord
<1>16. ASSUME NEW w \in Windows, OpenEngine(w) PROVE LockInv'
  <2>1. Held(file[target[w]].db) # Absent
    BY HeldType
  <2>2. file' = [file EXCEPT ![target[w]] = file'[target[w]]] /\ file'[target[w]].db # Absent
    BY <1>16, <2>1 DEF OpenEngine
  <2>3. target[w] = "dat0" => manifest /\ flock = w /\ dir["dat0"]
    BY <1>16 DEF OpenEngine
  <2>4. /\ manifest' = manifest /\ dir' = dir /\ flock' = flock /\ part' = part /\ target' = target
        /\ lingers' = lingers
    BY <1>16 DEF OpenEngine
  <2>5. win' = [win EXCEPT ![w] = "ready"] /\ engine' = [engine EXCEPT ![w] = target[w]]
    BY <1>16 DEF OpenEngine
  <2>6. \A v \in Windows \ {w} : win[v] \notin Sync
    BY <1>16 DEF OpenEngine
  <2> QED
    BY <2>2, <2>3, <2>4, <2>5, <2>6
<1>17. ASSUME NEW w \in Windows, OpenFails(w) PROVE LockInv'
  <2>1. Contents(target[w]) # Absent
    BY ContentsType
  <2>2. \/ file' = file
        \/ /\ dir[target[w]]
           /\ file' = [file EXCEPT ![target[w]].db = Contents(target[w]), ![target[w]].wal = Absent]
    BY <1>17 DEF OpenFails
  <2>3. /\ file["dat0"].db # Absent => file'["dat0"].db # Absent
        /\ file'["dat0"].db # Absent => dir["dat0"]
    BY <2>1, <2>2
  <2>4. /\ manifest' = manifest /\ dir' = dir /\ part' = part /\ target' = target /\ engine' = engine
        /\ lingers' = lingers
    BY <1>17 DEF OpenFails
  <2>5. /\ win' = [win EXCEPT ![w] = "failed"]
        /\ flock' = IF flock = w THEN NoWindow ELSE flock
    BY <1>17 DEF OpenFails
  <2>6. \A v \in Windows \ {w} : win[v] \notin Sync
    BY <1>17 DEF OpenFails
  <2> QED
    BY <2>3, <2>4, <2>5, <2>6
<1>18. ASSUME NEW w \in Windows, Retry(w) PROVE LockInv'
  BY <1>18 DEF Retry
<1>19. ASSUME NEW w \in Windows, RetryNew(w) PROVE LockInv'
  BY <1>19 DEF RetryNew
<1>20. ASSUME NEW w \in Windows, CloseWindow(w) PROVE LockInv'
  <2>1. \A h \in Homes : Contents(h) # Absent
    BY ContentsType
  <2>2. /\ file["dat0"].db # Absent => file'["dat0"].db # Absent
        /\ file'["dat0"].db # Absent => file["dat0"].db # Absent
    BY <1>20, <2>1 DEF CloseWindow
  <2>3. manifest' = manifest /\ dir' = dir /\ part' = part /\ target' = target
    BY <1>20 DEF CloseWindow
  <2>4. /\ win' = [win EXCEPT ![w] = "closed"] /\ engine' = [engine EXCEPT ![w] = NoEngine]
        /\ flock' = IF flock = w THEN NoWindow ELSE flock
    BY <1>20 DEF CloseWindow
  <2>5. \A v \in Windows \ {w} : win[v] \notin Sync
    BY <1>20 DEF CloseWindow
  <2>6. "dat0" \in lingers' => manifest
    BY <1>20 DEF CloseWindow
  <2> QED
    BY <2>2, <2>3, <2>4, <2>5, <2>6
<1>21. ASSUME NEW w \in Windows, OpenWorkspace(w) PROVE LockInv'
  BY <1>21 DEF OpenWorkspace, NewWindow
<1>22. ASSUME NEW w \in Windows, OpenOrphan(w) PROVE LockInv'
  BY <1>22 DEF OpenOrphan, NewWindow
<1>23. ASSUME NEW w \in Windows, Resume(w) PROVE LockInv'
  BY <1>23 DEF Resume, NewWindow
<1>24. ASSUME Look PROVE LockInv'
  BY <1>24 DEF Look
<1>25. ASSUME DiscardOrphan PROVE LockInv'
  BY <1>25 DEF DiscardOrphan
<1>26. ASSUME DiscardIncomplete PROVE LockInv'
  BY <1>26 DEF DiscardIncomplete, May, Listed, Incomplete
<1>27. ASSUME Die PROVE LockInv'
  BY <1>27 DEF Die
<1>28. ASSUME Boot PROVE LockInv'
  BY <1>28 DEF Boot
<1>29. ASSUME SweepDecides PROVE LockInv'
  BY <1>29 DEF SweepDecides
<1>30. ASSUME SweepRemoves PROVE LockInv'
  BY <1>30 DEF SweepRemoves
<1>32. ASSUME NEW h \in Homes, LetGo(h) PROVE LockInv'
  <2>1. /\ file["dat0"].db # Absent => file'["dat0"].db # Absent
        /\ file'["dat0"].db # Absent => file["dat0"].db # Absent
    BY <1>32, LetGoFiles
  <2>2. UNCHANGED <<manifest, dir, part, target, win, engine, flock>> /\ lingers' \subseteq lingers
    BY <1>32 DEF LetGo
  <2>3. \A v \in Windows : win[v] \in {"copying", "copied"} =>
            file'["dat0"][Moving(v)] # Absent
    <3>1. CASE h = "scratch"
      BY <1>32, <3>1, LetGoFiles
    <3>2. CASE h = "dat0"
      BY <1>32, <3>2 DEF LetGo
    <3> QED
      BY <3>1, <3>2
  <2> QED
    BY <2>1, <2>2, <2>3
<1>31. CASE UNCHANGED vars
  BY <1>31 DEF vars
<1> HIDE DEF LockInv, TypeInv, Homes
<1> QED
  BY <1>1, <1>2, <1>3, <1>4, <1>5, <1>6, <1>7, <1>8, <1>9, <1>10, <1>11, <1>12, <1>13, <1>14, <1>15, <1>16, <1>17, <1>18, <1>19, <1>20, <1>21, <1>22, <1>23, <1>24, <1>25, <1>26, <1>27, <1>28, <1>29, <1>30, <1>31, <1>32 DEF Next, SaveStep, BootStep

LEMMA InitLock == Init => LockInv
  BY HomesAssumption DEF Init, LockInv, Empty, Homes, Parts, Moving

\* Unless a recovery row is acted on late, a workspace's engine runs under its
\* lock, whatever else fails or overlaps.
THEOREM UnderLockAlways == "stale" \notin Hazards => (Spec => []UnderLock)
<1> SUFFICES ASSUME "stale" \notin Hazards PROVE Spec => []UnderLock
  OBVIOUS
<1>1. Init => LockInv
  BY InitLock
<1>2. TypeInv /\ LockInv /\ [Next]_vars => LockInv'
  BY NextLock
<1>3. LockInv => UnderLock
  BY DEF LockInv, UnderLock
<1> QED
  BY <1>1, <1>2, <1>3, TypeInvariant, PTL DEF Spec

-----------------------------------------------------------------------------
(* Work is kept. *)

\* Every edit a file or a record names was made, and every edit a record names
\* was recorded; the scratch directory's files are whole; a home that is gone
\* is empty.
FilesInv ==
  /\ noted \subseteq made
  /\ \A w \in Windows : doc[w] \subseteq noted
  /\ \A h \in Homes :
       /\ Held(file[h].db) \subseteq made /\ Held(file[h].wal) \subseteq made
       /\ Held(file[h].json) \subseteq noted
       /\ ~dir[h] => file[h] = Empty
  /\ \A p \in Parts : file["scratch"][p] # Cut

\* Where engines are, and who may touch the scratch directory: at most one
\* window, which is live from its first render on.
SessionWindow(w) == win[w] # "closed" /\ kind[w] # "workspace"
WindowsInv ==
  /\ \A v, w \in Windows : SessionWindow(v) /\ SessionWindow(w) => v = w
  /\ \A w \in Windows :
       /\ engine[w] # "throwaway" /\ (win[w] = "clean" => engine[w] = "dat0")
       /\ engine[w] # NoEngine => win[w] \in Saving \cup {"ready"}
       /\ engine[w] = "dat0" /\ win[w] # "aftermath" => flock = w
       /\ SessionWindow(w) /\ win[w] # "opening" => live
       /\ win[w] = "opening" => kind[w] # "scratch"
       /\ win[w] # "closed" /\ kind[w] = "workspace" =>
            engine[w] \in {NoEngine, "dat0"} /\ target[w] = "dat0" /\ win[w] \notin Saving
       /\ engine[w] = "scratch" \/ win[w] \in Saving \ {"clean"} => dir["scratch"]
       /\ /\ win[w] \in {"booting", "waiting"} /\ kind[w] = "scratch" /\ target[w] = "scratch"
          => dir["scratch"]
       /\ win[w] = "waiting" /\ target[w] = "scratch" => doc[w] = Held(file["scratch"].json)
       /\ /\ win[w] \in {"booting", "waiting", "failed"} /\ kind[w] = "scratch"
          /\ target[w] = "dat0"
          => file["scratch"].db = Absent
       /\ win[w] = "failed" /\ kind[w] = "scratch" => target[w] = "dat0"

\* The file of a window that saves, or that goes on after its save failed, is in
\* no closed window's engine.
LingersInv ==
  \A w \in Windows :
    /\ \/ engine[w] = "scratch" \/ win[w] \in Saving
       \/ win[w] \in {"booting", "waiting"} /\ kind[w] = "scratch"
       => "scratch" \notin lingers
    /\ win[w] = "adopt" => "dat0" \notin lingers

\* Which files a save has moved, phase by phase.
SaveInv ==
  \A w \in Windows :
    /\ win[w] \in {"create", "move", "copying", "copied"} => file["scratch"].wal = Absent
    /\ win[w] = "move" /\ part[w] = 1 => file["dat0"] = Empty
    /\ win[w] \in {"copying", "copied"} =>
         /\ part[w] # 2
         /\ part[w] = 1 => /\ file["dat0"] = [Empty EXCEPT !.db = file["scratch"].db]
                           /\ (noted \ dropped) \cap Contents("scratch")
                                \subseteq Held(file["scratch"].json)
    /\ \/ win[w] \in {"move", "copying", "copied"} /\ part[w] > 1
       \/ win[w] \in {"manifest", "adopt", "clean"}
       => file["scratch"].db = Absent

\* Recorded work of the scratch directory is in the record beside it, or, once
\* the other home is finished, there too.
BesideInv ==
  /\ (noted \ dropped) \cap Contents("scratch")
       \subseteq Held(file["scratch"].json) \cup Contents("dat0")
  /\ ~manifest => (noted \ dropped) \cap Contents("scratch") \subseteq Held(file["scratch"].json)

\* The directory the sweep chose has a record that names nothing, and no window
\* has it or is about to open it.
Nothing == file["scratch"].json \in {Absent, {}}
ChoiceInv ==
  /\ sweep = "chosen" => Nothing /\ ~live /\ \A w \in Windows : ~SessionWindow(w)
  /\ \A w \in Windows :
       win[w] = "opening" /\ kind[w] = "recover" /\ dir["scratch"] => ~Nothing

WorkInv == FilesInv /\ WindowsInv /\ LingersInv /\ SaveInv /\ BesideInv /\ ChoiceInv /\ WorkKept


\* The environment only makes system calls of a save fail.
Calm == "stale" \notin Hazards /\ "overlap" \notin Hazards /\ "reopen" \notin Hazards

LEMMA HeldFacts ==
  /\ Held(Absent) = {} /\ Held(Cut) = {}
  /\ \A s \in SUBSET Edits : Held(s) = s
  /\ \A f \in File : f # Absent /\ f # Cut => f \in SUBSET Edits
  BY HomesAssumption DEF Held, File

\* A window's engine is in a home that is there.
LEMMA EngineHome ==
  ASSUME TypeInv, LockInv, WindowsInv, NEW w \in Windows, engine[w] # NoEngine, win[w] # "aftermath"
  PROVE  engine[w] \in Homes /\ dir[engine[w]]
  BY HomesAssumption DEF TypeInv, TypeOK, WinsOK, ProcOK, LockInv, WindowsInv, Homes

\* What a home holds was made.
LEMMA ContentsMade ==
  ASSUME TypeInv, FilesInv, NEW h \in Homes
  PROVE  /\ Contents(h) \in SUBSET Edits /\ Contents(h) \subseteq made
         /\ Held(Contents(h)) = Contents(h)
<1>1. Contents(h) \in SUBSET Edits
  BY ContentsType DEF TypeInv, TypeOK
<1>2. Contents(h) \subseteq made
  BY DEF Contents, FilesInv, Held
<1> QED
  BY <1>1, <1>2, HeldFacts


LEMMA SameEdits ==
  (\A h \in Homes : file'[h].db = file[h].db /\ file'[h].wal = file[h].wal)
    => \A h \in Homes : Contents(h)' = Contents(h)
  BY DEF Contents

LEMMA SameContents ==
  \A h \in Homes : file'[h] = file[h] => Contents(h)' = Contents(h)
  BY DEF Contents

\* The step of KeptWork that a step of SessionHomes is.
KeptStep == [Kept!Next]_(Kept!vars)

\* What leaves the work of the two homes together is a step of KeptWork,
\* whichever homes windows come to and leave.
LEMMA SameWork ==
  ASSUME UNCHANGED <<noted, dropped>>,
         Contents("scratch")' \cup Contents("dat0")' = Contents("scratch") \cup Contents("dat0")
  PROVE  KeptStep
<1>1. Kept!Work = Contents("scratch") \cup Contents("dat0")
  BY DEF Kept!Work, Homes
<1>2. (Kept!Work)' = Contents("scratch")' \cup Contents("dat0")'
  BY DEF Kept!Work, Homes
<1>3. Working' \in SUBSET Homes
  BY DEF Working
<1>4. Kept!Move
  BY <1>1, <1>2, <1>3 DEF Kept!Move
<1> QED
  BY <1>4 DEF KeptStep, Kept!Next

LEMMA SameKept ==
  ASSUME BesideInv, \A g \in Homes : Contents(g)' = Contents(g),
         Held(file["scratch"].json)' = Held(file["scratch"].json), UNCHANGED <<noted, dropped>>,
         manifest => manifest'
  PROVE  BesideInv' /\ KeptStep
  BY SameWork DEF BesideInv, Homes

\* Of a home no window works on, the user gives up what the other does not hold.
LEMMA DiscardedHome ==
  ASSUME NEW h \in Homes, NEW other \in Homes \ {h}, h \notin Working,
         dropped' = dropped \cup (Contents(h) \ Contents(other)),
         Contents(h)' = {}, Contents(other)' = Contents(other),
         UNCHANGED <<noted, win, engine>>
  PROVE  KeptStep
<1>1. Homes = {h, other}
  BY DEF Homes
<1>2. Kept!Only(h) = Contents(h) \ Contents(other)
  BY <1>1 DEF Kept!Only
<1>3. [g \in Homes |-> Contents(g)]' = [[g \in Homes |-> Contents(g)] EXCEPT ![h] = {}]
  BY <1>1
<1>4. Working' = Working
  BY DEF Working
<1>5. (noted \ dropped)' = (noted \ dropped) \ Kept!Only(h)
  BY <1>2
<1>6. Kept!Discard
  BY <1>3, <1>4, <1>5 DEF Kept!Discard
<1> QED
  BY <1>6 DEF KeptStep, Kept!Next

\* A home no window works on is swept, with nothing recorded that it alone holds.
LEMMA SweptHome ==
  ASSUME NEW h \in Homes, NEW other \in Homes \ {h}, h \notin Working,
         (noted \ dropped) \cap Contents(h) \subseteq Contents(other),
         Contents(h)' = {}, Contents(other)' = Contents(other),
         UNCHANGED <<noted, dropped, win, engine>>
  PROVE  KeptStep
<1>1. Homes = {h, other}
  BY DEF Homes
<1>2. Kept!Only(h) = Contents(h) \ Contents(other)
  BY <1>1 DEF Kept!Only
<1>3. [g \in Homes |-> Contents(g)]' = [[g \in Homes |-> Contents(g)] EXCEPT ![h] = {}]
  BY <1>1
<1>4. Working' = Working
  BY DEF Working
<1>5. (noted \ dropped) \cap Kept!Only(h) = {}
  BY <1>2
<1>6. Kept!Sweep
  BY <1>3, <1>4, <1>5 DEF Kept!Sweep
<1> QED
  BY <1>6 DEF KeptStep, Kept!Next

\* An edit e, not recorded yet, is added to home h.
LEMMA AddedEdit ==
  ASSUME NEW h \in Homes, NEW e \in Edits, Contents(h)' = Contents(h) \cup {e},
         \A g \in Homes \ {h} : Contents(g)' = Contents(g),
         UNCHANGED <<noted, dropped, win, engine>>
  PROVE  KeptStep
<1>1. [g \in Homes |-> Contents(g)]'
        = [[g \in Homes |-> Contents(g)] EXCEPT ![h] = Contents(h) \cup {e}]
  OBVIOUS
<1>2. Working' = Working
  BY DEF Working
<1>3. Kept!Commit
  BY <1>1, <1>2 DEF Kept!Commit
<1> QED
  BY <1>3 DEF KeptStep, Kept!Next

\* A checkpoint leaves what a home holds.
LEMMA CheckpointContents ==
  ASSUME TypeInv, FilesInv, NEW h \in Homes, file[h].db \notin {Absent, Cut},
         file' = [file EXCEPT ![h].db = Contents(h), ![h].wal = Absent]
  PROVE  \A g \in Homes : Contents(g)' = Contents(g)
<1>1. Contents(h) \notin {Absent, Cut}
  BY ContentsMade, HomesAssumption
<1>2. file'[h].db = Contents(h) /\ file'[h].wal = Absent
  BY DEF TypeInv, TypeOK, DiskOK, Homes, Parts
<1>3. Contents(h)' = Contents(h)
  BY <1>1, <1>2, HeldFacts DEF Contents
<1>4. \A g \in Homes \ {h} : file'[g] = file[g]
  BY DEF TypeInv, TypeOK, DiskOK
<1> QED
  BY <1>3, <1>4, SameContents

\* Neither does opening it.
LEMMA OpenedContents ==
  ASSUME TypeInv, NEW h \in Homes, file[h].db # Cut, NEW json \in File,
         file' = [file EXCEPT ![h] =
                    [db |-> Held(file[h].db),
                     wal |-> IF file[h].db = Absent THEN Absent ELSE file[h].wal,
                     json |-> json]]
  PROVE  \A g \in Homes : Contents(g)' = Contents(g)
<1>1. Held(file[h].db) \notin {Absent, Cut}
  <2>1. file[h].db \in File
    BY DEF TypeInv, TypeOK, DiskOK, Parts
  <2>2. Held(file[h].db) \in SUBSET Edits
    BY <2>1, HeldType
  <2> QED
    BY <2>2, HomesAssumption
<1>2. /\ file'[h].db = Held(file[h].db)
      /\ file'[h].wal = IF file[h].db = Absent THEN Absent ELSE file[h].wal
  BY DEF TypeInv, TypeOK, DiskOK, Homes, Parts
<1>3. Contents(h)' = Contents(h)
  <2>1. CASE file[h].db = Absent
    <3>1. Contents(h) = {} /\ Held(file[h].db) = {} /\ Held(Absent) = {}
      BY <2>1 DEF Contents, Held
    <3> QED
      BY <1>1, <1>2, <2>1, <3>1 DEF Contents
  <2>2. CASE file[h].db # Absent
    <3>1. Held(file[h].db) = file[h].db
      BY <2>2 DEF Held
    <3> QED
      BY <1>2, <2>2, <3>1 DEF Contents
  <2> QED
    BY <2>1, <2>2
<1>4. \A g \in Homes \ {h} : file'[g] = file[g]
  BY DEF TypeInv, TypeOK, DiskOK
<1> QED
  BY <1>3, <1>4, SameContents

\* Who has the session: a window on the scratch directory, or one that saves.
LEMMA SessionWindows ==
  ASSUME TypeInv, WindowsInv
  PROVE  \A w \in Windows :
           \/ engine[w] = "scratch"
           \/ win[w] \in Saving
           \/ win[w] = "waiting" /\ target[w] = "scratch"
           => SessionWindow(w) /\ \A v \in Windows \ {w} : ~SessionWindow(v)
<1> SUFFICES ASSUME NEW w \in Windows, \/ engine[w] = "scratch"
                                       \/ win[w] \in Saving
                                       \/ win[w] = "waiting" /\ target[w] = "scratch"
             PROVE  SessionWindow(w)
  BY DEF WindowsInv
<1> QED
  BY DEF WindowsInv, SessionWindow, Saving, Sync, NoEngine

LEMMA NextFiles ==
  ASSUME TypeInv, LockInv, WorkInv, Calm, [Next]_vars PROVE FilesInv'
<1> USE HomesAssumption DEF WorkInv, Calm, TypeInv, TypeOK, Homes, Parts, NoEngine, Turn, UIFree, disk, wins, proc, ghost, FilesInv, DiskOK, WinsOK, GhostOK, File, Empty
<1>1. ASSUME NEW w \in Windows, NEW e \in Edits, Commit(w, e) PROVE FilesInv'
  <2>1. engine[w] \in Homes /\ dir[engine[w]] /\ engine[w] # "throwaway"
    BY <1>1, EngineHome DEF Commit, HasEngine, WindowsInv
  <2>2. file' = [file EXCEPT ![engine[w]].wal = Held(@) \cup {e}]
    BY <1>1, <2>1 DEF Commit
  <2>3. made' = made \cup {e} /\ UNCHANGED <<dir, doc, noted>>
    BY <1>1 DEF Commit
  <2>4. \A h \in Homes : Held(file'[h].wal) \subseteq made'
    <3>1. Held(file[engine[w]].wal) \cup {e} \in SUBSET Edits
      BY <2>1, HeldType
    <3> QED
      BY <2>1, <2>2, <2>3, <3>1, HeldFacts
  <2> QED
    BY <2>1, <2>2, <2>3, <2>4, HeldFacts
<1>2. ASSUME NEW w \in Windows, Note(w) PROVE FilesInv'
  <2>1. engine[w] = RecordHome(w) /\ engine[w] \in Homes /\ dir[engine[w]]
    BY <1>2, EngineHome DEF Note, HasEngine, WindowsInv, RecordHome
  <2> DEFINE h == engine[w]
             seen == Contents(h)
  <2>2. file' = [file EXCEPT ![h].json = doc[w] \cup seen] /\ doc' = [doc EXCEPT ![w] = @ \cup seen]
    BY <1>2, <2>1 DEF Note
  <2>3. noted' = noted \cup doc[w] \cup seen /\ UNCHANGED <<dir, made>>
    BY <1>2, <2>1 DEF Note
  <2>4. seen \in SUBSET Edits /\ seen \subseteq made
    BY <2>1, ContentsMade
  <2>5. Held(doc[w] \cup seen) = doc[w] \cup seen /\ doc[w] \cup seen # Cut
    BY <2>4, HeldFacts
  <2> HIDE DEF h, seen
  <2>6. h \in Homes /\ dir[h]
    BY <2>1 DEF h
  <2>7. noted' \subseteq made' /\ \A v \in Windows : doc'[v] \subseteq noted'
    BY <2>2, <2>3, <2>4
  <2>8. /\ \A g \in Homes : /\ file'[g].db = file[g].db /\ file'[g].wal = file[g].wal
                           /\ file'[g].json = IF g = h THEN doc[w] \cup seen ELSE file[g].json
        /\ \A g \in Homes \ {h} : file'[g] = file[g]
    BY <2>2, <2>6
  <2> QED
    BY <2>3, <2>5, <2>6, <2>7, <2>8
<1>3. ASSUME NEW w \in Windows, StartSave(w) PROVE FilesInv'
  BY <1>3 DEF StartSave
<1>4. ASSUME NEW w \in Windows, Checkpoint(w) PROVE FilesInv'
  <2>1. Contents("scratch") \subseteq made /\ Held(Contents("scratch")) = Contents("scratch")
    BY ContentsMade
  <2>2. engine[w] # "throwaway" /\ dir["scratch"] /\ Contents("scratch") # Cut
    BY <1>4, ContentsMade DEF Checkpoint, WindowsInv, Saving, Sync
  <2>3. \/ file' = file
        \/ file' = [file EXCEPT !["scratch"].db = Contents("scratch"), !["scratch"].wal = Absent]
    BY <1>4, <2>2 DEF Checkpoint
  <2>4. UNCHANGED <<dir, noted, made, doc>>
    BY <1>4 DEF Checkpoint
  <2> QED
    BY <2>1, <2>2, <2>3, <2>4, HeldFacts
<1>5. ASSUME NEW w \in Windows, CreateDat0(w) PROVE FilesInv'
  BY <1>5 DEF CreateDat0, FailSave
<1>6. ASSUME NEW w \in Windows, Rename(w) PROVE FilesInv'
  <2>1. Moving(w) \in Parts
    BY MoveOrderFacts DEF Moving
  <2>2. UNCHANGED <<dir, noted, made, doc>> /\ dir["scratch"] /\ dir["dat0"]
    BY <1>6 DEF Rename, WindowsInv, LockInv, Saving, Sync
  <2>3. \/ file' = file
        \/ file' = [file EXCEPT !["dat0"][Moving(w)] = file["scratch"][Moving(w)],
                                !["scratch"][Moving(w)] = Absent]
    BY <1>6 DEF Rename
  <2> QED
    BY <2>1, <2>2, <2>3, HeldFacts
<1>7. ASSUME NEW w \in Windows, StartCopy(w) PROVE FilesInv'
  <2>1. Moving(w) \in Parts
    BY MoveOrderFacts DEF Moving
  <2>2. UNCHANGED <<dir, noted, made, doc>> /\ dir["scratch"] /\ dir["dat0"]
    BY <1>7 DEF StartCopy, WindowsInv, LockInv, Saving, Sync
  <2>3. file' = [file EXCEPT !["dat0"][Moving(w)] = file["scratch"][Moving(w)]]
    BY <1>7 DEF StartCopy
  <2> QED
    BY <2>1, <2>2, <2>3, HeldFacts
<1>8. ASSUME NEW w \in Windows, FinishCopy(w) PROVE FilesInv'
  <2>1. Moving(w) \in Parts
    BY MoveOrderFacts DEF Moving
  <2>2. UNCHANGED <<dir, noted, made, doc>> /\ dir["scratch"] /\ dir["dat0"]
    BY <1>8 DEF FinishCopy, WindowsInv, LockInv, Saving, Sync
  <2>3. \/ file' = file
        \/ \E left \in {Absent, Cut} : file' = [file EXCEPT !["dat0"][Moving(w)] = left]
    BY <1>8 DEF FinishCopy
  <2> QED
    BY <2>1, <2>2, <2>3, HeldFacts
<1>9. ASSUME NEW w \in Windows, RemoveSource(w) PROVE FilesInv'
  <2>1. Moving(w) \in Parts
    BY MoveOrderFacts DEF Moving
  <2>2. UNCHANGED <<dir, noted, made, doc>> /\ dir["scratch"] /\ dir["dat0"]
    BY <1>9 DEF RemoveSource, WindowsInv, LockInv, Saving, Sync
  <2>3. file' = file \/ file' = [file EXCEPT !["scratch"][Moving(w)] = Absent]
    BY <1>9 DEF RemoveSource
  <2> QED
    BY <2>1, <2>2, <2>3, HeldFacts
<1>10. ASSUME NEW w \in Windows, WriteManifest(w) PROVE FilesInv'
  BY <1>10 DEF WriteManifest, FailSave
<1>11. ASSUME NEW w \in Windows, Adopt(w) PROVE FilesInv'
  BY <1>11, HeldFacts DEF Adopt, FailSave
<1>12. ASSUME NEW w \in Windows, Clean(w) PROVE FilesInv'
  BY <1>12, HeldFacts DEF Clean
<1>13. ASSUME NEW w \in Windows, Aftermath(w) PROVE FilesInv'
  BY <1>13, HeldFacts DEF Aftermath
<1>14. ASSUME NEW w \in Windows, Mount(w) PROVE FilesInv'
  BY <1>14 DEF Mount
<1>15. ASSUME NEW w \in Windows, ReadRecord(w) PROVE FilesInv'
  BY <1>15, HeldFacts DEF ReadRecord
<1>16. ASSUME NEW w \in Windows, OpenEngine(w) PROVE FilesInv'
  <2> DEFINE h == target[w]
             db == Held(file[h].db)
             wal == IF file[h].db = Absent THEN Absent ELSE file[h].wal
  <2>1. file' = [file EXCEPT ![h] = [db |-> db, wal |-> wal, json |-> doc[w]]]
    BY <1>16 DEF OpenEngine
  <2>2. h \in Homes /\ dir[h] /\ UNCHANGED <<dir, noted, made, doc>>
    BY <1>16 DEF OpenEngine
  <2>3. db # Cut /\ doc[w] # Cut /\ Held(db) \subseteq made /\ Held(doc[w]) \subseteq noted
    BY <2>2, HeldFacts, HeldType
  <2>4. Held(wal) \subseteq made /\ (h = "scratch" => wal # Cut)
    BY <2>2, HeldFacts
  <2> HIDE DEF h, db, wal
  <2> QED
    BY <2>1, <2>2, <2>3, <2>4
<1>17. ASSUME NEW w \in Windows, OpenFails(w) PROVE FilesInv'
  BY <1>17, HeldFacts DEF OpenFails
<1>18. ASSUME NEW w \in Windows, Retry(w) PROVE FilesInv'
  BY <1>18 DEF Retry
<1>19. ASSUME NEW w \in Windows, RetryNew(w) PROVE FilesInv'
  <2> DEFINE db == Held(file["scratch"].db)
             wal == IF file["scratch"].db = Absent THEN Absent ELSE file["scratch"].wal
  <2>1. file' = [file EXCEPT !["scratch"] = [db |-> db, wal |-> wal, json |-> {}]]
    BY <1>19 DEF RetryNew
  <2>2. UNCHANGED <<noted, made>> /\ dir' = [dir EXCEPT !["scratch"] = TRUE]
        /\ doc' = [doc EXCEPT ![w] = {}]
    BY <1>19 DEF RetryNew
  <2>3. db # Cut /\ {} # Cut /\ Held(db) \subseteq made /\ Held({}) \subseteq noted
    <3>1. file["scratch"].db \in File /\ db \subseteq made
      OBVIOUS
    <3>2. db \in SUBSET Edits /\ {} \in SUBSET Edits
      BY <3>1, HeldType
    <3>3. db # Cut /\ {} # Cut /\ Held(db) = db /\ Held({}) = {}
      BY <3>2, HeldFacts, HomesAssumption
    <3> QED
      BY <3>1, <3>3
  <2>4. Held(wal) \subseteq made /\ wal # Cut
    BY HeldFacts
  <2> HIDE DEF db, wal
  <2> QED
    BY <2>1, <2>2, <2>3, <2>4
<1>20. ASSUME NEW w \in Windows, CloseWindow(w) PROVE FilesInv'
  <2> DEFINE h == engine[w]
  <2>1. h \in Homes => dir[h] /\ Contents(h) \subseteq made /\ Held(Contents(h)) = Contents(h)
                       /\ Contents(h) # Cut
    <3>1. h \in Homes => dir[h]
      BY <1>20, EngineHome DEF CloseWindow, Sync
    <3> QED
      BY <3>1, ContentsMade
  <2>2. \/ file' = file
        \/ h \in Homes /\ file' = [file EXCEPT ![h].db = Contents(h), ![h].wal = Absent]
    BY <1>20 DEF CloseWindow
  <2>3. UNCHANGED <<noted, made, dir>> /\ doc' = [doc EXCEPT ![w] = {}]
    BY <1>20 DEF CloseWindow
  <2> HIDE DEF h
  <2> QED
    BY <2>1, <2>2, <2>3, HeldFacts
<1>21. ASSUME NEW w \in Windows, OpenWorkspace(w) PROVE FilesInv'
  BY <1>21 DEF OpenWorkspace, NewWindow
<1>22. ASSUME NEW w \in Windows, OpenOrphan(w) PROVE FilesInv'
  BY <1>22 DEF OpenOrphan, NewWindow, May, Listed, NothingToRecover
<1>23. ASSUME NEW w \in Windows, Resume(w) PROVE FilesInv'
  BY <1>23 DEF Resume, NewWindow, May, Listed
<1>24. ASSUME Look PROVE FilesInv'
  BY <1>24 DEF Look
<1>25. ASSUME DiscardOrphan PROVE FilesInv'
  BY <1>25, HeldFacts DEF DiscardOrphan, May, Listed
<1>26. ASSUME DiscardIncomplete PROVE FilesInv'
  BY <1>26, HeldFacts DEF DiscardIncomplete, May, Listed, Incomplete
<1>27. ASSUME Die PROVE FilesInv'
  <2>1. UNCHANGED <<dir, noted, made>> /\ doc' = [v \in Windows |-> {}]
    BY <1>27 DEF Die
  <2>2. CASE file' = file
    BY <2>1, <2>2
  <2>3. ASSUME NEW v \in Windows, win[v] = "copying",
               file' = [file EXCEPT !["dat0"][Moving(v)] = Cut]
        PROVE  FilesInv'
    <3>1. Moving(v) \in Parts /\ dir["dat0"]
      BY <2>3, MoveOrderFacts DEF Moving, LockInv
    <3> QED
      BY <2>1, <2>3, <3>1, HeldFacts
  <2> QED
    BY <1>27, <2>2, <2>3 DEF Die
<1>28. ASSUME Boot PROVE FilesInv'
  BY <1>28 DEF Boot
<1>29. ASSUME SweepDecides PROVE FilesInv'
  BY <1>29 DEF SweepDecides
<1>30. ASSUME SweepRemoves PROVE FilesInv'
  BY <1>30, HeldFacts DEF SweepRemoves
<1>32. ASSUME NEW h \in Homes, LetGo(h) PROVE FilesInv'
  <2>1. UNCHANGED <<dir, doc, noted>> /\ made \subseteq made'
    BY <1>32 DEF LetGo
  <2>2. CASE file' = file
    BY <2>1, <2>2
  <2>3. ASSUME NEW last \in SUBSET (Edits \ made), made' = made \cup last,
               file[h].db \notin {Absent, Cut},
               file'[h].db = Contents(h) \cup last, file'[h].wal = Absent
        PROVE  FilesInv'
    <3>1. Contents(h) \cup last \in SUBSET Edits /\ Contents(h) \subseteq made
      BY ContentsMade
    <3>2. Held(file'[h].db) = Contents(h) \cup last /\ Held(file'[h].wal) = {}
      BY <2>3, <3>1, HeldFacts
    <3>3. dir[h] /\ file'[h].db # Cut /\ file'[h].wal # Cut
      BY <2>3, <3>1
    <3>4. \A g \in Homes : file'[g].json = file[g].json /\ (g # h => file'[g] = file[g])
      BY <1>32, LetGoFiles
    <3>5. \A g \in Homes : Held(file'[g].db) \subseteq made' /\ Held(file'[g].wal) \subseteq made'
                            /\ Held(file'[g].json) \subseteq noted
      BY <2>1, <2>3, <3>1, <3>2, <3>4
    <3>6. \A p \in Parts : file'["scratch"][p] # Cut
      BY <2>3, <3>3, <3>4
    <3>7. \A g \in Homes : ~dir[g] => file'[g] = Empty
      BY <3>3, <3>4
    <3> QED
      BY <2>1, <3>5, <3>6, <3>7
  <2> QED
    BY <1>32, <2>2, <2>3, LetGoFiles
<1>31. CASE UNCHANGED vars
  BY <1>31 DEF vars
<1> QED
  BY <1>1, <1>2, <1>3, <1>4, <1>5, <1>6, <1>7, <1>8, <1>9, <1>10, <1>11, <1>12, <1>13, <1>14, <1>15, <1>16, <1>17, <1>18, <1>19, <1>20, <1>21, <1>22, <1>23, <1>24, <1>25, <1>26, <1>27, <1>28, <1>29, <1>30, <1>31, <1>32 DEF Next, SaveStep, BootStep

LEMMA NextWindows ==
  ASSUME TypeInv, LockInv, WorkInv, Calm, [Next]_vars PROVE WindowsInv'
<1> USE HomesAssumption DEF WorkInv, Calm, TypeInv, TypeOK, Homes, Parts, NoEngine, Turn, UIFree, disk, wins, proc, ghost, WindowsInv, SessionWindow, WinsOK, DiskOK, ProcOK, Sync, Saving, Phases
<1>1. ASSUME NEW w \in Windows, NEW e \in Edits, Commit(w, e) PROVE WindowsInv'
  BY <1>1 DEF Commit
<1>2. ASSUME NEW w \in Windows, Note(w) PROVE WindowsInv'
  <2>1. engine[w] = RecordHome(w) /\ engine[w] \in Homes
    BY <1>2, EngineHome DEF Note, HasEngine, RecordHome
  <2>2. file'["scratch"].json # file["scratch"].json => SessionWindow(w)
    BY <1>2, <2>1, SessionWindows DEF Note
  <2>3. \A v \in Windows : win[v] = "waiting" /\ target[v] = "scratch" =>
          file'["scratch"].json = file["scratch"].json /\ doc'[v] = doc[v]
    BY <1>2, <2>2, SessionWindows DEF Note
  <2>4. UNCHANGED <<win, kind, target, engine, flock, live, dir>>
        /\ file'["scratch"].db = file["scratch"].db
    BY <1>2, <2>1 DEF Note
  <2> QED
    BY <2>3, <2>4
<1>3. ASSUME NEW w \in Windows, StartSave(w) PROVE WindowsInv'
  <2>1. engine[w] = "scratch" /\ dir["scratch"] /\ kind[w] # "workspace"
    BY <1>3, EngineHome DEF StartSave, HasEngine
  <2> QED
    BY <1>3, <2>1 DEF StartSave
<1>4. ASSUME NEW w \in Windows, Checkpoint(w) PROVE WindowsInv'
  BY <1>4 DEF Checkpoint
<1>5. ASSUME NEW w \in Windows, CreateDat0(w) PROVE WindowsInv'
  <2>1. \A v \in Windows : engine[v] = "dat0" => win[v] = "aftermath"
    BY <1>5 DEF CreateDat0, LockInv
  <2>2. UNCHANGED <<file, kind, target, engine, doc, live>> /\ dir'["scratch"] = dir["scratch"]
    BY <1>5 DEF CreateDat0
  <2>3. win[w] = "create" /\ win' = [win EXCEPT ![w] = win'[w]] /\ win'[w] \in {"move", "aftermath"}
    BY <1>5 DEF CreateDat0, FailSave
  <2> QED
    BY <2>1, <2>2, <2>3
<1>6. ASSUME NEW w \in Windows, Rename(w) PROVE WindowsInv'
  <2>1. flock = w /\ win[w] = "move" /\ SessionWindow(w)
    BY <1>6, SessionWindows DEF Rename, LockInv
  <2>2. \A v \in Windows : ~(win[v] = "waiting" /\ target[v] = "scratch")
    BY <2>1, SessionWindows
  <2>3. UNCHANGED <<kind, target, dir, live>>
    BY <1>6 DEF Rename
  <2>4. /\ win' = [win EXCEPT ![w] = win'[w]] /\ win'[w] \in {"move", "manifest", "aftermath"}
        /\ engine' \in {engine, [engine EXCEPT ![w] = "dat0"]}
        /\ win'[w] # "aftermath" => flock' = flock
        /\ flock' \in {flock, NoWindow}
    BY <1>6, <2>1 DEF Rename, Moved, FailSave
  <2>5. file["scratch"].db = Absent => file'["scratch"].db = Absent
    BY <1>6, MoveOrderFacts DEF Rename, Moving
  <2> QED
    BY <2>1, <2>2, <2>3, <2>4, <2>5
<1>7. ASSUME NEW w \in Windows, StartCopy(w) PROVE WindowsInv'
  BY <1>7, MoveOrderFacts DEF StartCopy, Moving
<1>8. ASSUME NEW w \in Windows, FinishCopy(w) PROVE WindowsInv'
  BY <1>8, MoveOrderFacts DEF FinishCopy, FailSave, Moving
<1>9. ASSUME NEW w \in Windows, RemoveSource(w) PROVE WindowsInv'
  BY <1>9, MoveOrderFacts DEF RemoveSource, FailSave, Moved, Moving
<1>10. ASSUME NEW w \in Windows, WriteManifest(w) PROVE WindowsInv'
  BY <1>10 DEF WriteManifest, FailSave
<1>11. ASSUME NEW w \in Windows, Adopt(w) PROVE WindowsInv'
  <2>1. EngineFree(w, "dat0") /\ dir["dat0"] /\ flock = w /\ SessionWindow(w)
    BY <1>11, SessionWindows DEF Adopt, EngineFree, LockInv, LingersInv
  <2>2. /\ win' = [win EXCEPT ![w] = win'[w]] /\ win'[w] \in {"clean", "ready", "aftermath"}
        /\ win'[w] # "aftermath" => engine' = [engine EXCEPT ![w] = "dat0"] /\ flock' = flock
        /\ win'[w] = "aftermath" => engine' = engine /\ flock' = NoWindow
    BY <1>11, <2>1 DEF Adopt, FailSave
  <2>3. UNCHANGED <<kind, target, dir, live, doc>> /\ file'["scratch"] = file["scratch"]
    BY <1>11 DEF Adopt
  <2>4. engine[w] # NoEngine => win[w] = "adopt"
    BY <1>11 DEF Adopt
  <2> QED
    BY <1>11, <2>1, <2>2, <2>3, <2>4 DEF Adopt
<1>12. ASSUME NEW w \in Windows, Clean(w) PROVE WindowsInv'
  <2>1. \A v \in Windows \ {w} : ~SessionWindow(v) /\ engine[v] # "scratch" /\ win[v] \notin Saving
                                 /\ ~(win[v] = "waiting" /\ target[v] = "scratch")
    BY <1>12, SessionWindows DEF Clean
  <2>2. engine[w] = "dat0" /\ win[w] = "clean"
    BY <1>12 DEF Clean
  <2> QED
    BY <1>12, <2>1, <2>2 DEF Clean
<1>13. ASSUME NEW w \in Windows, Aftermath(w) PROVE WindowsInv'
  BY <1>13 DEF Aftermath
<1>14. ASSUME NEW w \in Windows, Mount(w) PROVE WindowsInv'
  <2>1. win[w] = "opening" /\ kind[w] \in {"recover", "workspace"} /\ engine[w] = NoEngine
    BY <1>14 DEF Mount
  <2>2. /\ UNCHANGED <<file, dir, kind, target, engine, doc, flock>>
        /\ win' = [win EXCEPT ![w] = "booting"]
        /\ live => live'
        /\ kind[w] = "recover" => live'
    BY <1>14 DEF Mount
  <2> QED
    BY <2>1, <2>2
<1>15. ASSUME NEW w \in Windows, ReadRecord(w) PROVE WindowsInv'
  <2>1. file["scratch"].json # Cut /\ win[w] = "booting" /\ engine[w] = NoEngine
    BY <1>15 DEF ReadRecord, FilesInv
  <2>2. UNCHANGED <<file, dir, kind, target, engine, live>>
    BY <1>15 DEF ReadRecord
  <2>3. \/ /\ win' = [win EXCEPT ![w] = "waiting"]
           /\ doc' = [doc EXCEPT ![w] = Held(file[target[w]].json)]
           /\ flock' = flock \/ (target[w] = "dat0" /\ flock = NoWindow)
        \/ /\ win' = [win EXCEPT ![w] = "failed"] /\ target[w] = "dat0"
           /\ UNCHANGED <<doc, flock>>
    BY <1>15, <2>1 DEF ReadRecord
  <2> QED
    BY <2>1, <2>2, <2>3
<1>16. ASSUME NEW w \in Windows, OpenEngine(w) PROVE WindowsInv'
  <2>1. /\ win[w] = "waiting" /\ engine[w] = NoEngine /\ dir[target[w]]
        /\ target[w] = "dat0" => flock = w
    BY <1>16 DEF OpenEngine, LockInv
  <2>2. /\ UNCHANGED <<dir, kind, target, doc, live, flock>>
        /\ win' = [win EXCEPT ![w] = "ready"] /\ engine' = [engine EXCEPT ![w] = target[w]]
    BY <1>16 DEF OpenEngine
  <2>3. target[w] = "scratch" => SessionWindow(w) /\ \A v \in Windows \ {w} : ~SessionWindow(v)
    BY <2>1, SessionWindows
  <2>4. target[w] = "dat0" => file'["scratch"] = file["scratch"]
    BY <1>16 DEF OpenEngine
  <2>5. target[w] = "dat0" \/ target[w] = "scratch"
    OBVIOUS
  <2> QED
    BY <2>1, <2>2, <2>3, <2>4, <2>5
<1>17. ASSUME NEW w \in Windows, OpenFails(w) PROVE WindowsInv'
  <2>1. target[w] # "scratch" \/ kind[w] # "scratch"
    <3> SUFFICES ASSUME target[w] = "scratch", kind[w] = "scratch" PROVE FALSE
      OBVIOUS
    <3>1. EngineFree(w, "scratch")
      BY <1>17, SessionWindows DEF OpenFails, EngineFree, LingersInv
    <3> QED
      BY <1>17, <3>1 DEF OpenFails, FilesInv
  <2>2. /\ UNCHANGED <<file, dir, kind, target, engine, doc, live>>
        /\ win' = [win EXCEPT ![w] = "failed"] /\ win[w] = "waiting"
        /\ flock' = IF flock = w THEN NoWindow ELSE flock
    BY <1>17 DEF OpenFails
  <2> QED
    BY <2>1, <2>2
<1>18. ASSUME NEW w \in Windows, Retry(w) PROVE WindowsInv'
  BY <1>18 DEF Retry
<1>19. ASSUME NEW w \in Windows, RetryNew(w) PROVE WindowsInv'
  BY <1>19 DEF RetryNew
<1>20. ASSUME NEW w \in Windows, CloseWindow(w) PROVE WindowsInv'
  BY <1>20 DEF CloseWindow
<1>21. ASSUME NEW w \in Windows, OpenWorkspace(w) PROVE WindowsInv'
  BY <1>21 DEF OpenWorkspace, NewWindow
<1>22. ASSUME NEW w \in Windows, OpenOrphan(w) PROVE WindowsInv'
  BY <1>22 DEF OpenOrphan, NewWindow, May, Listed, NothingToRecover
<1>23. ASSUME NEW w \in Windows, Resume(w) PROVE WindowsInv'
  BY <1>23 DEF Resume, NewWindow, May, Listed
<1>24. ASSUME Look PROVE WindowsInv'
  BY <1>24 DEF Look
<1>25. ASSUME DiscardOrphan PROVE WindowsInv'
  BY <1>25 DEF DiscardOrphan, May, Listed
<1>26. ASSUME DiscardIncomplete PROVE WindowsInv'
  <2>1. \A v \in Windows : engine[v] # "dat0"
    BY <1>26 DEF DiscardIncomplete, May, Listed, Incomplete, LockInv
  <2>2. /\ UNCHANGED <<win, kind, target, engine, doc, live>>
        /\ file'["scratch"] = file["scratch"] /\ dir'["scratch"] = dir["scratch"]
    BY <1>26 DEF DiscardIncomplete
  <2> QED
    BY <2>1, <2>2
<1>27. ASSUME Die PROVE WindowsInv'
  BY <1>27, MoveOrderFacts DEF Die, Moving
<1>28. ASSUME Boot PROVE WindowsInv'
  BY <1>28 DEF Boot
<1>29. ASSUME SweepDecides PROVE WindowsInv'
  BY <1>29 DEF SweepDecides
<1>30. ASSUME SweepRemoves PROVE WindowsInv'
  <2>1. \A v \in Windows : ~SessionWindow(v) /\ engine[v] # "scratch" /\ win[v] \notin Saving
                                 /\ ~(win[v] = "waiting" /\ target[v] = "scratch")
    BY <1>30, SessionWindows DEF SweepRemoves, ChoiceInv
  <2> QED
    BY <1>30, <2>1 DEF SweepRemoves
<1>32. ASSUME NEW h \in Homes, LetGo(h) PROVE WindowsInv'
  <2>1. UNCHANGED <<win, kind, target, engine, flock, live, dir, doc>>
    BY <1>32 DEF LetGo
  <2>2. /\ file'["scratch"].json = file["scratch"].json
        /\ file'["scratch"].db = Absent <=> file["scratch"].db = Absent
    BY <1>32, LetGoFiles
  <2> QED
    BY <2>1, <2>2
<1>31. CASE UNCHANGED vars
  BY <1>31 DEF vars
<1> HIDE DEF WindowsInv, TypeInv, TypeOK, Homes, WorkInv, SessionWindow, WinsOK, DiskOK, ProcOK
<1> QED
  BY <1>1, <1>2, <1>3, <1>4, <1>5, <1>6, <1>7, <1>8, <1>9, <1>10, <1>11, <1>12, <1>13, <1>14, <1>15, <1>16, <1>17, <1>18, <1>19, <1>20, <1>21, <1>22, <1>23, <1>24, <1>25, <1>26, <1>27, <1>28, <1>29, <1>30, <1>31, <1>32 DEF Next, SaveStep, BootStep

LEMMA NextLingers ==
  ASSUME TypeInv, LockInv, WorkInv, Calm, [Next]_vars PROVE LingersInv'
<1> USE DEF WorkInv, WindowsInv, LingersInv, TypeInv, TypeOK, WinsOK, Homes, NoEngine, Turn,
            SessionWindow, Sync, Saving, disk, wins, proc, ghost
<1>1. ASSUME NEW w \in Windows, NEW e \in Edits, Commit(w, e) PROVE LingersInv'
  BY <1>1 DEF Commit
<1>2. ASSUME NEW w \in Windows, Note(w) PROVE LingersInv'
  BY <1>2 DEF Note, RecordHome
<1>3. ASSUME NEW w \in Windows, StartSave(w) PROVE LingersInv'
  <2>1. engine[w] = "scratch"
    BY <1>3 DEF StartSave, HasEngine
  <2> QED
    BY <1>3, <2>1 DEF StartSave
<1>4. ASSUME NEW w \in Windows, Checkpoint(w) PROVE LingersInv'
  BY <1>4 DEF Checkpoint
<1>5. ASSUME NEW w \in Windows, CreateDat0(w) PROVE LingersInv'
  BY <1>5 DEF CreateDat0, FailSave
<1>6. ASSUME NEW w \in Windows, Rename(w) PROVE LingersInv'
  BY <1>6 DEF Rename, FailSave, Moved
<1>7. ASSUME NEW w \in Windows, StartCopy(w) PROVE LingersInv'
  BY <1>7 DEF StartCopy
<1>8. ASSUME NEW w \in Windows, FinishCopy(w) PROVE LingersInv'
  BY <1>8 DEF FinishCopy, FailSave
<1>9. ASSUME NEW w \in Windows, RemoveSource(w) PROVE LingersInv'
  BY <1>9 DEF RemoveSource, FailSave, Moved
<1>10. ASSUME NEW w \in Windows, WriteManifest(w) PROVE LingersInv'
  BY <1>10 DEF WriteManifest, FailSave, LockInv
<1>11. ASSUME NEW w \in Windows, Adopt(w) PROVE LingersInv'
  BY <1>11 DEF Adopt, FailSave
<1>12. ASSUME NEW w \in Windows, Clean(w) PROVE LingersInv'
  BY <1>12 DEF Clean
<1>13. ASSUME NEW w \in Windows, Aftermath(w) PROVE LingersInv'
  BY <1>13 DEF Aftermath
<1>14. ASSUME NEW w \in Windows, Mount(w) PROVE LingersInv'
  BY <1>14 DEF Mount
<1>15. ASSUME NEW w \in Windows, ReadRecord(w) PROVE LingersInv'
  BY <1>15 DEF ReadRecord
<1>16. ASSUME NEW w \in Windows, OpenEngine(w) PROVE LingersInv'
  BY <1>16 DEF OpenEngine, EngineFree
<1>17. ASSUME NEW w \in Windows, OpenFails(w) PROVE LingersInv'
  BY <1>17 DEF OpenFails
<1>18. ASSUME NEW w \in Windows, Retry(w) PROVE LingersInv'
  BY <1>18 DEF Retry
<1>19. ASSUME NEW w \in Windows, RetryNew(w) PROVE LingersInv'
  BY <1>19 DEF RetryNew, EngineFree
<1>20. ASSUME NEW w \in Windows, CloseWindow(w) PROVE LingersInv'
  <2>1. /\ win' = [win EXCEPT ![w] = "closed"] /\ engine' = [engine EXCEPT ![w] = NoEngine]
        /\ kind' = kind /\ lingers' \subseteq lingers \cup {engine[w]}
    BY <1>20 DEF CloseWindow
  <2>2. ASSUME NEW v \in Windows \ {w},
               \/ engine[v] = "scratch" \/ win[v] \in Saving
               \/ win[v] \in {"booting", "waiting"} /\ kind[v] = "scratch"
        PROVE  engine[w] # "scratch"
    <3>1. SessionWindow(v)
      BY <2>2, SessionWindows
    <3> QED
      BY <3>1, SessionWindows
  <2>3. ASSUME NEW v \in Windows \ {w}, win[v] = "adopt"
        PROVE  engine[w] # "dat0"
    <3>1. flock = v /\ win[w] \notin Sync
      BY <1>20, <2>3 DEF LockInv, CloseWindow
    <3> QED
      BY <3>1
  <2> QED
    BY <2>1, <2>2, <2>3
<1>21. ASSUME NEW w \in Windows, OpenWorkspace(w) PROVE LingersInv'
  BY <1>21 DEF OpenWorkspace, NewWindow
<1>22. ASSUME NEW w \in Windows, OpenOrphan(w) PROVE LingersInv'
  BY <1>22 DEF OpenOrphan, NewWindow
<1>23. ASSUME NEW w \in Windows, Resume(w) PROVE LingersInv'
  BY <1>23 DEF Resume, NewWindow
<1>24. ASSUME Look PROVE LingersInv'
  BY <1>24 DEF Look
<1>25. ASSUME DiscardOrphan PROVE LingersInv'
  BY <1>25 DEF DiscardOrphan
<1>26. ASSUME DiscardIncomplete PROVE LingersInv'
  BY <1>26 DEF DiscardIncomplete
<1>27. ASSUME Die PROVE LingersInv'
  BY <1>27 DEF Die
<1>28. ASSUME Boot PROVE LingersInv'
  BY <1>28 DEF Boot
<1>29. ASSUME SweepDecides PROVE LingersInv'
  BY <1>29 DEF SweepDecides
<1>30. ASSUME SweepRemoves PROVE LingersInv'
  BY <1>30 DEF SweepRemoves
<1>31. CASE UNCHANGED vars
  BY <1>31 DEF vars
<1>32. ASSUME NEW h \in Homes, LetGo(h) PROVE LingersInv'
  BY <1>32 DEF LetGo
<1> QED
  BY <1>1, <1>2, <1>3, <1>4, <1>5, <1>6, <1>7, <1>8, <1>9, <1>10, <1>11, <1>12, <1>13, <1>14, <1>15, <1>16, <1>17, <1>18, <1>19, <1>20, <1>21, <1>22, <1>23, <1>24, <1>25, <1>26, <1>27, <1>28, <1>29, <1>30, <1>31, <1>32 DEF Next, SaveStep, BootStep

LEMMA NextSave ==
  ASSUME TypeInv, LockInv, WorkInv, Calm, [Next]_vars PROVE SaveInv'
<1> USE HomesAssumption DEF WorkInv, Calm, TypeInv, TypeOK, Homes, Parts, NoEngine, Turn, UIFree, disk, wins, proc, ghost, SaveInv, WinsOK, DiskOK, GhostOK, Sync, Saving, Phases, File, Empty
<1>1. ASSUME NEW w \in Windows, NEW e \in Edits, Commit(w, e) PROVE SaveInv'
  BY <1>1 DEF Commit
<1>2. ASSUME NEW w \in Windows, Note(w) PROVE SaveInv'
  BY <1>2 DEF Note, RecordHome
<1>3. ASSUME NEW w \in Windows, StartSave(w) PROVE SaveInv'
  BY <1>3 DEF StartSave
<1>4. ASSUME NEW w \in Windows, Checkpoint(w) PROVE SaveInv'
  <2>1. \A v \in Windows \ {w} : win[v] \notin Saving
    BY <1>4, SessionWindows DEF Checkpoint
  <2>2. /\ win' = [win EXCEPT ![w] = win'[w]] /\ win'[w] \in {"create", "ready"}
        /\ win'[w] = "create" => file'["scratch"].wal = Absent
    BY <1>4 DEF Checkpoint, WindowsInv
  <2> QED
    BY <2>1, <2>2
<1>5. ASSUME NEW w \in Windows, CreateDat0(w) PROVE SaveInv'
  <2>1. \A v \in Windows \ {w} : win[v] \notin Saving
    BY <1>5, SessionWindows DEF CreateDat0
  <2>2. file["dat0"] = Empty /\ file["scratch"].wal = Absent /\ file' = file
    BY <1>5 DEF CreateDat0, FilesInv, LockInv
  <2>3. /\ win' = [win EXCEPT ![w] = win'[w]] /\ win'[w] \in {"move", "aftermath"}
        /\ win'[w] = "move" => part'[w] = 1
    BY <1>5 DEF CreateDat0, FailSave
  <2> QED
    BY <2>1, <2>2, <2>3
<1>6. ASSUME NEW w \in Windows, Rename(w) PROVE SaveInv'
  BY <1>6, MoveOrderFacts DEF Rename, FailSave, Moved, Moving
<1>7. ASSUME NEW w \in Windows, StartCopy(w) PROVE SaveInv'
  <2>1. \A v \in Windows \ {w} : win[v] \notin Saving
    BY <1>7, SessionWindows DEF StartCopy
  <2>2. /\ win[w] = "move" /\ file["scratch"].wal = Absent /\ part' = part
        /\ win' = [win EXCEPT ![w] = "copying"]
    BY <1>7 DEF StartCopy
  <2>3. part[w] # 2
    BY <1>7, MoveOrderFacts DEF StartCopy, Moving
  <2>4. file'["scratch"] = file["scratch"] /\ Contents("scratch")' = Contents("scratch")
        /\ UNCHANGED <<noted, dropped>>
    BY <1>7, SameContents, MoveOrderFacts DEF StartCopy, Moving
  <2>5. ASSUME part[w] = 1
        PROVE  /\ file'["dat0"] = [Empty EXCEPT !.db = file["scratch"].db]
               /\ (noted \ dropped) \cap Contents("scratch") \subseteq Held(file["scratch"].json)
    <3>1. file["dat0"] = Empty /\ Contents("dat0") = {}
      BY <2>2, <2>5 DEF Contents
    <3>2. Moving(w) = "db"
      BY <2>5, MoveOrderFacts DEF Moving
    <3> QED
      BY <1>7, <3>1, <3>2 DEF StartCopy, BesideInv
  <2> QED
    BY <2>1, <2>2, <2>3, <2>4, <2>5
<1>8. ASSUME NEW w \in Windows, FinishCopy(w) PROVE SaveInv'
  <2>1. \A v \in Windows \ {w} : win[v] \notin Saving
    BY <1>8, SessionWindows DEF FinishCopy
  <2>2. /\ win[w] = "copying" /\ win' = [win EXCEPT ![w] = win'[w]]
        /\ (win'[w] = "copied" /\ file' = file) \/ win'[w] = "aftermath"
        /\ UNCHANGED <<part, noted, dropped>>
    BY <1>8 DEF FinishCopy, FailSave
  <2> QED
    BY <2>1, <2>2, SameContents
<1>9. ASSUME NEW w \in Windows, RemoveSource(w) PROVE SaveInv'
  BY <1>9, MoveOrderFacts DEF RemoveSource, FailSave, Moved, Moving
<1>10. ASSUME NEW w \in Windows, WriteManifest(w) PROVE SaveInv'
  BY <1>10 DEF WriteManifest, FailSave
<1>11. ASSUME NEW w \in Windows, Adopt(w) PROVE SaveInv'
  BY <1>11 DEF Adopt, FailSave
<1>12. ASSUME NEW w \in Windows, Clean(w) PROVE SaveInv'
  BY <1>12 DEF Clean
<1>13. ASSUME NEW w \in Windows, Aftermath(w) PROVE SaveInv'
  BY <1>13 DEF Aftermath
<1>14. ASSUME NEW w \in Windows, Mount(w) PROVE SaveInv'
  BY <1>14 DEF Mount
<1>15. ASSUME NEW w \in Windows, ReadRecord(w) PROVE SaveInv'
  BY <1>15 DEF ReadRecord
<1>16. ASSUME NEW w \in Windows, OpenEngine(w) PROVE SaveInv'
  <2>1. win[w] = "waiting" /\ win' = [win EXCEPT ![w] = "ready"] /\ part' = part
        /\ \A v \in Windows : win[v] \notin Sync
    BY <1>16 DEF OpenEngine
  <2>2. file'["scratch"].db # file["scratch"].db => \A v \in Windows : win[v] \notin Saving
    BY <1>16, <2>1, SessionWindows DEF OpenEngine
  <2> QED
    BY <2>1, <2>2
<1>17. ASSUME NEW w \in Windows, OpenFails(w) PROVE SaveInv'
  BY <1>17 DEF OpenFails
<1>18. ASSUME NEW w \in Windows, Retry(w) PROVE SaveInv'
  BY <1>18 DEF Retry
<1>19. ASSUME NEW w \in Windows, RetryNew(w) PROVE SaveInv'
  <2>1. \A v \in Windows : win[v] \notin Saving
    BY <1>19, SessionWindows DEF RetryNew, SessionWindow, WindowsInv
  <2>2. win' = [win EXCEPT ![w] = "ready"]
    BY <1>19 DEF RetryNew
  <2> QED
    BY <2>1, <2>2
<1>20. ASSUME NEW w \in Windows, CloseWindow(w) PROVE SaveInv'
  BY <1>20 DEF CloseWindow
<1>21. ASSUME NEW w \in Windows, OpenWorkspace(w) PROVE SaveInv'
  BY <1>21 DEF OpenWorkspace, NewWindow
<1>22. ASSUME NEW w \in Windows, OpenOrphan(w) PROVE SaveInv'
  BY <1>22 DEF OpenOrphan, NewWindow, May, Listed, NothingToRecover
<1>23. ASSUME NEW w \in Windows, Resume(w) PROVE SaveInv'
  BY <1>23 DEF Resume, NewWindow, May, Listed
<1>24. ASSUME Look PROVE SaveInv'
  BY <1>24 DEF Look
<1>25. ASSUME DiscardOrphan PROVE SaveInv'
  BY <1>25 DEF DiscardOrphan, May, Listed
<1>26. ASSUME DiscardIncomplete PROVE SaveInv'
  BY <1>26 DEF DiscardIncomplete, May, Listed, Incomplete
<1>27. ASSUME Die PROVE SaveInv'
  BY <1>27, MoveOrderFacts DEF Die, Moving
<1>28. ASSUME Boot PROVE SaveInv'
  BY <1>28, SameContents DEF Boot
<1>29. ASSUME SweepDecides PROVE SaveInv'
  BY <1>29, SameContents DEF SweepDecides
<1>30. ASSUME SweepRemoves PROVE SaveInv'
  <2>1. \A v \in Windows : win[v] \notin Saving
    BY <1>30, SessionWindows DEF SweepRemoves, ChoiceInv
  <2> QED
    BY <1>30, <2>1 DEF SweepRemoves
<1>32. ASSUME NEW h \in Homes, LetGo(h) PROVE SaveInv'
  <2>1. UNCHANGED <<win, part, noted, dropped>>
    BY <1>32 DEF LetGo
  <2>2. /\ \A g \in Homes \ {h} : file'[g] = file[g]
        /\ file'["scratch"].db = Absent <=> file["scratch"].db = Absent
    BY <1>32, LetGoFiles
  <2>3. CASE h = "scratch"
    <3>1. \A w \in Windows : win[w] \notin Saving
      BY <1>32, <2>3 DEF LetGo, LingersInv
    <3> QED
      BY <2>1, <3>1
  <2>4. CASE h = "dat0"
    <3>1. manifest
      BY <1>32, <2>4 DEF LetGo, LockInv
    <3>2. \A w \in Windows : win[w] \notin {"create", "move", "copying", "copied"}
      BY <3>1 DEF LockInv
    <3> QED
      BY <2>1, <2>2, <2>4, <3>2
  <2> QED
    BY <2>3, <2>4
<1>31. CASE UNCHANGED vars
  BY <1>31, SameContents DEF vars
<1> QED
  BY <1>1, <1>2, <1>3, <1>4, <1>5, <1>6, <1>7, <1>8, <1>9, <1>10, <1>11, <1>12, <1>13, <1>14, <1>15, <1>16, <1>17, <1>18, <1>19, <1>20, <1>21, <1>22, <1>23, <1>24, <1>25, <1>26, <1>27, <1>28, <1>29, <1>30, <1>31, <1>32 DEF Next, SaveStep, BootStep

LEMMA NextChoice ==
  ASSUME TypeInv, LockInv, WorkInv, Calm, [Next]_vars PROVE ChoiceInv'
<1> USE HomesAssumption DEF WorkInv, Calm, TypeInv, TypeOK, Homes, Parts, NoEngine, Turn, UIFree, disk, wins, proc, ghost, ChoiceInv, Nothing, WinsOK, DiskOK, ProcOK, Sync, Saving, Phases, Empty, SessionWindow
<1>1. ASSUME NEW w \in Windows, NEW e \in Edits, Commit(w, e) PROVE ChoiceInv'
  <2>1. file'["scratch"].json = file["scratch"].json /\ UNCHANGED <<win, kind, sweep, dir, live>>
    BY <1>1, EngineHome DEF Commit, HasEngine, WindowsInv
  <2> QED
    BY <2>1
<1>2. ASSUME NEW w \in Windows, Note(w) PROVE ChoiceInv'
  <2>1. engine[w] = RecordHome(w) /\ engine[w] \in Homes
    BY <1>2, EngineHome DEF Note, HasEngine, RecordHome
  <2>2. UNCHANGED <<win, kind, sweep, dir, live>> /\ win[w] = "ready"
    BY <1>2 DEF Note
  <2>3. CASE engine[w] = "scratch"
    <3>1. SessionWindow(w) /\ \A v \in Windows \ {w} : ~SessionWindow(v)
      BY <2>3, SessionWindows
    <3> QED
      BY <2>2, <3>1
  <2>4. CASE engine[w] = "dat0"
    <3>1. file'["scratch"] = file["scratch"]
      BY <1>2, <2>1, <2>4 DEF Note
    <3> QED
      BY <2>2, <3>1
  <2> QED
    BY <2>1, <2>3, <2>4
<1>3. ASSUME NEW w \in Windows, StartSave(w) PROVE ChoiceInv'
  BY <1>3 DEF StartSave
<1>4. ASSUME NEW w \in Windows, Checkpoint(w) PROVE ChoiceInv'
  BY <1>4 DEF Checkpoint
<1>5. ASSUME NEW w \in Windows, CreateDat0(w) PROVE ChoiceInv'
  BY <1>5 DEF CreateDat0, FailSave
<1>6. ASSUME NEW w \in Windows, Rename(w) PROVE ChoiceInv'
  <2>1. SessionWindow(w) /\ \A v \in Windows \ {w} : ~SessionWindow(v)
    BY <1>6, SessionWindows DEF Rename
  <2>2. sweep' = sweep /\ kind' = kind /\ win' = [win EXCEPT ![w] = win'[w]] /\ win'[w] # "opening"
    BY <1>6 DEF Rename, FailSave, Moved, Moving
  <2> QED
    BY <2>1, <2>2
<1>7. ASSUME NEW w \in Windows, StartCopy(w) PROVE ChoiceInv'
  <2>1. SessionWindow(w) /\ \A v \in Windows \ {w} : ~SessionWindow(v)
    BY <1>7, SessionWindows DEF StartCopy
  <2>2. sweep' = sweep /\ kind' = kind /\ win' = [win EXCEPT ![w] = win'[w]] /\ win'[w] # "opening"
    BY <1>7 DEF StartCopy, Moving
  <2> QED
    BY <2>1, <2>2
<1>8. ASSUME NEW w \in Windows, FinishCopy(w) PROVE ChoiceInv'
  <2>1. SessionWindow(w) /\ \A v \in Windows \ {w} : ~SessionWindow(v)
    BY <1>8, SessionWindows DEF FinishCopy
  <2>2. sweep' = sweep /\ kind' = kind /\ win' = [win EXCEPT ![w] = win'[w]] /\ win'[w] # "opening"
    BY <1>8 DEF FinishCopy, FailSave, Moving
  <2> QED
    BY <2>1, <2>2
<1>9. ASSUME NEW w \in Windows, RemoveSource(w) PROVE ChoiceInv'
  <2>1. SessionWindow(w) /\ \A v \in Windows \ {w} : ~SessionWindow(v)
    BY <1>9, SessionWindows DEF RemoveSource
  <2>2. sweep' = sweep /\ kind' = kind /\ win' = [win EXCEPT ![w] = win'[w]] /\ win'[w] # "opening"
    BY <1>9 DEF RemoveSource, FailSave, Moved, Moving
  <2> QED
    BY <2>1, <2>2
<1>10. ASSUME NEW w \in Windows, WriteManifest(w) PROVE ChoiceInv'
  BY <1>10 DEF WriteManifest, FailSave
<1>11. ASSUME NEW w \in Windows, Adopt(w) PROVE ChoiceInv'
  BY <1>11 DEF Adopt, FailSave
<1>12. ASSUME NEW w \in Windows, Clean(w) PROVE ChoiceInv'
  <2>1. SessionWindow(w) /\ \A v \in Windows \ {w} : ~SessionWindow(v)
    BY <1>12, SessionWindows DEF Clean
  <2>2. sweep' = sweep /\ kind' = kind /\ win' = [win EXCEPT ![w] = win'[w]] /\ win'[w] # "opening"
    BY <1>12 DEF Clean
  <2> QED
    BY <2>1, <2>2
<1>13. ASSUME NEW w \in Windows, Aftermath(w) PROVE ChoiceInv'
  BY <1>13 DEF Aftermath
<1>14. ASSUME NEW w \in Windows, Mount(w) PROVE ChoiceInv'
  BY <1>14 DEF Mount
<1>15. ASSUME NEW w \in Windows, ReadRecord(w) PROVE ChoiceInv'
  BY <1>15 DEF ReadRecord
<1>16. ASSUME NEW w \in Windows, OpenEngine(w) PROVE ChoiceInv'
  <2>1. /\ UNCHANGED <<kind, sweep, dir, live>> /\ win[w] = "waiting"
        /\ win' = [win EXCEPT ![w] = "ready"]
    BY <1>16 DEF OpenEngine
  <2>2. CASE target[w] = "scratch"
    <3>1. SessionWindow(w) /\ \A v \in Windows \ {w} : ~SessionWindow(v)
      BY <2>1, <2>2, SessionWindows
    <3> QED
      BY <2>1, <3>1
  <2>3. CASE target[w] = "dat0"
    <3>1. file'["scratch"] = file["scratch"]
      BY <1>16, <2>3 DEF OpenEngine
    <3> QED
      BY <2>1, <3>1
  <2> QED
    BY <2>2, <2>3
<1>17. ASSUME NEW w \in Windows, OpenFails(w) PROVE ChoiceInv'
  BY <1>17 DEF OpenFails
<1>18. ASSUME NEW w \in Windows, Retry(w) PROVE ChoiceInv'
  BY <1>18 DEF Retry
<1>19. ASSUME NEW w \in Windows, RetryNew(w) PROVE ChoiceInv'
  <2>1. SessionWindow(w) /\ \A v \in Windows \ {w} : ~SessionWindow(v)
    BY <1>19 DEF RetryNew, WindowsInv
  <2>2. sweep' = sweep /\ kind' = kind /\ win' = [win EXCEPT ![w] = "ready"]
    BY <1>19 DEF RetryNew
  <2> QED
    BY <2>1, <2>2
<1>20. ASSUME NEW w \in Windows, CloseWindow(w) PROVE ChoiceInv'
  BY <1>20 DEF CloseWindow
<1>21. ASSUME NEW w \in Windows, OpenWorkspace(w) PROVE ChoiceInv'
  BY <1>21 DEF OpenWorkspace, NewWindow
<1>22. ASSUME NEW w \in Windows, OpenOrphan(w) PROVE ChoiceInv'
  BY <1>22 DEF OpenOrphan, NewWindow, May, Listed, NothingToRecover
<1>23. ASSUME NEW w \in Windows, Resume(w) PROVE ChoiceInv'
  BY <1>23 DEF Resume, NewWindow, May, Listed
<1>24. ASSUME Look PROVE ChoiceInv'
  BY <1>24 DEF Look
<1>25. ASSUME DiscardOrphan PROVE ChoiceInv'
  BY <1>25 DEF DiscardOrphan, May, Listed
<1>26. ASSUME DiscardIncomplete PROVE ChoiceInv'
  BY <1>26 DEF DiscardIncomplete, May, Listed, Incomplete
<1>27. ASSUME Die PROVE ChoiceInv'
  BY <1>27, MoveOrderFacts DEF Die, Moving
<1>28. ASSUME Boot PROVE ChoiceInv'
  BY <1>28 DEF Boot
<1>29. ASSUME SweepDecides PROVE ChoiceInv'
  <2>1. UNCHANGED <<file, win, kind, dir, live>>
    BY <1>29 DEF SweepDecides
  <2>2. sweep' = "chosen" => dir["scratch"] /\ ~live /\ Nothing
    BY <1>29 DEF SweepDecides, NothingToRecover
  <2>3. sweep' = "chosen" => \A v \in Windows : ~SessionWindow(v)
    BY <2>2 DEF WindowsInv
  <2> QED
    BY <2>1, <2>2, <2>3
<1>30. ASSUME SweepRemoves PROVE ChoiceInv'
  BY <1>30 DEF SweepRemoves
<1>32. ASSUME NEW h \in Homes, LetGo(h) PROVE ChoiceInv'
  <2>1. file'["scratch"].json = file["scratch"].json
    BY <1>32, LetGoFiles
  <2> QED
    BY <1>32, <2>1 DEF LetGo
<1>31. CASE UNCHANGED vars
  BY <1>31 DEF vars
<1> QED
  BY <1>1, <1>2, <1>3, <1>4, <1>5, <1>6, <1>7, <1>8, <1>9, <1>10, <1>11, <1>12, <1>13, <1>14, <1>15, <1>16, <1>17, <1>18, <1>19, <1>20, <1>21, <1>22, <1>23, <1>24, <1>25, <1>26, <1>27, <1>28, <1>29, <1>30, <1>31, <1>32 DEF Next, SaveStep, BootStep

\* A copy that fails, or that the process dies in, leaves short only a file
\* whose original is whole.
LEMMA CutCopy ==
  ASSUME TypeInv, LockInv, WorkInv, NEW w \in Windows, win[w] = "copying",
         NEW left \in {Absent, Cut}, file' = [file EXCEPT !["dat0"][Moving(w)] = left],
         UNCHANGED <<noted, dropped, manifest>>
  PROVE  BesideInv' /\ KeptStep
<1> USE HomesAssumption DEF TypeInv, TypeOK, DiskOK, WinsOK, Homes, Parts, Empty, WorkInv
<1>1. part[w] \in {1, 3} /\ file["scratch"].wal = Absent
  BY DEF SaveInv
<1>2. file'["scratch"] = file["scratch"] /\ Contents("scratch")' = Contents("scratch")
  BY SameContents, MoveOrderFacts DEF Moving
<1>3. CASE part[w] = 1
  <2>1. Moving(w) = "db" /\ file["dat0"] = [Empty EXCEPT !.db = file["scratch"].db]
    BY <1>3, MoveOrderFacts DEF SaveInv, Moving
  <2>2. (noted \ dropped) \cap Contents("scratch") \subseteq Held(file["scratch"].json)
    BY <1>3 DEF SaveInv
  <2>3. file'["dat0"].db = left
    BY <2>1
  <2>4. Contents("dat0")' = {} /\ Contents("dat0") \subseteq Contents("scratch")
    BY <2>1, <2>3, HeldFacts DEF Contents
  <2> QED
    BY SameWork, <1>2, <2>2, <2>4 DEF BesideInv
<1>4. CASE part[w] = 3
  <2>1. Moving(w) = "json"
    BY <1>4, MoveOrderFacts DEF Moving
  <2>2. \A g \in Homes : file'[g].db = file[g].db /\ file'[g].wal = file[g].wal
    BY <2>1
  <2> QED
    BY <1>2, <2>2, SameEdits, SameKept
<1> QED
  BY <1>1, <1>3, <1>4

LEMMA NextKept ==
  ASSUME TypeInv, LockInv, WorkInv, Calm, [Next]_vars PROVE (BesideInv' /\ KeptStep)
<1> USE HomesAssumption DEF WorkInv, Calm, TypeInv, TypeOK, Homes, Parts, NoEngine, Turn, UIFree, disk, wins, proc, ghost, WinsOK, DiskOK, GhostOK, ProcOK, File, Empty
<1>1. ASSUME NEW w \in Windows, NEW e \in Edits, Commit(w, e) PROVE (BesideInv' /\ KeptStep)
  <2>1. engine[w] \in Homes /\ engine[w] # "throwaway"
    BY <1>1, EngineHome DEF Commit, HasEngine, WindowsInv
  <2>2. file' = [file EXCEPT ![engine[w]].wal = Held(@) \cup {e}] /\ e \notin made
        /\ UNCHANGED <<noted, dropped, manifest>>
    BY <1>1, <2>1 DEF Commit
  <2>3. Held(Held(file[engine[w]].wal) \cup {e}) = Held(file[engine[w]].wal) \cup {e}
    BY <2>1, HeldType, HeldFacts
  <2>4. \A g \in Homes : Contents(g) \subseteq Contents(g)' /\ Contents(g)' \subseteq Contents(g) \cup {e}
    <3>1. \A g \in Homes :
             /\ file'[g].db = file[g].db
             /\ Held(file[g].wal) \subseteq Held(file'[g].wal)
             /\ Held(file'[g].wal) \subseteq Held(file[g].wal) \cup {e}
      <4>1. file'[engine[w]].wal = Held(file[engine[w]].wal) \cup {e}
        BY <2>1, <2>2
      <4>2. \A g \in Homes : file'[g].db = file[g].db
        BY <2>1, <2>2
      <4>3. \A g \in Homes \ {engine[w]} : file'[g] = file[g]
        BY <2>1, <2>2
      <4> QED
        BY <2>1, <2>3, <4>1, <4>2, <4>3
    <3> QED
      BY <3>1 DEF Contents
  <2>5. file'["scratch"].json = file["scratch"].json /\ e \notin noted
    BY <2>1, <2>2 DEF FilesInv
  <2>6. BesideInv'
    BY <2>2, <2>4, <2>5 DEF BesideInv
  <2>7. PICK h \in Homes : h = engine[w]
    BY <2>1
  <2>8. \A g \in Homes \ {h} : Contents(g)' = Contents(g)
    BY <2>1, <2>2, <2>7, SameContents
  <2>9. Contents(h)' = Contents(h) \/ Contents(h)' = Contents(h) \cup {e}
    <3> DEFINE A == Contents(h)
               B == Contents(h)'
    <3>1. A \subseteq B /\ B \subseteq A \cup {e}
      BY <2>4
    <3> HIDE DEF A, B
    <3>2. e \in B => B = A \cup {e}
      BY ONLY <3>1
    <3>3. e \notin B => B \subseteq A
      BY ONLY <3>1
    <3>4. e \notin B => B = A
      BY ONLY <3>1, <3>3
    <3> QED
      BY <3>2, <3>4 DEF A, B
  <2>10. CASE Contents(h)' = Contents(h) \cup {e}
    <3>1. UNCHANGED <<win, engine, noted, dropped>>
      BY <1>1, <2>1 DEF Commit
    <3> QED
      BY <2>6, <2>8, <2>10, <3>1, AddedEdit
  <2>11. CASE Contents(h)' = Contents(h)
    BY <2>2, <2>6, <2>8, <2>11, SameWork
  <2> QED
    BY <2>9, <2>10, <2>11
<1>2. ASSUME NEW w \in Windows, Note(w) PROVE (BesideInv' /\ KeptStep)
  <2>1. engine[w] = RecordHome(w) /\ engine[w] \in Homes
    BY <1>2, EngineHome DEF Note, HasEngine, WindowsInv, RecordHome
  <2> DEFINE h == engine[w]
             seen == Contents(h)
  <2>2. file' = [file EXCEPT ![h].json = doc[w] \cup seen] /\ dropped' = dropped
        /\ noted' = noted \cup doc[w] \cup seen
    BY <1>2, <2>1 DEF Note
  <2>3. \A g \in Homes : Held(doc[w] \cup Contents(g)) = doc[w] \cup Contents(g)
    BY ContentsMade, HeldFacts
  <2>4. \A g \in Homes : file'[g].db = file[g].db /\ file'[g].wal = file[g].wal
    BY <2>1, <2>2
  <2>5. \A g \in Homes : Contents(g)' = Contents(g)
    BY <2>4, SameEdits
  <2>6. doc[w] \subseteq noted
    BY DEF FilesInv
  <2>7. KeptStep
    <3>1. UNCHANGED <<win, engine>> /\ h \in Working
      BY <1>2, <2>1 DEF Note, Working
    <3>2. [g \in Homes |-> Contents(g)]' = [g \in Homes |-> Contents(g)] /\ Working' = Working
      BY <2>5, <3>1 DEF Working
    <3>3. Kept!Note
      BY <2>1, <2>2, <2>6, <3>1, <3>2 DEF Kept!Note
    <3> QED
      BY <3>3 DEF KeptStep, Kept!Next
  <2>8. CASE h = "scratch"
    <3>1. file'["scratch"].json = doc[w] \cup Contents("scratch")
      BY <2>1, <2>2, <2>8
    <3>2. Held(file["scratch"].json)' = doc[w] \cup Contents("scratch")
      BY <2>3, <3>1
    <3> QED
      BY <2>5, <2>7, <3>2 DEF BesideInv
  <2>9. CASE h = "dat0"
    <3>1. file'["scratch"] = file["scratch"]
      BY <2>2, <2>9
    <3>2. manifest /\ manifest' = manifest
      BY <1>2, <2>9 DEF Note, LockInv
    <3> QED
      BY <2>2, <2>5, <2>6, <2>7, <2>9, <3>1, <3>2 DEF BesideInv
  <2> QED
    BY <2>1, <2>8, <2>9
<1>3. ASSUME NEW w \in Windows, StartSave(w) PROVE (BesideInv' /\ KeptStep)
  BY <1>3, SameContents, SameKept DEF StartSave
<1>4. ASSUME NEW w \in Windows, Checkpoint(w) PROVE (BesideInv' /\ KeptStep)
  <2>1. \/ file' = file
        \/ /\ file["scratch"].db \in {Absent, Cut}
           /\ file' = [file EXCEPT !["scratch"].db = Contents("scratch"), !["scratch"].wal = Absent]
        \/ /\ file["scratch"].db \notin {Absent, Cut}
           /\ file' = [file EXCEPT !["scratch"].db = Contents("scratch"), !["scratch"].wal = Absent]
    BY <1>4 DEF Checkpoint, WindowsInv
  <2>2. \A g \in Homes : Contents(g)' = Contents(g)
    <3>1. CASE file["scratch"].db \in {Absent, Cut}
      <4>1. Contents("scratch") = {}
        BY <3>1 DEF Contents
      <4>2. CASE file' = [file EXCEPT !["scratch"].db = Contents("scratch"), !["scratch"].wal = Absent]
        <5>1. file'["scratch"].db = {} /\ file'["scratch"].wal = Absent /\ file'["dat0"] = file["dat0"]
          BY <4>1, <4>2
        <5>2. Contents("scratch")' = {}
          BY <5>1, HeldFacts DEF Contents
        <5> QED
          BY <4>1, <5>1, <5>2, SameContents
      <4> QED
        BY <2>1, <3>1, <4>2, SameContents
    <3>2. CASE file["scratch"].db \notin {Absent, Cut}
      BY <2>1, <3>2, CheckpointContents, SameContents
    <3> QED
      BY <3>1, <3>2
  <2>3. file'["scratch"].json = file["scratch"].json /\ UNCHANGED <<noted, dropped, manifest>>
    BY <1>4, <2>1 DEF Checkpoint
  <2> QED
    BY <2>2, <2>3, SameKept
<1>5. ASSUME NEW w \in Windows, CreateDat0(w) PROVE (BesideInv' /\ KeptStep)
  BY <1>5, SameContents, SameKept DEF CreateDat0, FailSave
<1>6. ASSUME NEW w \in Windows, Rename(w) PROVE (BesideInv' /\ KeptStep)
  <2>1. win[w] = "move" /\ part[w] \in 1 .. 3 /\ UNCHANGED <<noted, dropped, manifest>>
    BY <1>6 DEF Rename
  <2>2. \/ file' = file
        \/ /\ file["scratch"][Moving(w)] # Absent
           /\ file' = [file EXCEPT !["dat0"][Moving(w)] = file["scratch"][Moving(w)],
                                   !["scratch"][Moving(w)] = Absent]
    BY <1>6 DEF Rename
  <2>3. CASE file' = file
    BY <2>1, <2>3, SameContents, SameKept
  <2>4. ASSUME file["scratch"][Moving(w)] # Absent,
               file' = [file EXCEPT !["dat0"][Moving(w)] = file["scratch"][Moving(w)],
                                    !["scratch"][Moving(w)] = Absent]
        PROVE  BesideInv' /\ KeptStep
    <3>1. file["scratch"].wal = Absent /\ part[w] # 2
      BY <2>1, <2>4, MoveOrderFacts DEF SaveInv, Moving
    <3>2. CASE part[w] = 1
      <4>1. file["dat0"] = Empty /\ Moving(w) = "db" /\ file["scratch"].db \notin {Absent, Cut}
        BY <2>1, <2>4, <3>2, MoveOrderFacts DEF SaveInv, FilesInv, Moving
      <4>2. /\ file'["scratch"].db = Absent
            /\ file'["dat0"].db = file["scratch"].db /\ file'["dat0"].wal = Absent
        BY <2>4, <4>1
      <4>3. Contents("scratch")' = {} /\ Contents("dat0")' = Contents("scratch") /\ Contents("dat0") = {}
        BY <3>1, <4>1, <4>2 DEF Contents
      <4> QED
        BY SameWork, <2>1, <4>3 DEF BesideInv
    <3>3. CASE part[w] = 3
      <4>1. file["scratch"].db = Absent /\ Moving(w) = "json"
        BY <2>1, <3>3, MoveOrderFacts DEF SaveInv, Moving
      <4>2. \A g \in Homes : file'[g].db = file[g].db /\ file'[g].wal = file[g].wal
        BY <2>4, <4>1
      <4>3. \A g \in Homes : Contents(g)' = Contents(g)
        BY <4>2, SameEdits
      <4>4. Contents("scratch") = {}
        BY <4>1 DEF Contents
      <4> QED
        BY SameWork, <2>1, <4>3, <4>4 DEF BesideInv
    <3> QED
      BY <2>1, <3>1, <3>2, <3>3
  <2> QED
    BY <2>2, <2>3, <2>4
<1>7. ASSUME NEW w \in Windows, StartCopy(w) PROVE (BesideInv' /\ KeptStep)
  <2>1. /\ win[w] = "move" /\ part[w] \in 1 .. 3 /\ file["scratch"].wal = Absent
        /\ UNCHANGED <<noted, dropped, manifest>>
        /\ file' = [file EXCEPT !["dat0"][Moving(w)] = file["scratch"][Moving(w)]]
        /\ file["scratch"][Moving(w)] # Absent
    BY <1>7 DEF StartCopy, SaveInv
  <2>2. part[w] # 2
    BY <2>1, MoveOrderFacts DEF Moving
  <2>3. file'["scratch"] = file["scratch"] /\ Contents("scratch")' = Contents("scratch")
    BY <2>1, SameContents, MoveOrderFacts DEF Moving
  <2>4. CASE part[w] = 1
    <3>1. file["dat0"] = Empty /\ Moving(w) = "db"
      BY <2>1, <2>4, MoveOrderFacts DEF SaveInv, Moving
    <3>2. file'["dat0"].db = file["scratch"].db /\ file'["dat0"].wal = Absent
      BY <2>1, <3>1
    <3>3. Contents("dat0") = {} /\ Contents("dat0")' = Contents("scratch")
      BY <2>1, <3>1, <3>2 DEF Contents
    <3> QED
      BY SameWork, <2>1, <2>3, <3>3 DEF BesideInv
  <2>5. CASE part[w] = 3
    <3>1. \A g \in Homes : file'[g].db = file[g].db /\ file'[g].wal = file[g].wal
      BY <2>1, <2>5, MoveOrderFacts DEF Moving
    <3> QED
      BY <2>1, <2>3, <3>1, SameEdits, SameKept
  <2> QED
    BY <2>1, <2>2, <2>4, <2>5
<1>8. ASSUME NEW w \in Windows, FinishCopy(w) PROVE (BesideInv' /\ KeptStep)
  <2>1. win[w] = "copying" /\ UNCHANGED <<noted, dropped, manifest>>
    BY <1>8 DEF FinishCopy
  <2>2. CASE file' = file
    BY <2>1, <2>2, SameContents, SameKept
  <2>3. ASSUME NEW left \in {Absent, Cut}, file' = [file EXCEPT !["dat0"][Moving(w)] = left]
        PROVE  BesideInv' /\ KeptStep
    BY <2>1, <2>3, CutCopy
  <2> QED
    BY <1>8, <2>2, <2>3 DEF FinishCopy
<1>9. ASSUME NEW w \in Windows, RemoveSource(w) PROVE (BesideInv' /\ KeptStep)
  <2>1. win[w] = "copied" /\ part[w] \in {1, 3} /\ UNCHANGED <<noted, dropped, manifest>>
        /\ file["scratch"].wal = Absent
    BY <1>9 DEF RemoveSource, SaveInv
  <2>2. file' = file \/ file' = [file EXCEPT !["scratch"][Moving(w)] = Absent]
    BY <1>9 DEF RemoveSource
  <2>3. CASE file' = file
    BY <2>1, <2>3, SameContents, SameKept
  <2>4. CASE file' = [file EXCEPT !["scratch"][Moving(w)] = Absent] /\ part[w] = 1
    <3>1. Moving(w) = "db" /\ file["dat0"] = [Empty EXCEPT !.db = file["scratch"].db]
      BY <2>1, <2>4, MoveOrderFacts DEF SaveInv, Moving
    <3>2. file'["scratch"].db = Absent /\ file'["dat0"] = file["dat0"]
      BY <2>4, <3>1
    <3>3. Contents("scratch")' = {} /\ Contents("dat0")' = Contents("scratch")
      BY <2>1, <3>1, <3>2 DEF Contents
    <3>4. Contents("dat0") = Contents("scratch")
      BY <2>1, <3>1 DEF Contents
    <3> QED
      BY SameWork, <2>1, <3>3, <3>4 DEF BesideInv
  <2>5. CASE file' = [file EXCEPT !["scratch"][Moving(w)] = Absent] /\ part[w] = 3
    <3>1. Moving(w) = "json" /\ file["scratch"].db = Absent
      BY <2>1, <2>5, MoveOrderFacts DEF SaveInv, Moving
    <3>2. \A g \in Homes : file'[g].db = file[g].db /\ file'[g].wal = file[g].wal
      BY <2>5, <3>1
    <3>3. \A g \in Homes : Contents(g)' = Contents(g)
      BY <3>2, SameEdits
    <3>4. Contents("scratch") = {}
      BY <3>1 DEF Contents
    <3> QED
      BY SameWork, <2>1, <3>3, <3>4 DEF BesideInv
  <2> QED
    BY <2>1, <2>2, <2>3, <2>4, <2>5
<1>10. ASSUME NEW w \in Windows, WriteManifest(w) PROVE (BesideInv' /\ KeptStep)
  BY <1>10, SameContents, SameKept DEF WriteManifest, FailSave
<1>11. ASSUME NEW w \in Windows, Adopt(w) PROVE (BesideInv' /\ KeptStep)
  <2>1. \A g \in Homes : file'[g].db = file[g].db /\ file'[g].wal = file[g].wal
    BY <1>11 DEF Adopt, FailSave
  <2>2. file'["scratch"].json = file["scratch"].json /\ UNCHANGED <<noted, dropped, manifest>>
    BY <1>11 DEF Adopt, FailSave
  <2>3. Held(file["scratch"].json)' = Held(file["scratch"].json)
    BY <2>2
  <2> QED
    BY <2>1, <2>2, <2>3, SameEdits, SameKept
<1>12. ASSUME NEW w \in Windows, Clean(w) PROVE (BesideInv' /\ KeptStep)
  <2>1. file["scratch"].db = Absent /\ UNCHANGED <<noted, dropped, manifest>>
    BY <1>12 DEF Clean, SaveInv
  <2>2. /\ file'["dat0"] = file["dat0"] /\ file'["scratch"].db = Absent
    BY <1>12, <2>1 DEF Clean
  <2>3. Contents("dat0")' = Contents("dat0") /\ Contents("scratch") = {} /\ Contents("scratch")' = {}
    BY <2>1, <2>2, SameContents DEF Contents
  <2> QED
    BY SameWork, <2>1, <2>3 DEF BesideInv
<1>13. ASSUME NEW w \in Windows, Aftermath(w) PROVE (BesideInv' /\ KeptStep)
  <2>1. \A g \in Homes : file'[g].db = file[g].db /\ file'[g].wal = file[g].wal
    BY <1>13 DEF Aftermath
  <2>2. /\ file'["scratch"].json = file["scratch"].json /\ UNCHANGED <<noted, dropped>>
        /\ manifest => manifest'
    BY <1>13 DEF Aftermath
  <2>3. Held(file["scratch"].json)' = Held(file["scratch"].json)
    BY <2>2
  <2> QED
    BY <2>1, <2>2, <2>3, SameEdits, SameKept
<1>14. ASSUME NEW w \in Windows, Mount(w) PROVE (BesideInv' /\ KeptStep)
  BY <1>14, SameContents, SameKept DEF Mount
<1>15. ASSUME NEW w \in Windows, ReadRecord(w) PROVE (BesideInv' /\ KeptStep)
  BY <1>15, SameContents, SameKept DEF ReadRecord
<1>16. ASSUME NEW w \in Windows, OpenEngine(w) PROVE (BesideInv' /\ KeptStep)
  <2>1. /\ target[w] \in Homes /\ file[target[w]].db # Cut /\ UNCHANGED <<noted, dropped, manifest>>
        /\ win[w] = "waiting" /\ doc[w] \in File
        /\ file' = [file EXCEPT ![target[w]] =
                      [db |-> Held(file[target[w]].db),
                       wal |-> IF file[target[w]].db = Absent THEN Absent ELSE file[target[w]].wal,
                       json |-> doc[w]]]
    BY <1>16 DEF OpenEngine
  <2>2. \A g \in Homes : Contents(g)' = Contents(g)
    BY <2>1, OpenedContents
  <2>3. target[w] = "scratch" => doc[w] = Held(file["scratch"].json) /\ file'["scratch"].json = doc[w]
    BY <2>1 DEF WindowsInv
  <2>4. target[w] # "scratch" => file'["scratch"] = file["scratch"]
    BY <2>1
  <2>5. Held(file["scratch"].json)' = Held(file["scratch"].json)
    BY <2>3, <2>4, HeldFacts
  <2> QED
    BY <2>1, <2>2, <2>5, SameKept
<1>17. ASSUME NEW w \in Windows, OpenFails(w) PROVE (BesideInv' /\ KeptStep)
  BY <1>17, SameContents, SameKept DEF OpenFails
<1>18. ASSUME NEW w \in Windows, Retry(w) PROVE (BesideInv' /\ KeptStep)
  BY <1>18, SameContents, SameKept DEF Retry
<1>19. ASSUME NEW w \in Windows, RetryNew(w) PROVE (BesideInv' /\ KeptStep)
  <2>1. /\ UNCHANGED <<noted, dropped, manifest>> /\ file["scratch"].db = Absent
        /\ file' = [file EXCEPT !["scratch"] = [db |-> {}, wal |-> Absent, json |-> {}]]
    BY <1>19, HeldFacts DEF RetryNew, WindowsInv
  <2>2. Contents("scratch") = {} /\ Contents("scratch")' = {}
    BY <2>1, HeldFacts DEF Contents
  <2>3. Contents("dat0")' = Contents("dat0")
    BY <2>1, SameContents
  <2> QED
    BY SameWork, <2>1, <2>2, <2>3 DEF BesideInv
<1>20. ASSUME NEW w \in Windows, CloseWindow(w) PROVE (BesideInv' /\ KeptStep)
  <2>1. \/ file' = file
        \/ /\ engine[w] \in Homes /\ file[engine[w]].db \notin {Absent, Cut}
           /\ file' = [file EXCEPT ![engine[w]].db = Contents(engine[w]), ![engine[w]].wal = Absent]
    BY <1>20 DEF CloseWindow
  <2>2. \A g \in Homes : Contents(g)' = Contents(g)
    BY <2>1, CheckpointContents, SameContents
  <2>3. file'["scratch"].json = file["scratch"].json /\ UNCHANGED <<noted, dropped, manifest>>
    BY <1>20, <2>1 DEF CloseWindow
  <2> QED
    BY <2>2, <2>3, SameKept
<1>21. ASSUME NEW w \in Windows, OpenWorkspace(w) PROVE (BesideInv' /\ KeptStep)
  BY <1>21, SameContents, SameKept DEF OpenWorkspace, NewWindow
<1>22. ASSUME NEW w \in Windows, OpenOrphan(w) PROVE (BesideInv' /\ KeptStep)
  BY <1>22, SameContents, SameKept DEF OpenOrphan, NewWindow, May, Listed, NothingToRecover
<1>23. ASSUME NEW w \in Windows, Resume(w) PROVE (BesideInv' /\ KeptStep)
  BY <1>23, SameContents, SameKept DEF Resume, NewWindow, May, Listed
<1>24. ASSUME Look PROVE (BesideInv' /\ KeptStep)
  BY <1>24, SameContents, SameKept DEF Look
<1>25. ASSUME DiscardOrphan PROVE (BesideInv' /\ KeptStep)
  <2>1. dropped' = dropped \cup (Contents("scratch") \ Contents("dat0")) /\ noted' = noted
        /\ file' = [file EXCEPT !["scratch"] = Empty]
    BY <1>25 DEF DiscardOrphan
  <2>2. Contents("dat0")' = Contents("dat0") /\ Contents("scratch")' = {}
    BY <2>1, SameContents DEF Contents
  <2>3. BesideInv'
    BY <2>1, <2>2 DEF BesideInv
  <2>4. KeptStep
    <3>1. "scratch" \notin Working /\ UNCHANGED <<win, engine>>
      BY <1>25, SessionWindows DEF DiscardOrphan, Working, WindowsInv
    <3> QED
      BY <2>1, <2>2, <3>1, DiscardedHome
  <2> QED
    BY <2>3, <2>4
<1>26. ASSUME DiscardIncomplete PROVE (BesideInv' /\ KeptStep)
  <2>0. ~manifest
    BY <1>26 DEF DiscardIncomplete, May, Listed, Incomplete, LockInv
  <2>1. dropped' = dropped \cup (Contents("dat0") \ Contents("scratch")) /\ noted' = noted
        /\ file' = [file EXCEPT !["dat0"] = Empty]
    BY <1>26 DEF DiscardIncomplete, May
  <2>2. Contents("scratch")' = Contents("scratch") /\ Contents("dat0")' = {}
        /\ file'["scratch"] = file["scratch"]
    BY <2>1, SameContents DEF Contents
  <2>3. BesideInv'
    BY <2>0, <2>1, <2>2 DEF BesideInv
  <2>4. KeptStep
    <3>1. "dat0" \notin Working /\ UNCHANGED <<win, engine>>
      BY <1>26, <2>0 DEF DiscardIncomplete, Working, LockInv
    <3> QED
      BY <2>1, <2>2, <3>1, DiscardedHome
  <2> QED
    BY <2>3, <2>4
<1>27. ASSUME Die PROVE (BesideInv' /\ KeptStep)
  <2>1. UNCHANGED <<noted, dropped, manifest>>
    BY <1>27 DEF Die
  <2>2. CASE file' = file
    BY <2>1, <2>2, SameContents, SameKept
  <2>3. ASSUME NEW v \in Windows, win[v] = "copying", file' = [file EXCEPT !["dat0"][Moving(v)] = Cut]
        PROVE  BesideInv' /\ KeptStep
    BY <2>1, <2>3, CutCopy
  <2> QED
    BY <1>27, <2>2, <2>3 DEF Die
<1>28. ASSUME Boot PROVE (BesideInv' /\ KeptStep)
  BY <1>28, SameContents, SameKept DEF Boot
<1>29. ASSUME SweepDecides PROVE (BesideInv' /\ KeptStep)
  BY <1>29, SameContents, SameKept DEF SweepDecides
<1>30. ASSUME SweepRemoves PROVE (BesideInv' /\ KeptStep)
  <2>1. UNCHANGED <<noted, dropped, manifest>> /\ file' = [file EXCEPT !["scratch"] = Empty]
        /\ Held(file["scratch"].json) = {}
    BY <1>30, HeldFacts DEF SweepRemoves, ChoiceInv, Nothing, Held
  <2>2. Contents("dat0")' = Contents("dat0") /\ Contents("scratch")' = {}
    BY <2>1, SameContents DEF Contents
  <2>3. BesideInv'
    BY <2>1, <2>2 DEF BesideInv
  <2>4. KeptStep
    <3>1. "scratch" \notin Working /\ UNCHANGED <<win, engine>>
      BY <1>30, SessionWindows DEF SweepRemoves, ChoiceInv, Working
    <3> QED
      BY <2>1, <2>2, <3>1, SweptHome DEF BesideInv
  <2> QED
    BY <2>3, <2>4
<1>32. ASSUME NEW h \in Homes, LetGo(h) PROVE (BesideInv' /\ KeptStep)
  <2>1. UNCHANGED <<noted, dropped, manifest, win, engine>>
    BY <1>32 DEF LetGo
  <2>2. CASE file' = file
    BY <2>1, <2>2, SameContents, SameKept
  <2>3. ASSUME NEW last \in {{}} \cup {{e} : e \in Edits \ made}, file[h].db \notin {Absent, Cut},
               file' = [file EXCEPT ![h].db = Contents(h) \cup last, ![h].wal = Absent]
        PROVE  BesideInv' /\ KeptStep
    <3>1. last \in SUBSET (Edits \ made)
      BY <2>3
    <3>2. Contents(h) \cup last \in SUBSET Edits
      BY <3>1, ContentsMade
    <3>3. file'[h].db = Contents(h) \cup last /\ file'[h].wal = Absent
          /\ file'["scratch"].json = file["scratch"].json
          /\ \A g \in Homes \ {h} : file'[g] = file[g]
      BY <2>3
    <3>4. Contents(h)' = Contents(h) \cup last
      BY <3>2, <3>3, HeldFacts DEF Contents
    <3>5. \A g \in Homes \ {h} : Contents(g)' = Contents(g)
      BY <3>3, SameContents
    <3>6. last \cap noted = {}
      BY <3>1 DEF FilesInv
    <3>7. BesideInv'
      BY <2>1, <3>3, <3>4, <3>5, <3>6 DEF BesideInv
    <3>8. CASE last = {}
      BY <2>1, <3>4, <3>5, <3>7, <3>8, SameWork
    <3>9. CASE last # {}
      <4>1. PICK e \in Edits : last = {e}
        BY <2>3, <3>9
      <4> QED
        BY <2>1, <3>4, <3>5, <3>7, <4>1, AddedEdit
    <3> QED
      BY <3>8, <3>9
  <2> QED
    BY <1>32, <2>2, <2>3 DEF LetGo
<1>31. CASE UNCHANGED vars
  BY <1>31, SameContents, SameKept DEF vars
<1> QED
  BY <1>1, <1>2, <1>3, <1>4, <1>5, <1>6, <1>7, <1>8, <1>9, <1>10, <1>11, <1>12, <1>13, <1>14, <1>15, <1>16, <1>17, <1>18, <1>19, <1>20, <1>21, <1>22, <1>23, <1>24, <1>25, <1>26, <1>27, <1>28, <1>29, <1>30, <1>31, <1>32 DEF Next, SaveStep, BootStep

\* What KeptWork does keeps recorded work somewhere.
LEMMA KeptStepKeeps == WorkKept /\ KeptStep => WorkKept'
<1> SUFFICES ASSUME WorkKept, KeptStep PROVE WorkKept'
  OBVIOUS
<1> DEFINE H(g) == [h \in Homes |-> Contents(h)][g]
<1>1. WorkKept <=> noted \ dropped \subseteq UNION {H(g) : g \in Homes}
  BY DEF WorkKept, Homes
<1>2. WorkKept' <=> (noted \ dropped)' \subseteq UNION {H(g)' : g \in Homes}
  BY DEF WorkKept, Homes
<1>3. CASE Kept!Commit
  <2>1. \A g \in Homes : H(g) \subseteq H(g)'
    BY <1>3 DEF Kept!Commit
  <2>2. (noted \ dropped)' = noted \ dropped
    BY <1>3 DEF Kept!Commit
  <2> HIDE DEF H
  <2> QED
    BY <1>1, <1>2, <2>1, <2>2
<1>4. CASE Kept!Note
  BY <1>1, <1>2, <1>4 DEF Kept!Note, Working
<1>5. CASE Kept!Move
  BY <1>1, <1>2, <1>5 DEF Kept!Move, Kept!Work
<1>6. CASE Kept!Discard
  <2>1. PICK g \in Homes :
           /\ \A f \in Homes \ {g} : H(f)' = H(f)
           /\ (noted \ dropped)' = (noted \ dropped) \ (H(g) \ UNION {H(f) : f \in Homes \ {g}})
    BY <1>6 DEF Kept!Discard, Kept!Only
  <2> HIDE DEF H
  <2> QED
    BY <1>1, <1>2, <2>1
<1>7. CASE Kept!Sweep
  <2>1. PICK g \in Homes :
           /\ \A f \in Homes \ {g} : H(f)' = H(f)
           /\ (noted \ dropped)' = noted \ dropped /\ (noted \ dropped) \cap (H(g) \ UNION {H(f) : f \in Homes \ {g}}) = {}
    BY <1>7 DEF Kept!Sweep, Kept!Only
  <2> HIDE DEF H
  <2> QED
    BY <1>1, <1>2, <2>1
<1>8. CASE UNCHANGED Kept!vars
  BY <1>1, <1>2, <1>8 DEF Kept!vars
<1> QED
  BY <1>3, <1>4, <1>5, <1>6, <1>7, <1>8 DEF KeptStep, Kept!Next

\* The invariant that WorkKept needs is kept by every step.
LEMMA NextWork == ASSUME TypeInv, LockInv, WorkInv, Calm, [Next]_vars PROVE WorkInv'
  BY NextFiles, NextWindows, NextLingers, NextSave, NextChoice, NextKept, KeptStepKeeps DEF WorkInv

LEMMA InitWork == Init => WorkInv
<1> SUFFICES ASSUME Init PROVE WorkInv
  OBVIOUS
<1> USE HomesAssumption DEF Init, Homes, Parts, Empty
<1>1. file["scratch"] = [db |-> {}, wal |-> Absent, json |-> {}] /\ file["dat0"] = Empty
  OBVIOUS
<1>2. FilesInv /\ WindowsInv /\ LingersInv /\ SaveInv
  <2>1. FilesInv
    <3>1. noted = {} /\ made = {} /\ \A v \in Windows : doc[v] = {}
      OBVIOUS
    <3>2. dir["scratch"] /\ {} # Cut /\ Held({}) = {}
      BY HeldFacts
    <3>3. /\ file["scratch"].db = {} /\ file["scratch"].wal = Absent /\ file["scratch"].json = {}
          /\ file["dat0"].db = Absent /\ file["dat0"].wal = Absent /\ file["dat0"].json = Absent
      BY <1>1
    <3> QED
      BY <1>1, <3>1, <3>2, <3>3, HeldFacts DEF FilesInv
  <2>2. PICK first \in Windows :
           /\ win = [w \in Windows |-> IF w = first THEN "ready" ELSE "closed"]
           /\ engine = [w \in Windows |-> IF w = first THEN "scratch" ELSE NoEngine]
    OBVIOUS
  <2>3. WindowsInv /\ LingersInv /\ SaveInv
    BY <2>2 DEF WindowsInv, LingersInv, SaveInv, SessionWindow, Saving, Sync, NoEngine
  <2> QED
    BY <2>1, <2>3
<1>3. BesideInv /\ ChoiceInv /\ WorkKept
  BY DEF BesideInv, ChoiceInv, WorkKept
<1> QED
  BY <1>2, <1>3 DEF WorkInv

\* Where only system calls of a save fail, the invariants hold together.
LEMMA WorkInvariant == Hazards \subseteq {"io"} => (Spec => [](TypeInv /\ LockInv /\ WorkInv))
<1> SUFFICES ASSUME Hazards \subseteq {"io"} PROVE Spec => [](TypeInv /\ LockInv /\ WorkInv)
  OBVIOUS
<1>1. Calm
  BY DEF Calm
<1>2. TypeInv /\ LockInv /\ [Next]_vars => LockInv'
  BY <1>1, NextLock DEF Calm
<1>3. TypeInv /\ LockInv /\ WorkInv /\ [Next]_vars => WorkInv'
  BY <1>1, NextWork
<1>4. Init => LockInv /\ WorkInv
  BY InitLock, InitWork
<1> QED
  BY <1>2, <1>3, <1>4, TypeInvariant, PTL DEF Spec

\* Where nothing but the system calls of a save fails, and whenever the process
\* dies, every edit a session file ever recorded is in a database of one of the
\* two homes, unless the user discarded it: for any windows, edits and crashes.
THEOREM WorkKeptAlways == Hazards \subseteq {"io"} => (Spec => []WorkKept)
<1>1. WorkInv => WorkKept
  BY DEF WorkInv
<1> QED
  BY <1>1, WorkInvariant, PTL

\* The directory under a working window's engine is never removed, by the sweep
\* or by a Discard.
THEOREM LiveHomeAlways == Hazards \subseteq {"io"} => (Spec => []LiveHomeStays)
<1>1. WorkInv => LiveHomeStays
  BY DEF WorkInv, WindowsInv, LiveHomeStays
<1> QED
  BY <1>1, WorkInvariant, PTL

\* Windows, saves, recovery and the sweep implement KeptWork: an edit, recorded
\* or not, leaves the homes only with one no window works on, that the user
\* discards or the sweep removes.
THEOREM ImplementsKeptWork == Hazards \subseteq {"io"} => (Spec => KeptSpec)
<1> SUFFICES ASSUME Hazards \subseteq {"io"} PROVE Spec => KeptSpec
  OBVIOUS
<1>1. Calm
  BY DEF Calm
<1>2. Init => Kept!Init
  <2> SUFFICES ASSUME Init PROVE Kept!Init
    OBVIOUS
  <2>1. file["scratch"].db = {} /\ file["scratch"].wal = Absent /\ file["dat0"].db = Absent
    BY DEF Init, Homes, Parts, Empty
  <2>2. Contents("scratch") = {} /\ Contents("dat0") = {}
    BY <2>1, HeldFacts DEF Contents
  <2>3. noted = {} /\ dropped = {} /\ Working \in SUBSET Homes
    BY DEF Init, Working
  <2>4. [h \in Homes |-> Contents(h)] = [h \in Homes |-> {}]
    BY <2>2 DEF Homes
  <2> QED
    BY <2>3, <2>4 DEF Kept!Init
<1>3. TypeInv /\ LockInv /\ WorkInv /\ [Next]_vars => [Kept!Next]_(Kept!vars)
  BY <1>1, NextKept DEF KeptStep
<1> QED
  BY <1>2, <1>3, WorkInvariant, PTL DEF Spec, KeptSpec, Kept!Spec

-----------------------------------------------------------------------------
(* What is recorded stays recorded. *)

\* A window's session keeps at least what the record it will write over names,
\* and a save that moves the record overwrites none.
RecordInv ==
  \A w \in Windows :
    /\ \/ win[w] \in {"alone", "create", "move", "copying", "copied"}
       \/ win[w] = "ready" /\ engine[w] = "scratch"
       => Held(file["scratch"].json) \subseteq doc[w]
    /\ win[w] = "move" => file["dat0"].json = Absent
    /\ win[w] \in {"copying", "copied"} =>
         file["dat0"].json = IF part[w] = 3 THEN file["scratch"].json ELSE Absent
    /\ win[w] \in {"manifest", "adopt", "clean"} => file["scratch"].json = Absent
    /\ win[w] \in {"manifest", "adopt", "clean"} \/ (win[w] = "ready" /\ engine[w] = "dat0")
       => Held(file["dat0"].json) \subseteq doc[w]
    /\ win[w] = "waiting" => Held(file[target[w]].json) \subseteq doc[w]

\* A window that writes the record of a home is the only one that uses it.
Uses(v, h) ==
  IF h = "scratch"
  THEN engine[v] = "scratch" \/ win[v] \in Saving \/ (win[v] = "waiting" /\ target[v] = "scratch")
  ELSE \/ win[v] \in {"move", "copying", "copied", "manifest", "adopt", "clean"}
       \/ win[v] = "ready" /\ engine[v] = "dat0"
       \/ win[v] = "waiting" /\ target[v] = "dat0"

LEMMA OnlyUser ==
  ASSUME TypeInv, LockInv, WindowsInv, NEW w \in Windows, NEW h \in Homes, Turn(w), Uses(w, h)
  PROVE  \A v \in Windows \ {w} : ~Uses(v, h)
<1>1. CASE h = "scratch"
  BY <1>1, SessionWindows DEF Uses, SessionWindow, Saving, Sync
<1>2. CASE h = "dat0"
  <2>1. ASSUME NEW v \in Windows, Uses(v, h), win[v] # "clean", win[v] # "manifest" PROVE flock = v
    BY <1>2, <2>1 DEF Uses, LockInv
  <2>2. \A v \in Windows \ {w} : Uses(v, h) => win[v] # "clean" /\ win[v] # "manifest"
    BY DEF Turn, Sync
  <2>3. win[w] \in {"clean", "manifest"} => flock = w
    BY DEF WindowsInv, LockInv
  <2> QED
    BY <2>1, <2>2, <2>3
<1> QED
  BY <1>1, <1>2 DEF Homes

LEMMA NextRecord ==
  ASSUME TypeInv, LockInv, WorkInv, Calm, RecordInv, [Next]_vars PROVE RecordInv'
<1> USE HomesAssumption DEF WorkInv, Calm, RecordInv, TypeInv, TypeOK, DiskOK, WinsOK, Homes, Parts, NoEngine, Turn, UIFree, Sync, Saving, disk, wins, proc, ghost
<1>1. ASSUME NEW w \in Windows, NEW e \in Edits, Commit(w, e) PROVE RecordInv'
  BY <1>1 DEF Commit
<1>2. ASSUME NEW w \in Windows, Note(w) PROVE RecordInv'
  <2>1. engine[w] \in Homes
    BY <1>2, EngineHome DEF Note, HasEngine
  <2>2. engine[w] = RecordHome(w) /\ Contents(engine[w]) \in SUBSET Edits
    BY <1>2, <2>1, EngineHome, ContentsMade DEF Note, RecordHome
  <2> DEFINE now == doc[w] \cup Contents(engine[w])
  <2>3. file' = [file EXCEPT ![engine[w]].json = now] /\ doc' = [doc EXCEPT ![w] = now]
    BY <1>2, <2>1, <2>2 DEF Note
  <2>4. now # Absent /\ Held(now) = now /\ doc[w] \subseteq now
    BY <2>2, HeldFacts
  <2> HIDE DEF now
  <2>5. \A v \in Windows \ {w} : ~Uses(v, engine[w])
    BY <1>2, <2>1, OnlyUser DEF Note, Uses
  <2>6. UNCHANGED <<win, engine, target, part>> /\ win[w] = "ready"
    BY <1>2 DEF Note
  <2>7. \A h \in Homes : file'[h].json = IF h = engine[w] THEN now ELSE file[h].json
    BY <2>1, <2>3
  <2> QED
    BY <2>1, <2>3, <2>4, <2>5, <2>6, <2>7 DEF Uses
<1>3. ASSUME NEW w \in Windows, StartSave(w) PROVE RecordInv'
  BY <1>3 DEF StartSave, HasEngine, WindowsInv
<1>4. ASSUME NEW w \in Windows, Checkpoint(w) PROVE RecordInv'
  <2>1. \A h \in Homes : file'[h].json = file[h].json
    BY <1>4 DEF Checkpoint
  <2>2. win' \in {[win EXCEPT ![w] = "create"], [win EXCEPT ![w] = "ready"]} /\ win[w] = "alone"
        /\ UNCHANGED <<doc, engine, target, part>>
    BY <1>4 DEF Checkpoint
  <2>3. engine[w] # "dat0"
    BY <2>2 DEF LockInv
  <2> QED
    BY <2>1, <2>2, <2>3
<1>5. ASSUME NEW w \in Windows, CreateDat0(w) PROVE RecordInv'
  <2>1. file["dat0"].json = Absent
    BY <1>5 DEF CreateDat0, LockInv, FilesInv, Empty
  <2> QED
    BY <1>5, <2>1 DEF CreateDat0, FailSave
<1>6. ASSUME NEW w \in Windows, Rename(w) PROVE RecordInv'
  <2>1. win[w] = "move" /\ (part[w] = 3 <=> Moving(w) = "json") /\ Moving(w) \in Parts
    BY <1>6, MoveOrderFacts DEF Rename, Moving
  <2>2. \A v \in Windows \ {w} : ~Uses(v, "scratch") /\ ~Uses(v, "dat0")
    BY <1>6, OnlyUser DEF Rename, Uses
  <2>3. \A v \in Windows \ {w} : win'[v] = win[v] /\ engine'[v] = engine[v]
    BY <1>6 DEF Rename, FailSave, Moved
  <2>4. UNCHANGED <<doc, target>>
    BY <1>6 DEF Rename
  <2>5. CASE win'[w] = "aftermath"
    BY <2>2, <2>3, <2>4, <2>5 DEF Uses
  <2>6. CASE win'[w] # "aftermath"
    <3>1. Moved(w)
      BY <1>6, <2>6 DEF Rename, FailSave
    <3>2. \A h \in Homes : part[w] # 3 => file'[h].json = file[h].json
      BY <1>6, <2>1 DEF Rename
    <3>3. part[w] = 3 => file'["dat0"].json = file["scratch"].json /\ file'["scratch"].json = Absent
      BY <1>6, <2>1, <2>6 DEF Rename, FailSave
    <3>4. part[w] # 3 => win'[w] = "move"
      BY <3>1, MoveOrderFacts DEF Moved
    <3>5. part[w] = 3 => win'[w] = "manifest"
      BY <3>1, MoveOrderFacts DEF Moved
    <3> QED
      BY <2>1, <2>2, <2>3, <2>4, <3>2, <3>3, <3>4, <3>5 DEF Uses
  <2> QED
    BY <2>5, <2>6
<1>7. ASSUME NEW w \in Windows, StartCopy(w) PROVE RecordInv'
  <2>1. win[w] = "move" /\ (part[w] = 3 <=> Moving(w) = "json") /\ Moving(w) \in Parts
    BY <1>7, MoveOrderFacts DEF StartCopy, Moving
  <2>2. \A v \in Windows \ {w} : ~Uses(v, "dat0")
    BY <1>7, OnlyUser DEF StartCopy, Uses
  <2>3. win' = [win EXCEPT ![w] = "copying"] /\ UNCHANGED <<engine, doc, target, part>>
        /\ file' = [file EXCEPT !["dat0"][Moving(w)] = file["scratch"][Moving(w)]]
    BY <1>7 DEF StartCopy
  <2>4. /\ file'["scratch"].json = file["scratch"].json
        /\ file'["dat0"].json = IF part[w] = 3 THEN file["scratch"].json ELSE file["dat0"].json
    BY <2>1, <2>3
  <2> QED
    BY <2>1, <2>2, <2>3, <2>4 DEF Uses
<1>8. ASSUME NEW w \in Windows, FinishCopy(w) PROVE RecordInv'
  <2>1. \A v \in Windows \ {w} : ~Uses(v, "dat0")
    BY <1>8, OnlyUser DEF FinishCopy, Uses
  <2>2. /\ win' = [win EXCEPT ![w] = win'[w]] /\ UNCHANGED <<engine, doc, target, part>>
        /\ win[w] = "copying"
        /\ (win'[w] = "copied" /\ file' = file) \/ win'[w] = "aftermath"
    BY <1>8 DEF FinishCopy, FailSave
  <2>3. file'["scratch"].json = file["scratch"].json
    BY <1>8 DEF FinishCopy
  <2> QED
    BY <2>1, <2>2, <2>3 DEF Uses
<1>9. ASSUME NEW w \in Windows, RemoveSource(w) PROVE RecordInv'
  <2>1. win[w] = "copied" /\ (part[w] = 3 <=> Moving(w) = "json") /\ Moving(w) \in Parts
    BY <1>9, MoveOrderFacts DEF RemoveSource, Moving
  <2>2. \A v \in Windows \ {w} : ~Uses(v, "scratch") /\ ~Uses(v, "dat0")
    BY <1>9, OnlyUser DEF RemoveSource, Uses
  <2>3. /\ \A v \in Windows \ {w} : win'[v] = win[v]
        /\ UNCHANGED <<doc, target, engine>> /\ file'["dat0"] = file["dat0"]
    BY <1>9 DEF RemoveSource, FailSave, Moved
  <2>4. CASE win'[w] = "aftermath"
    BY <2>2, <2>3, <2>4 DEF Uses
  <2>5. CASE win'[w] # "aftermath"
    <3>1. Moved(w) /\ file' = [file EXCEPT !["scratch"][Moving(w)] = Absent]
      BY <1>9, <2>5 DEF RemoveSource, FailSave
    <3>2. file'["scratch"].json = IF part[w] = 3 THEN Absent ELSE file["scratch"].json
      BY <2>1, <3>1
    <3>3. /\ part[w] # 3 => win'[w] = "move"
          /\ part[w] = 3 => win'[w] = "manifest"
      BY <3>1, MoveOrderFacts DEF Moved
    <3> QED
      BY <2>1, <2>2, <2>3, <3>2, <3>3 DEF Uses
  <2> QED
    BY <2>4, <2>5
<1>10. ASSUME NEW w \in Windows, WriteManifest(w) PROVE RecordInv'
  BY <1>10 DEF WriteManifest, FailSave
<1>11. ASSUME NEW w \in Windows, Adopt(w) PROVE RecordInv'
  <2>1. \A v \in Windows \ {w} : ~Uses(v, "dat0")
    BY <1>11, OnlyUser DEF Adopt, Uses
  <2>2. EngineFree(w, "dat0") /\ dir["dat0"]
    BY <1>11, SessionWindows DEF Adopt, EngineFree, LockInv, LingersInv, WindowsInv
  <2>3. \/ file' = [file EXCEPT !["dat0"].json = doc[w]] /\ engine' = [engine EXCEPT ![w] = "dat0"]
           /\ win' = [win EXCEPT ![w] = "clean"]
        \/ file' = file /\ engine' = [engine EXCEPT ![w] = "dat0"]
           /\ win' = [win EXCEPT ![w] = "ready"]
        \/ file' = file /\ engine' = engine /\ win' = [win EXCEPT ![w] = "aftermath"]
    BY <1>11, <2>2 DEF Adopt, FailSave
  <2>4. UNCHANGED <<doc, target, part>> /\ win[w] = "adopt" /\ Held(doc[w]) = doc[w]
    BY <1>11, HeldFacts DEF Adopt
  <2> QED
    BY <2>1, <2>3, <2>4 DEF Uses
<1>12. ASSUME NEW w \in Windows, Clean(w) PROVE RecordInv'
  <2>1. \A v \in Windows \ {w} : ~Uses(v, "scratch")
    BY <1>12, OnlyUser DEF Clean, Uses
  <2>2. engine[w] = "dat0" /\ file["scratch"].json = Absent
    BY <1>12 DEF Clean, WindowsInv
  <2>3. file' \in {file, [file EXCEPT !["scratch"] = Empty]} /\ UNCHANGED <<engine, doc, target, part>>
        /\ win' = [win EXCEPT ![w] = "ready"] /\ win[w] = "clean"
    BY <1>12 DEF Clean
  <2>4. \A h \in Homes : file'[h].json = file[h].json
    BY <2>2, <2>3 DEF Empty
  <2> QED
    BY <2>2, <2>3, <2>4
<1>13. ASSUME NEW w \in Windows, Aftermath(w) PROVE RecordInv'
  <2>1. \A v \in Windows : ~Uses(v, "dat0")
    <3>1. \A v \in Windows : win[v] # "clean" /\ flock # v
      BY <1>13 DEF Aftermath, LockInv
    <3> QED
      BY <3>1 DEF Uses, LockInv
  <2>2. file'["scratch"].json = file["scratch"].json /\ UNCHANGED <<doc, part>>
    BY <1>13 DEF Aftermath
  <2>3. /\ win' = [win EXCEPT ![w] = win'[w]] /\ win'[w] \in {"booting", "failed"}
        /\ engine' = [engine EXCEPT ![w] = NoEngine]
        /\ \A v \in Windows \ {w} : target'[v] = target[v]
    BY <1>13 DEF Aftermath
  <2> QED
    BY <2>1, <2>2, <2>3 DEF Uses
<1>14. ASSUME NEW w \in Windows, Mount(w) PROVE RecordInv'
  BY <1>14 DEF Mount
<1>15. ASSUME NEW w \in Windows, ReadRecord(w) PROVE RecordInv'
  BY <1>15 DEF ReadRecord
<1>16. ASSUME NEW w \in Windows, OpenEngine(w) PROVE RecordInv'
  <2>1. \A v \in Windows \ {w} : ~Uses(v, target[w])
    BY <1>16, OnlyUser DEF OpenEngine, Uses
  <2>2. \A h \in Homes : file'[h].json = IF h = target[w] THEN doc[w] ELSE file[h].json
    BY <1>16 DEF OpenEngine
  <2>3. /\ win' = [win EXCEPT ![w] = "ready"] /\ win[w] = "waiting"
        /\ engine' = [engine EXCEPT ![w] = target[w]] /\ UNCHANGED <<doc, target, part>>
    BY <1>16 DEF OpenEngine
  <2>4. Held(doc[w]) = doc[w] /\ doc[w] # Absent
    BY HeldFacts
  <2> QED
    BY <2>1, <2>2, <2>3, <2>4 DEF Uses
<1>17. ASSUME NEW w \in Windows, OpenFails(w) PROVE RecordInv'
  <2>1. \A g \in Homes : file'[g].json = file[g].json
    BY <1>17 DEF OpenFails
  <2>2. win' = [win EXCEPT ![w] = "failed"] /\ UNCHANGED <<engine, doc, target, part>>
    BY <1>17 DEF OpenFails
  <2> QED
    BY <2>1, <2>2
<1>18. ASSUME NEW w \in Windows, Retry(w) PROVE RecordInv'
  BY <1>18 DEF Retry
<1>19. ASSUME NEW w \in Windows, RetryNew(w) PROVE RecordInv'
  <2>1. \A v \in Windows \ {w} : ~Uses(v, "scratch")
    <3>1. SessionWindow(w)
      BY <1>19 DEF RetryNew, SessionWindow
    <3> QED
      BY <3>1, SessionWindows DEF Uses, WindowsInv
  <2>2. file' = [file EXCEPT !["scratch"] = file'["scratch"]] /\ file'["scratch"].json = {}
    BY <1>19 DEF RetryNew
  <2>3. /\ win' = [win EXCEPT ![w] = "ready"] /\ engine' = [engine EXCEPT ![w] = "scratch"]
        /\ doc' = [doc EXCEPT ![w] = {}] /\ target' = [target EXCEPT ![w] = "scratch"]
        /\ part' = part
    BY <1>19 DEF RetryNew
  <2> QED
    BY <2>1, <2>2, <2>3, HeldFacts DEF Uses
<1>20. ASSUME NEW w \in Windows, CloseWindow(w) PROVE RecordInv'
  <2>1. \A g \in Homes : file'[g].json = file[g].json
    BY <1>20 DEF CloseWindow
  <2>2. /\ win' = [win EXCEPT ![w] = "closed"] /\ engine' = [engine EXCEPT ![w] = NoEngine]
        /\ doc' = [doc EXCEPT ![w] = {}] /\ UNCHANGED <<target, part>>
    BY <1>20 DEF CloseWindow
  <2> QED
    BY <2>1, <2>2
<1>21. ASSUME NEW w \in Windows, OpenWorkspace(w) PROVE RecordInv'
  BY <1>21 DEF OpenWorkspace, NewWindow
<1>22. ASSUME NEW w \in Windows, OpenOrphan(w) PROVE RecordInv'
  BY <1>22 DEF OpenOrphan, NewWindow
<1>23. ASSUME NEW w \in Windows, Resume(w) PROVE RecordInv'
  BY <1>23 DEF Resume, NewWindow
<1>24. ASSUME Look PROVE RecordInv'
  BY <1>24 DEF Look
<1>25. ASSUME DiscardOrphan PROVE RecordInv'
  <2>1. \A v \in Windows : ~Uses(v, "scratch")
    BY <1>25, SessionWindows DEF DiscardOrphan, WindowsInv, SessionWindow, Uses
  <2> QED
    BY <1>25, <2>1 DEF DiscardOrphan, Uses
<1>26. ASSUME DiscardIncomplete PROVE RecordInv'
  BY <1>26, HeldFacts DEF DiscardIncomplete, Empty
<1>27. ASSUME Die PROVE RecordInv'
  BY <1>27 DEF Die
<1>28. ASSUME Boot PROVE RecordInv'
  BY <1>28 DEF Boot
<1>29. ASSUME SweepDecides PROVE RecordInv'
  BY <1>29 DEF SweepDecides
<1>30. ASSUME SweepRemoves PROVE RecordInv'
  <2>1. \A v \in Windows : ~Uses(v, "scratch")
    BY <1>30, SessionWindows DEF SweepRemoves, ChoiceInv, Uses
  <2> QED
    BY <1>30, <2>1 DEF SweepRemoves, Uses
<1>32. ASSUME NEW h \in Homes, LetGo(h) PROVE RecordInv'
  <2>1. \A g \in Homes : file'[g].json = file[g].json
    BY <1>32, LetGoFiles
  <2>2. UNCHANGED <<win, engine, doc, target, part>>
    BY <1>32 DEF LetGo
  <2> QED
    BY <2>1, <2>2
<1>31. CASE UNCHANGED vars
  BY <1>31 DEF vars
<1> QED
  BY <1>1, <1>2, <1>3, <1>4, <1>5, <1>6, <1>7, <1>8, <1>9, <1>10, <1>11, <1>12, <1>13, <1>14, <1>15, <1>16, <1>17, <1>18, <1>19, <1>20, <1>21, <1>22, <1>23, <1>24, <1>25, <1>26, <1>27, <1>28, <1>29, <1>30, <1>31, <1>32 DEF Next, SaveStep, BootStep

\* No step leaves less recorded than there was, but for a home discarded and a
\* new session's empty record.
Grown ==
  \/ Records \subseteq Records'
  \/ DiscardOrphan \/ DiscardIncomplete
  \/ \E w \in Windows : RetryNew(w)

LEMMA KeptRecords ==
  (\A h \in Homes : Held(file[h].json) \subseteq Held(file'[h].json)) => Grown
  BY DEF Grown, Records, Homes, Held

\* A copy of the record left short leaves the original.
LEMMA ShortCopy ==
  ASSUME TypeInv, RecordInv, NEW w \in Windows, win[w] = "copying",
         NEW left \in {Absent, Cut}, file' = [file EXCEPT !["dat0"][Moving(w)] = left]
  PROVE  Grown
<1>1. Moving(w) \in Parts
  BY MoveOrderFacts DEF Moving, Parts, TypeInv, TypeOK, WinsOK
<1>2. file'["scratch"] = file["scratch"]
  BY DEF TypeInv, TypeOK, DiskOK, Homes
<1>3. Held(file["dat0"].json) \subseteq Held(file["scratch"].json)
  BY HeldFacts DEF RecordInv
<1>4. Records \subseteq Records'
  <2>1. Held(file'["scratch"].json) = Held(file["scratch"].json)
    BY <1>2
  <2> QED
    BY <1>3, <2>1 DEF Records, Held
<1> QED
  BY <1>4 DEF Grown

LEMMA NextGrown ==
  ASSUME TypeInv, LockInv, WorkInv, Calm, RecordInv, [Next]_vars PROVE Grown
<1> USE HomesAssumption DEF WorkInv, Calm, RecordInv, TypeInv, TypeOK, DiskOK, WinsOK, Homes, Parts, NoEngine, Turn, UIFree, Sync, Saving, disk, wins, proc, ghost, Grown
<1>1. ASSUME NEW w \in Windows, NEW e \in Edits, Commit(w, e) PROVE Grown
  <2>1. \A h \in Homes : file'[h].json = file[h].json
    BY <1>1 DEF Commit
  <2> QED
    BY <2>1, KeptRecords
<1>2. ASSUME NEW w \in Windows, Note(w) PROVE Grown
  <2>1. engine[w] \in Homes
    BY <1>2, EngineHome DEF Note, HasEngine
  <2>2. engine[w] = RecordHome(w) /\ Contents(engine[w]) \in SUBSET Edits
    BY <1>2, <2>1, EngineHome, ContentsMade DEF Note, RecordHome
  <2> DEFINE now == doc[w] \cup Contents(engine[w])
  <2>3. file' = [file EXCEPT ![engine[w]].json = now]
    BY <1>2, <2>1, <2>2 DEF Note
  <2>4. Held(now) = now /\ doc[w] \subseteq now
    BY <2>2, HeldFacts
  <2> HIDE DEF now
  <2>5. Held(file[engine[w]].json) \subseteq doc[w]
    BY <1>2, <2>1 DEF Note
  <2> QED
    BY <2>1, <2>3, <2>4, <2>5, KeptRecords
<1>3. ASSUME NEW w \in Windows, StartSave(w) PROVE Grown
  <2>1. \A h \in Homes : file'[h].json = file[h].json
    BY <1>3 DEF StartSave
  <2> QED
    BY <2>1, KeptRecords
<1>4. ASSUME NEW w \in Windows, Checkpoint(w) PROVE Grown
  <2>1. \A h \in Homes : file'[h].json = file[h].json
    BY <1>4 DEF Checkpoint
  <2> QED
    BY <2>1, KeptRecords
<1>5. ASSUME NEW w \in Windows, CreateDat0(w) PROVE Grown
  <2>1. \A h \in Homes : file'[h].json = file[h].json
    BY <1>5 DEF CreateDat0, FailSave
  <2> QED
    BY <2>1, KeptRecords
<1>6. ASSUME NEW w \in Windows, Rename(w) PROVE Grown
  <2>1. Moving(w) \in Parts
    BY MoveOrderFacts DEF Moving
  <2>2. CASE file' = file
    BY <2>2, KeptRecords
  <2>3. CASE file' = [file EXCEPT !["dat0"][Moving(w)] = file["scratch"][Moving(w)],
                                  !["scratch"][Moving(w)] = Absent]
    <3>1. file["dat0"].json = Absent
      BY <1>6 DEF Rename
    <3>2. CASE Moving(w) = "json"
      BY <2>3, <3>1, <3>2, HeldFacts DEF Records
    <3>3. CASE Moving(w) # "json"
      <4>1. \A h \in Homes : file'[h].json = file[h].json
        BY <2>1, <2>3, <3>3
      <4> QED
        BY <4>1, KeptRecords
    <3> QED
      BY <3>2, <3>3
  <2> QED
    BY <1>6, <2>2, <2>3 DEF Rename
<1>7. ASSUME NEW w \in Windows, StartCopy(w) PROVE Grown
  <2>1. Moving(w) \in Parts
    BY MoveOrderFacts DEF Moving
  <2>2. file["dat0"].json = Absent /\ file' = [file EXCEPT !["dat0"][Moving(w)] = file["scratch"][Moving(w)]]
    BY <1>7 DEF StartCopy
  <2>3. file'["scratch"].json = file["scratch"].json
    BY <2>2
  <2> QED
    BY <2>2, <2>3, HeldFacts DEF Records
<1>8. ASSUME NEW w \in Windows, FinishCopy(w) PROVE Grown
  <2>1. Moving(w) \in Parts
    BY MoveOrderFacts DEF Moving
  <2>2. CASE file' = file
    BY <2>2, KeptRecords
  <2>3. ASSUME NEW left \in {Absent, Cut}, file' = [file EXCEPT !["dat0"][Moving(w)] = left]
        PROVE  Grown
    <3>1. win[w] = "copying"
      BY <1>8 DEF FinishCopy
    <3> QED
      BY <2>3, <3>1, ShortCopy
  <2> QED
    BY <1>8, <2>2, <2>3 DEF FinishCopy
<1>9. ASSUME NEW w \in Windows, RemoveSource(w) PROVE Grown
  <2>1. Moving(w) \in Parts
    BY MoveOrderFacts DEF Moving
  <2>2. CASE file' = file
    BY <2>2, KeptRecords
  <2>3. CASE file' = [file EXCEPT !["scratch"][Moving(w)] = Absent]
    <3>1. part[w] = 3 <=> Moving(w) = "json"
      BY MoveOrderFacts DEF Moving
    <3>2. file'["dat0"].json = file["dat0"].json /\ win[w] = "copied"
      BY <1>9, <2>3 DEF RemoveSource
    <3>3. CASE part[w] = 3
      BY <2>3, <3>1, <3>2, <3>3 DEF Records
    <3>4. CASE part[w] # 3
      <4>1. \A h \in Homes : file'[h].json = file[h].json
        BY <2>1, <2>3, <3>1, <3>4
      <4> QED
        BY <4>1, KeptRecords
    <3> QED
      BY <3>3, <3>4
  <2> QED
    BY <1>9, <2>2, <2>3 DEF RemoveSource
<1>10. ASSUME NEW w \in Windows, WriteManifest(w) PROVE Grown
  <2>1. \A h \in Homes : file'[h].json = file[h].json
    BY <1>10 DEF WriteManifest, FailSave
  <2> QED
    BY <2>1, KeptRecords
<1>11. ASSUME NEW w \in Windows, Adopt(w) PROVE Grown
  <2>1. file' \in {file, [file EXCEPT !["dat0"].json = doc[w]]} /\ Held(file["dat0"].json) \subseteq doc[w]
    BY <1>11 DEF Adopt
  <2> QED
    BY <2>1, HeldFacts, KeptRecords
<1>12. ASSUME NEW w \in Windows, Clean(w) PROVE Grown
  <2>1. file' \in {file, [file EXCEPT !["scratch"] = Empty]} /\ file["scratch"].json = Absent
    BY <1>12 DEF Clean
  <2> QED
    BY <2>1, KeptRecords DEF Empty
<1>13. ASSUME NEW w \in Windows, Aftermath(w) PROVE Grown
  <2>1. \/ file' = file
        \/ file["dat0"].json = Absent /\ file'["scratch"].json = file["scratch"].json
    BY <1>13 DEF Aftermath
  <2> QED
    BY <2>1, HeldFacts, KeptRecords
<1>14. ASSUME NEW w \in Windows, Mount(w) PROVE Grown
  <2>1. \A h \in Homes : file'[h].json = file[h].json
    BY <1>14 DEF Mount
  <2> QED
    BY <2>1, KeptRecords
<1>15. ASSUME NEW w \in Windows, ReadRecord(w) PROVE Grown
  <2>1. \A h \in Homes : file'[h].json = file[h].json
    BY <1>15 DEF ReadRecord
  <2> QED
    BY <2>1, KeptRecords
<1>16. ASSUME NEW w \in Windows, OpenEngine(w) PROVE Grown
  <2>1. \A h \in Homes : file'[h].json = IF h = target[w] THEN doc[w] ELSE file[h].json
    BY <1>16 DEF OpenEngine
  <2> QED
    BY <1>16, <2>1, HeldFacts, KeptRecords DEF OpenEngine
<1>17. ASSUME NEW w \in Windows, OpenFails(w) PROVE Grown
  <2>1. \A h \in Homes : file'[h].json = file[h].json
    BY <1>17 DEF OpenFails
  <2> QED
    BY <2>1, KeptRecords
<1>18. ASSUME NEW w \in Windows, Retry(w) PROVE Grown
  <2>1. \A h \in Homes : file'[h].json = file[h].json
    BY <1>18 DEF Retry
  <2> QED
    BY <2>1, KeptRecords
<1>19. ASSUME NEW w \in Windows, RetryNew(w) PROVE Grown
  BY <1>19
<1>20. ASSUME NEW w \in Windows, CloseWindow(w) PROVE Grown
  <2>1. \A h \in Homes : file'[h].json = file[h].json
    BY <1>20 DEF CloseWindow
  <2> QED
    BY <2>1, KeptRecords
<1>21. ASSUME NEW w \in Windows, OpenWorkspace(w) PROVE Grown
  <2>1. \A h \in Homes : file'[h].json = file[h].json
    BY <1>21 DEF OpenWorkspace, NewWindow
  <2> QED
    BY <2>1, KeptRecords
<1>22. ASSUME NEW w \in Windows, OpenOrphan(w) PROVE Grown
  <2>1. \A h \in Homes : file'[h].json = file[h].json
    BY <1>22 DEF OpenOrphan, NewWindow
  <2> QED
    BY <2>1, KeptRecords
<1>23. ASSUME NEW w \in Windows, Resume(w) PROVE Grown
  <2>1. \A h \in Homes : file'[h].json = file[h].json
    BY <1>23 DEF Resume, NewWindow
  <2> QED
    BY <2>1, KeptRecords
<1>24. ASSUME Look PROVE Grown
  <2>1. \A h \in Homes : file'[h].json = file[h].json
    BY <1>24 DEF Look
  <2> QED
    BY <2>1, KeptRecords
<1>25. ASSUME DiscardOrphan PROVE Grown
  BY <1>25
<1>26. ASSUME DiscardIncomplete PROVE Grown
  BY <1>26
<1>27. ASSUME Die PROVE Grown
  <2>1. CASE file' = file
    BY <2>1, KeptRecords
  <2>2. ASSUME NEW v \in Windows, win[v] = "copying", file' = [file EXCEPT !["dat0"][Moving(v)] = Cut]
        PROVE  Grown
    BY <2>2, ShortCopy
  <2> QED
    BY <1>27, <2>1, <2>2 DEF Die
<1>28. ASSUME Boot PROVE Grown
  <2>1. \A h \in Homes : file'[h].json = file[h].json
    BY <1>28 DEF Boot
  <2> QED
    BY <2>1, KeptRecords
<1>29. ASSUME SweepDecides PROVE Grown
  <2>1. \A h \in Homes : file'[h].json = file[h].json
    BY <1>29 DEF SweepDecides
  <2> QED
    BY <2>1, KeptRecords
<1>30. ASSUME SweepRemoves PROVE Grown
  <2>1. Held(file["scratch"].json) = {} /\ file'["dat0"] = file["dat0"]
    BY <1>30, HeldFacts DEF SweepRemoves, ChoiceInv, Nothing
  <2> QED
    BY <2>1, KeptRecords
<1>32. ASSUME NEW h \in Homes, LetGo(h) PROVE Grown
  <2>1. \A g \in Homes : file'[g].json = file[g].json
    BY <1>32, LetGoFiles
  <2> QED
    BY <2>1, KeptRecords
<1>31. CASE UNCHANGED vars
  <2>1. \A h \in Homes : file'[h].json = file[h].json
    BY <1>31 DEF vars
  <2> QED
    BY <2>1, KeptRecords
<1> QED
  BY <1>1, <1>2, <1>3, <1>4, <1>5, <1>6, <1>7, <1>8, <1>9, <1>10, <1>11, <1>12, <1>13, <1>14, <1>15, <1>16, <1>17, <1>18, <1>19, <1>20, <1>21, <1>22, <1>23, <1>24, <1>25, <1>26, <1>27, <1>28, <1>29, <1>30, <1>31, <1>32 DEF Next, SaveStep, BootStep

LEMMA InitRecord == Init => RecordInv
<1> SUFFICES ASSUME Init PROVE RecordInv
  OBVIOUS
<1>1. file["scratch"].json = {} /\ file["dat0"] = Empty
  BY DEF Init, Homes
<1>2. \A w \in Windows : win[w] \in {"ready", "closed"} /\ engine[w] \in {"scratch", NoEngine}
  BY DEF Init
<1> QED
  BY <1>1, <1>2, HeldFacts DEF RecordInv, NoEngine

\* What the session files record is never lost, but with a home the user
\* discards or to a new session's empty record: whatever step of a save fails,
\* on one volume or two, and whenever the process dies.
THEOREM RecordGrowsAlways == Hazards \subseteq {"io"} => (Spec => RecordGrows)
<1> SUFFICES ASSUME Hazards \subseteq {"io"} PROVE Spec => RecordGrows
  OBVIOUS
<1>1. Calm
  BY DEF Calm
<1>2. TypeInv /\ LockInv /\ WorkInv /\ RecordInv /\ [Next]_vars => RecordInv' /\ Grown
  BY <1>1, NextRecord, NextGrown
<1>3. Grown => [Grown]_vars
  OBVIOUS
<1>4. Init => RecordInv
  BY InitRecord
<1> QED
  BY <1>2, <1>3, <1>4, WorkInvariant, PTL DEF Spec, RecordGrows, Grown

-----------------------------------------------------------------------------
(* What no window has is offered. *)

\* The session is live only for a window it has.
ListedInv == live => \E w \in Windows : SessionWindow(w) /\ win[w] # "opening"

LEMMA NextListed ==
  ASSUME TypeInv, WorkInv, ListedInv, [Next]_vars PROVE ListedInv'
<1> USE DEF WorkInv, WindowsInv, ListedInv, TypeInv, TypeOK, WinsOK, ProcOK, SessionWindow, Turn, UIFree, Sync, Saving, disk, wins, proc, ghost
<1>1. ASSUME NEW w \in Windows, NEW e \in Edits, Commit(w, e) PROVE ListedInv'
  BY <1>1 DEF Commit
<1>2. ASSUME NEW w \in Windows, Note(w) PROVE ListedInv'
  BY <1>2 DEF Note
<1>3. ASSUME NEW w \in Windows, StartSave(w) PROVE ListedInv'
  BY <1>3 DEF StartSave
<1>4. ASSUME NEW w \in Windows, Checkpoint(w) PROVE ListedInv'
  BY <1>4 DEF Checkpoint
<1>5. ASSUME NEW w \in Windows, CreateDat0(w) PROVE ListedInv'
  BY <1>5 DEF CreateDat0, FailSave
<1>6. ASSUME NEW w \in Windows, Rename(w) PROVE ListedInv'
  BY <1>6 DEF Rename, FailSave, Moved, Moving
<1>7. ASSUME NEW w \in Windows, StartCopy(w) PROVE ListedInv'
  BY <1>7 DEF StartCopy
<1>8. ASSUME NEW w \in Windows, FinishCopy(w) PROVE ListedInv'
  BY <1>8 DEF FinishCopy, FailSave
<1>9. ASSUME NEW w \in Windows, RemoveSource(w) PROVE ListedInv'
  BY <1>9 DEF RemoveSource, FailSave, Moved, Moving
<1>10. ASSUME NEW w \in Windows, WriteManifest(w) PROVE ListedInv'
  BY <1>10 DEF WriteManifest, FailSave
<1>11. ASSUME NEW w \in Windows, Adopt(w) PROVE ListedInv'
  BY <1>11 DEF Adopt, FailSave
<1>12. ASSUME NEW w \in Windows, Clean(w) PROVE ListedInv'
  BY <1>12 DEF Clean, Remember
<1>13. ASSUME NEW w \in Windows, Aftermath(w) PROVE ListedInv'
  BY <1>13 DEF Aftermath
<1>14. ASSUME NEW w \in Windows, Mount(w) PROVE ListedInv'
  BY <1>14 DEF Mount
<1>15. ASSUME NEW w \in Windows, ReadRecord(w) PROVE ListedInv'
  BY <1>15 DEF ReadRecord
<1>16. ASSUME NEW w \in Windows, OpenEngine(w) PROVE ListedInv'
  <2>1. win' = [win EXCEPT ![w] = "ready"] /\ UNCHANGED <<kind, live>>
    BY <1>16 DEF OpenEngine
  <2> QED
    BY <2>1
<1>17. ASSUME NEW w \in Windows, OpenFails(w) PROVE ListedInv'
  BY <1>17 DEF OpenFails
<1>18. ASSUME NEW w \in Windows, Retry(w) PROVE ListedInv'
  BY <1>18 DEF Retry
<1>19. ASSUME NEW w \in Windows, RetryNew(w) PROVE ListedInv'
  BY <1>19 DEF RetryNew
<1>20. ASSUME NEW w \in Windows, CloseWindow(w) PROVE ListedInv'
  BY <1>20 DEF CloseWindow
<1>21. ASSUME NEW w \in Windows, OpenWorkspace(w) PROVE ListedInv'
  BY <1>21 DEF OpenWorkspace, NewWindow
<1>22. ASSUME NEW w \in Windows, OpenOrphan(w) PROVE ListedInv'
  BY <1>22 DEF OpenOrphan, NewWindow
<1>23. ASSUME NEW w \in Windows, Resume(w) PROVE ListedInv'
  BY <1>23 DEF Resume, NewWindow
<1>24. ASSUME Look PROVE ListedInv'
  BY <1>24 DEF Look
<1>25. ASSUME DiscardOrphan PROVE ListedInv'
  BY <1>25 DEF DiscardOrphan
<1>26. ASSUME DiscardIncomplete PROVE ListedInv'
  BY <1>26 DEF DiscardIncomplete
<1>27. ASSUME Die PROVE ListedInv'
  BY <1>27 DEF Die
<1>28. ASSUME Boot PROVE ListedInv'
  BY <1>28 DEF Boot
<1>29. ASSUME SweepDecides PROVE ListedInv'
  BY <1>29 DEF SweepDecides
<1>30. ASSUME SweepRemoves PROVE ListedInv'
  BY <1>30 DEF SweepRemoves
<1>32. ASSUME NEW h \in Homes, LetGo(h) PROVE ListedInv'
  BY <1>32 DEF LetGo
<1>31. CASE UNCHANGED vars
  BY <1>31 DEF vars
<1> QED
  BY <1>1, <1>2, <1>3, <1>4, <1>5, <1>6, <1>7, <1>8, <1>9, <1>10, <1>11, <1>12, <1>13, <1>14, <1>15, <1>16, <1>17, <1>18, <1>19, <1>20, <1>21, <1>22, <1>23, <1>24, <1>25, <1>26, <1>27, <1>28, <1>29, <1>30, <1>31, <1>32 DEF Next, SaveStep, BootStep

\* With no window on either home, recorded work is in the scratch directory beside a
\* record that names some, or in a folder that is listed or opens.
LEMMA WorkIsOffered == TypeInv /\ WorkInv /\ ListedInv => WorkOffered
<1> SUFFICES ASSUME TypeInv, WorkInv, ListedInv, \A w \in Windows : win[w] = "closed",
                    Incomplete => recent, file["dat0"].json # Cut,
                    NEW e \in noted \ dropped
             PROVE  e \in Offered
  BY DEF WorkOffered
<1>1. ASSUME e \in Contents("dat0") PROVE e \in Offered
  <2>1. file["dat0"].db \notin {Absent, Cut}
    BY <1>1 DEF Contents
  <2>2. dir["dat0"]
    BY <2>1 DEF WorkInv, FilesInv, Homes, Empty, Parts
  <2>3. "incomplete" \in Listed \/ Opens
    BY <2>1, <2>2 DEF Listed, Incomplete, Opens
  <2> QED
    BY <1>1, <2>3 DEF Offered
<1>2. ASSUME e \in Contents("scratch"), e \notin Contents("dat0") PROVE e \in Offered
  <2>1. e \in Held(file["scratch"].json)
    BY <1>2 DEF WorkInv, BesideInv
  <2>2. file["scratch"].json \notin {Absent, {}} /\ dir["scratch"]
    BY <2>1, HeldFacts DEF WorkInv, FilesInv, Homes, Empty, Parts
  <2>3. ~live
    BY DEF ListedInv, SessionWindow
  <2>4. "orphan" \in Listed
    BY <2>2, <2>3 DEF Listed, NothingToRecover
  <2> QED
    BY <1>2, <2>4 DEF Offered
<1> QED
  BY <1>1, <1>2 DEF WorkInv, WorkKept

\* No recorded edit is stranded, through saves that fail, copies across volumes
\* and crashes: with no window on either home, what holds it is listed by the
\* recovery panel or is a workspace that opens, if the folder was remembered
\* and no copy of the record was left short.
THEOREM WorkOfferedAlways == Hazards \subseteq {"io"} => (Spec => []WorkOffered)
<1> SUFFICES ASSUME Hazards \subseteq {"io"} PROVE Spec => []WorkOffered
  OBVIOUS
<1>1. Init => ListedInv
  BY DEF Init, ListedInv, SessionWindow
<1>2. TypeInv /\ LockInv /\ WorkInv /\ ListedInv /\ [Next]_vars => ListedInv'
  BY NextListed
<1>3. TypeInv /\ LockInv /\ WorkInv /\ ListedInv => WorkOffered
  BY WorkIsOffered
<1> QED
  BY <1>1, <1>2, <1>3, WorkInvariant, PTL DEF Spec
=============================================================================
