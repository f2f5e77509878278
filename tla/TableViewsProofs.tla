---------------------------- MODULE TableViewsProofs ----------------------------
(***************************************************************************)
(* TableViews proved for any number of tables, values and tasks: a file is  *)
(* read as it was last opened, however often it is refreshed; every         *)
(* variable keeps its type, and no history its cap; edits are of the rows   *)
(* their table has; and a grid at rest shows its table's steps over them.   *)
(***************************************************************************)
EXTENDS TableViews, RetainProofs, FiniteSetTheorems, FunctionTheorems, SequenceTheorems, TLAPS

\* What is read and recorded, and the re-imports under way.
Formed ==
  /\ reads \in [Tables -> {"plain", "shaped"}] /\ asked \in [Tables -> {"plain", "shaped"}]
  /\ mishaps = [t \in Tables |-> mishaps[t]]
  /\ \A r \in refresh :
       /\ r = [t |-> r.t, keep |-> r.keep, read |-> r.read, at |-> r.at]
       /\ r.t \in Tables /\ r.at \in {"reading", "shaping"} /\ r.read \in {"plain", "shaped"}

Disturbed(t) == t \in unkept \/ mishaps[t] \cap {"overlapped", "misread"} # {}

\* A table is read again once at a time, by what began with the file's read as
\* it was asked for and has it to give back.
CarriedAt(t) ==
  /\ \A r, q \in refresh : r.t = t /\ q.t = t => r = q
  /\ \A r \in refresh : r.t = t => r.read = asked[t] /\ (r.at = "reading" => reads[t] = asked[t])
  /\ ~Refreshed(t) => reads[t] = asked[t]
Carried == \A t \in Tables : ~Disturbed(t) => CarriedAt(t)

IInv == Formed /\ Carried

-----------------------------------------------------------------------------

\* A step that forgets no mishap.
Grown ==
  /\ mishaps' = [t \in Tables |-> mishaps'[t]]
  /\ \A t \in Tables : mishaps[t] \subseteq mishaps'[t]

\* One that leaves re-imports alone, too.
Apart == Grown /\ UNCHANGED <<refresh, reads, asked, unkept>>

LEMMA ApartKeeps == IInv /\ Apart => IInv'
BY DEF IInv, Formed, Carried, CarriedAt, Disturbed, Refreshed, Apart, Grown

\* A table undisturbed was undisturbed before.
LEMMA WasUndisturbed ==
  ASSUME Grown, unkept \subseteq unkept', NEW t \in Tables, ~Disturbed(t)'
  PROVE  ~Disturbed(t)
BY DEF Grown, Disturbed

\* Marking a table forgets nothing.
LEMMA MarkedGrows ==
  ASSUME Formed, NEW t \in Tables, NEW what, mishaps' = Marked(t, what)
  PROVE  Grown /\ what \subseteq mishaps'[t]
BY DEF Formed, Marked, Grown

\* No change of a view forgets a mishap.
LEMMA AmissGrows ==
  ASSUME NEW t, NEW hit
  PROVE  /\ Amiss(t, hit) = [u \in Tables |-> Amiss(t, hit)[u]]
         /\ \A u \in Tables : mishaps[u] \subseteq Amiss(t, hit)[u]
BY DEF Amiss

LEMMA StartGrows ==
  ASSUME Formed, NEW t, NEW r, Start(t, r)
  PROVE  Grown
<1>1. CASE r.display
  BY <1>1 DEF Start, Formed, Grown
<1>2. CASE ~r.display
  <2>1. PICK hit \in Hits(lane) : mishaps' = Amiss(t, hit)
    BY <1>2 DEF Start
  <2>2. QED BY <2>1, AmissGrows DEF Grown
<1>3. QED BY <1>1, <1>2

LEMMA DriveApart ==
  ASSUME Formed, NEW t, NEW m, Drive(t, m)
  PROVE  Apart
<1>1. Start(t, Regenerate(m)) /\ UNCHANGED <<refresh, reads, asked, unkept>>
  BY DEF Drive, ChangeOn
<1>2. QED BY <1>1, StartGrows DEF Apart

LEMMA StepApart ==
  ASSUME Formed, NEW i \in Ids, Step(i)
  PROVE  Apart
<1>1. UNCHANGED <<refresh, reads, asked, unkept>>
  BY DEF Step
<1>2. mishaps' = mishaps \/ mishaps' = [mishaps EXCEPT ![task[i].t] = @ \cup {"failed"}]
  BY DEF Step, Create, Count, DropView, Fail
<1>3. QED BY <1>1, <1>2 DEF Formed, Apart, Grown

LEMMA EditEndApart ==
  ASSUME Formed, NEW e \in editing, EditEnd(e)
  PROVE  Apart
<1>1. UNCHANGED <<refresh, reads, asked, unkept>>
  BY DEF EditEnd
<1>2. CASE mishaps' = mishaps
  BY <1>1, <1>2 DEF Formed, Apart, Grown
<1>3. ASSUME NEW hit, NEW more, mishaps' = [Amiss(e.t, hit) EXCEPT ![e.t] = @ \cup more]
      PROVE  Apart
  BY <1>1, <1>3, AmissGrows DEF Apart, Grown
<1>4. QED BY <1>2, <1>3 DEF EditEnd

LEMMA SaveEndApart ==
  ASSUME Formed, SaveEnd
  PROVE  Apart
<1>1. /\ UNCHANGED <<refresh, reads, asked, unkept>>
      /\ mishaps' = [t \in Tables |-> IF Of(t) = {} THEN mishaps[t] ELSE mishaps[t] \cup {"unstopped"}]
  BY DEF SaveEnd, RebindAll
<1>2. QED BY <1>1 DEF Apart, Grown

-----------------------------------------------------------------------------
(* Live Refresh. *)

\* It begins with the read the file has, or overlaps.
LEMMA RefreshKeeps ==
  ASSUME IInv, NEW t \in Tables, Refresh(t)
  PROVE  IInv'
<1> DEFINE new == [t |-> t, keep |-> Replayable(Model(t).present), read |-> reads[t], at |-> "reading"]
<1>1. /\ refresh' = refresh \cup {new} /\ UNCHANGED <<reads, asked, unkept>>
      /\ mishaps' = Marked(t, IF Refreshed(t) THEN {"overlapped"} ELSE {})
  BY DEF Refresh
<1>2. /\ new.t = t /\ new.read = reads[t] /\ new.at = "reading"
      /\ new = [t |-> new.t, keep |-> new.keep, read |-> new.read, at |-> new.at]
  OBVIOUS
<1> HIDE DEF new
<1>3. Grown /\ (Refreshed(t) => "overlapped" \in mishaps'[t])
  BY <1>1, MarkedGrows DEF IInv
<1>4. Formed'
  BY <1>1, <1>2, <1>3 DEF IInv, Formed, Grown
<1>5. ASSUME NEW u \in Tables, ~Disturbed(u)'
      PROVE  CarriedAt(u)'
  <2>1. ~Disturbed(u) /\ CarriedAt(u)
    BY <1>1, <1>3, <1>5, WasUndisturbed DEF IInv, Carried
  <2>2. u = t => ~Refreshed(t)
    BY <1>3, <1>5 DEF Disturbed
  <2>3. QED BY <1>1, <1>2, <2>1, <2>2 DEF CarriedAt, Refreshed
<1>6. QED BY <1>4, <1>5 DEF IInv, Carried

\* The read forgets the shape, and what began it does not; a read that ends the
\* re-import leaves the table's as it was.
LEMMA ReimportKeeps ==
  ASSUME IInv, NEW r \in refresh, Reimport(r)
  PROVE  IInv'
<1>1. r.t \in Tables /\ r.at = "reading" /\ UNCHANGED <<asked, unkept>>
  BY DEF IInv, Formed, Reimport
<1>2. ASSUME /\ refresh' = refresh \ {r} /\ Grown /\ reads' \in [Tables -> {"plain", "shaped"}]
             /\ \A t \in Tables : ~Disturbed(t)' => reads'[t] = reads[t]
      PROVE  IInv'
  <2>1. Formed'
    BY <1>1, <1>2 DEF IInv, Formed, Grown
  <2>2. ASSUME NEW t \in Tables, ~Disturbed(t)' PROVE CarriedAt(t)'
    <3>1. CarriedAt(t)
      BY <1>1, <1>2, <2>2, WasUndisturbed DEF IInv, Carried
    <3>2. reads'[t] = reads[t] /\ asked'[t] = asked[t]
      BY <1>1, <1>2, <2>2
    <3>3. QED BY <1>1, <1>2, <3>1, <3>2 DEF CarriedAt, Refreshed
  <2>3. QED BY <2>1, <2>2 DEF IInv, Carried
<1>3. CASE refresh' = refresh \ {r} /\ reads' = reads /\ mishaps' = mishaps
  BY <1>2, <1>3 DEF IInv, Formed, Grown
<1>4. CASE refresh' = refresh \ {r} /\ reads' = reads /\ mishaps' = Marked(r.t, {"unreplayed"})
  BY <1>1, <1>2, <1>4, MarkedGrows DEF IInv, Formed
<1>5. ASSUME NEW u \in Tables, Reread(u), refresh' = refresh \ {r},
             mishaps' = Marked(u, {"unreplayed", "misread"})
      PROVE  IInv'
  <2>1. Grown /\ Disturbed(u)'
    BY <1>5, MarkedGrows DEF IInv, Disturbed
  <2>2. /\ reads' \in [Tables -> {"plain", "shaped"}]
        /\ \A t \in Tables \ {u} : reads'[t] = reads[t]
    BY <1>5 DEF IInv, Formed, Reread
  <2>3. QED BY <1>2, <1>5, <2>1, <2>2
<1>6. CASE /\ reads' = [reads EXCEPT ![r.t] = "plain"] /\ mishaps' = mishaps
           /\ refresh' = (refresh \ {r}) \cup {[r EXCEPT !.at = "shaping"]}
  <2>1. PICK s : s = [t |-> r.t, keep |-> r.keep, read |-> r.read, at |-> "shaping"]
    OBVIOUS
  <2>2. /\ s.t = r.t /\ s.read = r.read /\ s.at = "shaping"
        /\ s = [t |-> s.t, keep |-> s.keep, read |-> s.read, at |-> s.at]
    BY <2>1
  <2>3. refresh' = (refresh \ {r}) \cup {s}
    <3>1. r = [t |-> r.t, keep |-> r.keep, read |-> r.read, at |-> r.at]
      BY DEF IInv, Formed
    <3>2. [r EXCEPT !.at = "shaping"] = s
      BY <2>1, <3>1
    <3>3. QED BY <1>6, <3>2
  <2>4. Formed'
    BY <1>1, <1>6, <2>2, <2>3 DEF IInv, Formed
  <2>5. ASSUME NEW t \in Tables, ~Disturbed(t)' PROVE CarriedAt(t)'
    <3>1. CarriedAt(t)
      BY <1>1, <1>6, <2>5 DEF IInv, Carried, Disturbed
    <3>2. CASE t = r.t
      BY <1>1, <2>2, <2>3, <3>1, <3>2 DEF CarriedAt, Refreshed
    <3>3. CASE t # r.t
      <4>1. reads'[t] = reads[t] /\ \A q \in refresh' : q.t = t => q \in refresh
        BY <1>6, <2>2, <2>3, <3>3 DEF IInv, Formed
      <4>2. \A q \in refresh : q.t = t => q \in refresh'
        BY <2>3, <3>3
      <4>3. QED BY <1>1, <3>1, <4>1, <4>2 DEF CarriedAt, Refreshed
    <3>4. QED BY <3>2, <3>3
  <2>6. QED BY <2>4, <2>5 DEF IInv, Carried
<1>7. QED BY <1>3, <1>4, <1>5, <1>6 DEF Reimport

\* A file dropped again is asked for as it is read, and overlaps a refresh.
LEMMA DropAgainKeeps ==
  ASSUME IInv, NEW t \in Tables, DropAgain(t)
  PROVE  IInv'
<1>1. /\ UNCHANGED <<refresh, unkept>>
      /\ asked' = [asked EXCEPT ![t] = IF reads' = reads THEN @ ELSE "plain"]
      /\ reads' = [reads EXCEPT ![t] = "plain"] \/ reads' = reads
      /\ mishaps' = Marked(t, {"unreplayed"} \cup (IF Refreshed(t) THEN {"overlapped"} ELSE {}))
  BY DEF DropAgain, Reread
<1>2. Grown /\ (Refreshed(t) => "overlapped" \in mishaps'[t])
  BY <1>1, MarkedGrows DEF IInv
<1>3. /\ reads' \in [Tables -> {"plain", "shaped"}] /\ asked' \in [Tables -> {"plain", "shaped"}]
      /\ \A u \in Tables \ {t} : reads'[u] = reads[u] /\ asked'[u] = asked[u]
      /\ reads[t] = asked[t] => reads'[t] = asked'[t]
  BY <1>1 DEF IInv, Formed
<1>4. Formed'
  BY <1>1, <1>2, <1>3 DEF IInv, Formed, Grown
<1>5. ASSUME NEW u \in Tables, ~Disturbed(u)' PROVE CarriedAt(u)'
  <2>1. CarriedAt(u) /\ (u = t => ~Refreshed(t))
    BY <1>1, <1>2, <1>5, WasUndisturbed DEF IInv, Carried, Disturbed
  <2>2. QED BY <1>1, <1>3, <2>1 DEF CarriedAt, Refreshed
<1>6. QED BY <1>4, <1>5 DEF IInv, Carried

\* It gives the read back, if that can be recorded, whether or not the view can
\* be rebuilt.
LEMMA ReplayKeeps ==
  ASSUME IInv, NEW r \in refresh, Replay(r)
  PROVE  IInv'
<1>1. /\ refresh' = refresh \ {r} /\ asked' = asked /\ r.t \in Tables /\ unkept \subseteq unkept'
      /\ reads' = [reads EXCEPT ![r.t] = r.read] \/ (reads' = reads /\ r.t \in unkept')
  BY DEF IInv, Formed, Replay
<1>2. Grown
  <2>1. CASE ready
    BY <2>1, StartGrows DEF IInv, Replay, ChangeOn
  <2>2. CASE ~ready
    BY <1>1, <2>2, MarkedGrows DEF IInv, Replay
  <2>3. QED BY <2>1, <2>2
<1>3. ASSUME NEW t \in Tables, ~Disturbed(t)' PROVE CarriedAt(t)'
  <2>1. CarriedAt(t)
    BY <1>1, <1>2, <1>3, WasUndisturbed DEF IInv, Carried
  <2>2. CASE t = r.t
    BY <1>1, <1>3, <2>1, <2>2 DEF IInv, Formed, CarriedAt, Refreshed, Disturbed
  <2>3. CASE t # r.t
    BY <1>1, <2>1, <2>3 DEF IInv, Formed, CarriedAt, Refreshed
  <2>4. QED BY <2>2, <2>3
<1>4. Formed'
  BY <1>1, <1>2 DEF IInv, Formed, Grown
<1>5. QED BY <1>3, <1>4 DEF IInv, Carried

LEMMA Inductive == Spec => []IInv
<1>1. Init => IInv
  BY DEF Init, IInv, Formed, Carried, CarriedAt
<1>2. IInv /\ [Next]_vars => IInv'
  <2>1. SUFFICES ASSUME IInv, [Next]_vars PROVE IInv'
    OBVIOUS
  <2>2. ASSUME NEW t, NEW m, Drive(t, m) PROVE IInv'
    BY <2>1, <2>2, DriveApart, ApartKeeps DEF IInv
  <2>3. ASSUME NEW t \in Tables,
               \/ Apply(t, Rename) \/ Undo(t) \/ Redo(t)
               \/ \E op \in Upserts : Upsert(t, op)
               \/ \E k \in 0 .. MaxMoves : JumpTo(t, k) \/ RemoveStep(t, k)
        PROVE  IInv'
    BY <2>2, <2>3 DEF Apply, Undo, Redo, Upsert, JumpTo, RemoveStep
  <2>4. ASSUME NEW t \in Tables, EditBegin(t) \/ Forget(t) PROVE IInv'
    BY <2>1, <2>4, ApartKeeps DEF EditBegin, Forget, Apart, Grown, IInv, Formed
  <2>5. ASSUME NEW t \in Tables, Refresh(t) \/ DropAgain(t) PROVE IInv'
    BY <2>1, <2>5, RefreshKeeps, DropAgainKeeps
  <2>6. ASSUME NEW i \in Ids, Step(i) PROVE IInv'
    BY <2>1, <2>6, StepApart, ApartKeeps DEF IInv
  <2>7. ASSUME NEW e \in editing, EditEnd(e) PROVE IInv'
    BY <2>1, <2>7, EditEndApart, ApartKeeps DEF IInv
  <2>8. ASSUME NEW r \in refresh, Reimport(r) \/ Replay(r) PROVE IInv'
    BY <2>1, <2>8, ReimportKeeps, ReplayKeeps
  <2>9. CASE SaveBegin
    BY <2>1, <2>9, ApartKeeps DEF SaveBegin, Apart, Grown, IInv, Formed
  <2>10. CASE SaveEnd
    BY <2>1, <2>10, SaveEndApart, ApartKeeps DEF IInv
  <2>11. CASE UNCHANGED vars
    BY <2>1, <2>11, ApartKeeps DEF vars, Apart, Grown, IInv, Formed
  <2>12. QED
    BY <2>1, <2>3, <2>4, <2>5, <2>6, <2>7, <2>8, <2>9, <2>10, <2>11 DEF Next
<1>3. QED
  BY <1>1, <1>2, PTL DEF Spec

-----------------------------------------------------------------------------
(* The theorem. *)

\* A file is read as it was last opened after any number of refreshes that do
\* not overlap, whichever of them fail, and whatever changes, edits, closed
\* tabs, drops and saves come between their steps, as long as the read could be
\* recorded and no refresh took the file for another table's.
THEOREM KeepsReadAlways == Spec => []KeepsRead
<1>1. IInv => KeepsRead
  BY DEF IInv, Carried, CarriedAt, Disturbed, KeepsRead
<1>2. QED
  BY Inductive, <1>1, PTL

-----------------------------------------------------------------------------
(* A ViewModel, whose stacks are in a set T. *)

VM(T) == [present : T, past : Seq(T), future : Seq(T), view : Nat, sql : Stack \cup {None}, seq : Nat]

\* No more is kept to undo and redo than the cap; there is a view for the
\* steps there are, named as no view of the model was before.
Fits(m) == Len(m.past) + Len(m.future) <= Cap /\ m.view <= m.seq
Tidy(m) == Fits(m) /\ (m.view = 0 <=> m.present = <<>>)

Compiles(m) == m.view # 0 => m.sql = Compiled(m.present)

LEMMA ViewModelIs == ViewModel = VM(Stack) /\ None \notin ViewModel /\ None \notin Stack
BY ViewsAssumption DEF ViewModel, VM, Stack

LEMMA NewIs ==
  ASSUME NEW T, <<>> \in T
  PROVE  New \in VM(T) /\ Tidy(New) /\ Compiles(New)
BY ViewsAssumption DEF New, Stack, VM, Fits, Tidy, Compiles

LEMMA CompiledIs == ASSUME NEW stack \in Stack PROVE Compiled(stack) \in Stack
<1> DEFINE U == {op \in ToSet(stack) : op.kind # "rename"}
<1>1. Retain(stack, U) \in Seq(Op \cap U)
  BY RetainType DEF Stack
<1>2. Retain(stack, U) \in Seq(Op)
  <2> HIDE DEF U
  <2>1. QED BY <1>1
<1>3. QED BY <1>2 DEF Compiled, Stack

\* Steps that are replayed are no edits.
LEMMA ReplayableIs ==
  ASSUME NEW stack \in Stack
  PROVE  Replayable(stack) \in Seq({op \in Op : op.kind # "edit"})
<1> DEFINE U == {op \in ToSet(stack) : op.kind # "edit"}
<1>1. Retain(stack, U) \in Seq(Op \cap U)
  BY RetainType DEF Stack
<1>2. Op \cap U \subseteq {op \in Op : op.kind # "edit"}
  OBVIOUS
<1>3. Retain(stack, U) \in Seq({op \in Op : op.kind # "edit"})
  <2> DEFINE R == Retain(stack, U)
             V == Op \cap U
             W == {op \in Op : op.kind # "edit"}
  <2>1. R \in Seq(V) /\ V \subseteq W
    BY <1>1, <1>2
  <2> HIDE DEF R, V, W
  <2>2. R \in Seq(W)
    BY <2>1
  <2>3. QED BY <2>2 DEF R, W
<1>4. QED BY <1>3 DEF Replayable

LEMMA ShapeIs ==
  ASSUME NEW T, NEW m \in VM(T)
  PROVE  /\ m = [present |-> m.present, past |-> m.past, future |-> m.future, view |-> m.view,
                 sql |-> m.sql, seq |-> m.seq]
         /\ m.present \in T /\ m.past \in Seq(T) /\ m.future \in Seq(T)
         /\ m.view \in Nat /\ m.sql \in Stack \cup {None} /\ m.seq \in Nat
BY DEF VM

\* What a view is made of leaves the stacks alone.
LEMMA RegenerateIs ==
  ASSUME NEW T \in SUBSET Stack, NEW m \in VM(T), m.view <= m.seq
  PROVE  LET r == Regenerate(m) IN
         /\ r.vm \in VM(T) /\ r.vm.present = m.present /\ r.vm.past = m.past /\ r.vm.future = m.future
         /\ (r.vm.view = 0 <=> m.present = <<>>) /\ r.vm.view <= r.vm.seq /\ Compiles(r.vm)
         /\ r.prev \in Nat /\ r.display \in BOOLEAN
         /\ r.display => r.vm = m /\ m.view # 0 /\ m.sql = Compiled(m.present)
         /\ r.prev # 0 => r.prev # r.vm.view
<1>1. /\ m = [present |-> m.present, past |-> m.past, future |-> m.future, view |-> m.view,
              sql |-> m.sql, seq |-> m.seq]
      /\ m.present \in T /\ m.past \in Seq(T) /\ m.future \in Seq(T)
      /\ m.view \in Nat /\ m.sql \in Stack \cup {None} /\ m.seq \in Nat
  BY ShapeIs
<1>2. Compiled(m.present) \in Stack
  BY <1>1, CompiledIs
<1>3. CASE m.present = <<>>
  <2> DEFINE n == [present |-> m.present, past |-> m.past, future |-> m.future, view |-> 0,
                   sql |-> None, seq |-> m.seq]
  <2>1. Regenerate(m) = [vm |-> n, display |-> FALSE, prev |-> m.view]
    BY <1>1, <1>3 DEF Regenerate
  <2>2. n \in VM(T)
    BY <1>1 DEF VM
  <2>3. QED BY <1>1, <1>3, <2>1, <2>2 DEF Compiles
<1>4. CASE m.present # <<>> /\ m.view # 0 /\ m.sql = Compiled(m.present)
  <2>1. Regenerate(m) = [vm |-> m, display |-> TRUE, prev |-> 0]
    BY <1>4 DEF Regenerate
  <2>2. QED BY <1>1, <1>4, <2>1 DEF Compiles
<1>5. CASE m.present # <<>> /\ ~(m.view # 0 /\ m.sql = Compiled(m.present))
  <2> DEFINE n == [present |-> m.present, past |-> m.past, future |-> m.future, view |-> m.seq + 1,
                   sql |-> Compiled(m.present), seq |-> m.seq + 1]
  <2>1. Regenerate(m) = [vm |-> n, display |-> FALSE, prev |-> m.view]
    BY <1>1, <1>5 DEF Regenerate
  <2>2. n \in VM(T)
    BY <1>1, <1>2 DEF VM
  <2>3. QED BY <1>1, <1>5, <2>1, <2>2 DEF Compiles
<1>6. QED BY <1>3, <1>4, <1>5

LEMMA WithIs ==
  ASSUME NEW T, NEW m \in VM(T), Fits(m),
         NEW p \in T, NEW a \in Seq(T), NEW b \in Seq(T), Len(a) + Len(b) <= Cap
  PROVE  With(m, p, a, b) \in VM(T) /\ Fits(With(m, p, a, b))
<1>1. m.view \in Nat /\ m.sql \in Stack \cup {None} /\ m.seq \in Nat
  BY ShapeIs
<1>2. QED BY <1>1 DEF With, VM, Fits

\* As much as there is room for.
LEMMA RoomIs ==
  ASSUME NEW T, NEW a \in Seq(T), NEW b \in Seq(T), Len(a) + Len(b) <= Cap
  PROVE  /\ Len(a) \in Nat /\ Len(b) \in Nat /\ Cap \in Nat \ {0} /\ Len(<<>>) = 0
         /\ Len(b) + Len(a) <= Cap /\ Len(a) <= Cap /\ Len(b) <= Cap
         /\ Len(a) + Len(<<>>) <= Cap /\ <<>> \in Seq(T)
<1>1. Len(a) \in Nat /\ Len(b) \in Nat /\ Cap \in Nat \ {0} /\ Len(<<>>) = 0 /\ <<>> \in Seq(T)
  BY LenProperties, EmptySeq, ViewsAssumption
<1>2. QED BY <1>1

LEMMA KeepsIs ==
  ASSUME NEW T, NEW m \in VM(T), Fits(m)
  PROVE  \E p \in T, a, b \in Seq(T) :
           p = m.present /\ a = m.past /\ b = m.future /\ Len(a) + Len(b) <= Cap
BY ShapeIs DEF Fits

LEMMA CheckpointIs ==
  ASSUME NEW T, NEW m \in VM(T), Fits(m), NEW stack \in T
  PROVE  LET c == Checkpoint(m, stack) IN c \in VM(T) /\ Fits(c)
<1>1. PICK p \in T, a, b \in Seq(T) : p = m.present /\ a = m.past /\ b = m.future /\ Len(a) + Len(b) <= Cap
  BY KeepsIs
<1> DEFINE past == Append(a, p)
           kept == IF Len(past) > Cap THEN Tail(past) ELSE past
<1>2. Checkpoint(m, stack) = With(m, stack, kept, <<>>)
  BY <1>1 DEF Checkpoint
<1>3. Len(a) \in Nat /\ Len(a) <= Cap /\ Cap \in Nat \ {0} /\ <<>> \in Seq(T) /\ Len(<<>>) = 0
  BY <1>1, RoomIs
<1>4. past \in Seq(T) /\ Len(past) = Len(a) + 1 /\ past # <<>>
  BY AppendProperties
<1> HIDE DEF past
<1>5. Tail(past) \in Seq(T) /\ Len(Tail(past)) = Len(a)
  BY <1>3, <1>4, HeadTailProperties
<1>6. kept \in Seq(T) /\ Len(kept) <= Cap /\ Len(kept) \in Nat
  BY <1>3, <1>4, <1>5
<1> HIDE DEF kept
<1>7. Len(kept) + Len(<<>>) <= Cap
  BY <1>3, <1>6
<1>8. QED BY <1>2, <1>3, <1>6, <1>7, WithIs

\* A stack taken off the end of those kept on one side, and one put on the
\* other's.
LEMMA MovedIs ==
  ASSUME NEW T, NEW from \in Seq(T), from # <<>>, NEW to \in Seq(T), NEW stack \in T,
         Len(from) + Len(to) <= Cap
  PROVE  /\ Last(from) \in T /\ Front(from) \in Seq(T) /\ Append(to, stack) \in Seq(T)
         /\ Len(Front(from)) + Len(Append(to, stack)) <= Cap
<1>1. PICK a, b \in Nat : a = Len(from) /\ b = Len(to) /\ a > 0
  BY LenProperties, EmptySeq
<1>2. Append(to, stack) \in Seq(T) /\ Len(Append(to, stack)) = b + 1
  BY <1>1, AppendProperties
<1>3. /\ SubSeq(from, 1, a - 1) \in Seq(T)
      /\ Len(SubSeq(from, 1, a - 1)) = a - 1
  <2>1. \A i \in 1 .. (a - 1) : from[i] \in T
    BY <1>1, ElementOfSeq
  <2>2. /\ SubSeq(from, 1, a - 1) \in Seq(T)
        /\ Len(SubSeq(from, 1, a - 1)) = IF 1 <= a - 1 THEN a - 1 - 1 + 1 ELSE 0
    BY <1>1, <2>1, SubSeqProperties
  <2>3. QED BY <1>1, <2>2
<1>4. Front(from) = SubSeq(from, 1, a - 1) /\ Last(from) = from[a]
  BY <1>1 DEF Front, Last
<1>5. from[a] \in T
  BY <1>1, ElementOfSeq
<1>6. a + b <= Cap /\ Cap \in Nat
  BY <1>1, ViewsAssumption
<1>7. (a - 1) + (b + 1) <= Cap
  BY <1>6
<1>8. QED BY <1>2, <1>3, <1>4, <1>5, <1>7

LEMMA UndoneIs ==
  ASSUME NEW T, NEW m \in VM(T), Fits(m), m.past # <<>>
  PROVE  LET c == Undone(m) IN c \in VM(T) /\ Fits(c)
<1>1. PICK p \in T, a, b \in Seq(T) : p = m.present /\ a = m.past /\ b = m.future /\ Len(a) + Len(b) <= Cap
  BY KeepsIs
<1>2. Undone(m) = With(m, Last(a), Front(a), Append(b, p)) /\ a # <<>>
  BY <1>1 DEF Undone
<1>3. /\ Last(a) \in T /\ Front(a) \in Seq(T) /\ Append(b, p) \in Seq(T)
      /\ Len(Front(a)) + Len(Append(b, p)) <= Cap
  BY <1>1, <1>2, MovedIs
<1>4. QED BY <1>2, <1>3, WithIs

LEMMA RedoneIs ==
  ASSUME NEW T, NEW m \in VM(T), Fits(m), m.future # <<>>
  PROVE  LET c == Redone(m) IN c \in VM(T) /\ Fits(c)
<1>1. PICK p \in T, a, b \in Seq(T) : p = m.present /\ a = m.past /\ b = m.future /\ Len(a) + Len(b) <= Cap
  BY KeepsIs
<1>2. Redone(m) = With(m, Last(b), Append(a, p), Front(b)) /\ b # <<>>
  BY <1>1 DEF Redone
<1>3. Len(b) + Len(a) <= Cap
  BY <1>1, RoomIs
<1>4. /\ Last(b) \in T /\ Front(b) \in Seq(T) /\ Append(a, p) \in Seq(T)
      /\ Len(Front(b)) + Len(Append(a, p)) <= Cap
  BY <1>2, <1>3, MovedIs
<1>5. Len(Append(a, p)) + Len(Front(b)) <= Cap
  BY <1>4, RoomIs
<1>6. QED BY <1>2, <1>4, <1>5, WithIs

LEMMA UpsertedIs ==
  ASSUME NEW S, NEW m \in VM(Seq(S)), Fits(m), NEW op \in S
  PROVE  LET c == Upserted(m, op) IN c \in VM(Seq(S)) /\ Fits(c)
<1> DEFINE T == Seq(S)
           at == {i \in DOMAIN m.present : m.present[i].kind = op.kind}
<1>0. m \in VM(T)
  OBVIOUS
<1>1. CASE at = {}
  <2>1. m.present \in Seq(S)
    BY ShapeIs
  <2>2. Append(m.present, op) \in Seq(S)
    BY <2>1, AppendProperties
  <2>3. Upserted(m, op) = Checkpoint(m, Append(m.present, op))
    BY <1>1 DEF Upserted
  <2>4. QED BY <2>2, <2>3, CheckpointIs
<1>2. CASE at # {}
  <2>1. SUFFICES Upserted(m, op) \in VM(T) /\ Fits(Upserted(m, op))
    OBVIOUS
  <2>2. PICK k \in at : Upserted(m, op) = With(m, [m.present EXCEPT ![k] = op], m.past, <<>>)
    BY <1>2 DEF Upserted
  <2> HIDE DEF T
  <2>3. PICK p \in T, a, b \in Seq(T) : p = m.present /\ a = m.past /\ b = m.future /\ Len(a) + Len(b) <= Cap
    BY <1>0, KeepsIs
  <2> DEFINE new == [p EXCEPT ![k] = op]
  <2>4. new \in T
    <3>1. k \in DOMAIN p /\ p \in Seq(S)
      BY <2>2, <2>3 DEF T
    <3>2. QED BY <3>1, LenProperties, ExceptSeq DEF T
  <2>5. Upserted(m, op) = With(m, new, a, <<>>)
    BY <2>2, <2>3
  <2> HIDE DEF new
  <2>6. <<>> \in Seq(T) /\ Len(a) + Len(<<>>) <= Cap
    BY <2>3, RoomIs
  <2>7. QED BY <1>0, <2>4, <2>5, <2>6, WithIs
<1>3. QED BY <1>1, <1>2

LEMMA ResetIs ==
  ASSUME NEW T, NEW m \in VM(T), Fits(m), NEW U, NEW keep \in U
  PROVE  LET c == Reset(m, keep) IN c \in VM(U) /\ Fits(c) /\ c.sql = None
<1>1. <<>> \in Seq(U) /\ Len(<<>>) + Len(<<>>) <= Cap
  BY EmptySeq, ViewsAssumption
<1>2. Reset(m, keep) = [present |-> keep, past |-> <<>>, future |-> <<>>, view |-> m.view,
                        sql |-> None, seq |-> m.seq]
  BY DEF Reset, With
<1>3. m.view \in Nat /\ m.seq \in Nat
  BY ShapeIs
<1>4. QED BY <1>1, <1>2, <1>3 DEF VM, Fits

LEMMA RebindIs ==
  ASSUME NEW T, NEW m \in VM(T), Fits(m)
  PROVE  LET c == Rebind(m) IN c \in VM(T) /\ Fits(c) /\ c.sql = None /\ c.present = m.present
<1>1. PICK p \in T, a, b \in Seq(T) : p = m.present /\ a = m.past /\ b = m.future /\ Len(a) + Len(b) <= Cap
  BY KeepsIs
<1>2. Rebind(m) = [present |-> p, past |-> a, future |-> b, view |-> 0, sql |-> None, seq |-> m.seq]
  <2>1. m = [present |-> p, past |-> a, future |-> b, view |-> m.view, sql |-> m.sql, seq |-> m.seq]
    BY <1>1, ShapeIs
  <2>2. Rebind(m) = [[m EXCEPT !.view = 0] EXCEPT !.sql = None]
    BY DEF Rebind
  <2>3. [m EXCEPT !.view = 0] = [present |-> p, past |-> a, future |-> b, view |-> 0, sql |-> m.sql, seq |-> m.seq]
    BY <2>1
  <2>4. QED BY <2>2, <2>3
<1>3. m.seq \in Nat
  BY ShapeIs
<1>4. QED BY <1>1, <1>2, <1>3 DEF VM, Fits

-----------------------------------------------------------------------------
(* The types. *)

Plain == {op \in Op : op.kind # "edit"}

ModelsOK ==
  /\ vm = [t \in Tables |-> vm[t]]
  /\ \A t \in Tables : vm[t] # None => vm[t] \in VM(Stack) /\ Tidy(vm[t]) /\ Compiles(vm[t])

TasksOK ==
  /\ task = [i \in Ids |-> task[i]]
  /\ \A i \in Ids : task[i] # None => task[i] \in Task /\ (task[i].at # "drop" => task[i].name \in Nat)
  /\ lane \in {0} \cup {i \in Ids : task[i] # None}

BoundOK ==
  /\ bound = [t \in Tables |-> bound[t]]
  /\ \A t \in Tables : bound[t] # None => bound[t] \in [name : Nat, rows : Nat]

RowsOK ==
  /\ rows \in [Tables -> Nat]
  /\ \A r \in refresh : r.keep \in Seq(Plain)
  /\ \A e \in editing : e \in [t : Tables, rows : Nat]

Typed == ModelsOK /\ TasksOK /\ BoundOK /\ RowsOK /\ moves \in 0 .. MaxMoves

LEMMA FreeNotEmpty == Move => Free # {}
<1>1. Cardinality({}) = 0
  BY FS_EmptySet
<1>2. QED BY <1>1 DEF Move

LEMMA PlainIs == Rename \in Plain /\ Upserts \subseteq Plain /\ Plain \subseteq Op
BY DEF Plain, Op, Rename, Upserts

\* The model a change starts from.
LEMMA ModelIs ==
  ASSUME ModelsOK, NEW t \in Tables
  PROVE  /\ Model(t) \in VM(Stack) /\ Tidy(Model(t)) /\ Compiles(Model(t))
         /\ vm[t] # None => Model(t) = vm[t]
         /\ vm[t] = None => Model(t) = New
<1>1. <<>> \in Stack
  BY DEF Stack
<1>2. CASE vm[t] = None
  BY <1>1, <1>2, NewIs DEF Model
<1>3. CASE vm[t] # None
  BY <1>3 DEF Model, ModelsOK
<1>4. QED BY <1>2, <1>3

\* A stack with fewer or more steps of a set is of steps of the set.
LEMMA StacksAre ==
  ASSUME NEW S, NEW stack \in Seq(S), NEW op \in S
  PROVE  /\ Append(stack, op) \in Seq(S)
         /\ \A k \in Nat : k < Len(stack) => SubSeq(stack, 1, k) \in Seq(S)
         /\ \A i \in DOMAIN stack : RemoveAt(stack, i) \in Seq(S)
<1>1. Append(stack, op) \in Seq(S)
  BY AppendProperties
<1>2. ASSUME NEW k \in Nat, k <= Len(stack)
      PROVE  SubSeq(stack, 1, k) \in Seq(S)
  <2>1. \A i \in 1 .. k : stack[i] \in S
    BY <1>2, ElementOfSeq, LenProperties
  <2>2. QED BY <2>1, SubSeqProperties
<1>3. ASSUME NEW i \in DOMAIN stack
      PROVE  RemoveAt(stack, i) \in Seq(S)
  <2>1. Len(stack) \in Nat /\ i \in 1 .. Len(stack)
    BY <1>3, LenProperties
  <2>2. SubSeq(stack, 1, i - 1) \in Seq(S)
    BY <1>2, <2>1
  <2>3. \A j \in i + 1 .. Len(stack) : stack[j] \in S
    BY <2>1, ElementOfSeq
  <2>4. SubSeq(stack, i + 1, Len(stack)) \in Seq(S)
    BY <2>1, <2>3, SubSeqProperties
  <2>5. QED BY <2>2, <2>4 DEF RemoveAt
<1>4. QED BY <1>1, <1>2, <1>3, LenProperties

SameView(m, n) == m.view = n.view /\ m.sql = n.sql

LEMMA SameViewIs ==
  ASSUME NEW m
  PROVE  /\ \A stack : SameView(Checkpoint(m, stack), m)
         /\ SameView(Undone(m), m) /\ SameView(Redone(m), m)
         /\ \A op : SameView(Upserted(m, op), m)
BY DEF SameView, Checkpoint, Undone, Redone, Upserted, With

\* A change the user makes keeps the steps it finds, and makes none an edit.
LEMMA MovesAre ==
  ASSUME ModelsOK, NEW t \in Tables,
         \/ Apply(t, Rename) \/ Undo(t) \/ Redo(t)
         \/ \E op \in Upserts : Upsert(t, op)
         \/ \E k \in 0 .. MaxMoves : JumpTo(t, k) \/ RemoveStep(t, k)
  PROVE  \E m : /\ Drive(t, m)
                /\ \A S \in SUBSET Op : Plain \subseteq S /\ Model(t) \in VM(Seq(S)) => m \in VM(Seq(S)) /\ Fits(m)
                /\ SameView(m, Model(t))
<1> DEFINE Good(m) == /\ \A S \in SUBSET Op :
                           Plain \subseteq S /\ Model(t) \in VM(Seq(S)) => m \in VM(Seq(S)) /\ Fits(m)
                      /\ SameView(m, Model(t))
<1>1. Fits(Model(t))
  BY ModelIs DEF Tidy
<1>2. ASSUME NEW S \in SUBSET Op, Model(t) \in VM(Seq(S))
      PROVE  Model(t).present \in Seq(S)
  BY <1>2, ShapeIs
<1>3. ASSUME Apply(t, Rename)
      PROVE  \E m : Drive(t, m) /\ Good(m)
  <2>1. Good(Checkpoint(Model(t), Append(Model(t).present, Rename)))
    BY <1>1, <1>2, PlainIs, StacksAre, CheckpointIs, SameViewIs
  <2> HIDE DEF Good
  <2>2. QED BY <1>3, <2>1 DEF Apply
<1>4. ASSUME Undo(t)
      PROVE  \E m : Drive(t, m) /\ Good(m)
  <2>1. Good(Undone(Model(t)))
    BY <1>1, <1>4, UndoneIs, SameViewIs DEF Undo
  <2> HIDE DEF Good
  <2>2. QED BY <1>4, <2>1 DEF Undo
<1>5. ASSUME Redo(t)
      PROVE  \E m : Drive(t, m) /\ Good(m)
  <2>1. Good(Redone(Model(t)))
    BY <1>1, <1>5, RedoneIs, SameViewIs DEF Redo
  <2> HIDE DEF Good
  <2>2. QED BY <1>5, <2>1 DEF Redo
<1>6. ASSUME NEW op \in Upserts, Upsert(t, op)
      PROVE  \E m : Drive(t, m) /\ Good(m)
  <2>1. Good(Upserted(Model(t), op))
    BY <1>1, PlainIs, UpsertedIs, SameViewIs
  <2> HIDE DEF Good
  <2>2. QED BY <1>6, <2>1 DEF Upsert
<1>7. ASSUME NEW k \in 0 .. MaxMoves, JumpTo(t, k)
      PROVE  \E m : Drive(t, m) /\ Good(m)
  <2>1. k \in Nat /\ k < Len(Model(t).present)
    BY <1>7 DEF JumpTo
  <2>2. Good(Checkpoint(Model(t), SubSeq(Model(t).present, 1, k)))
    <3>1. ASSUME NEW S \in SUBSET Op, Plain \subseteq S, Model(t) \in VM(Seq(S))
          PROVE  SubSeq(Model(t).present, 1, k) \in Seq(S)
      <4>1. Rename \in S /\ Model(t).present \in Seq(S)
        BY <1>2, <3>1, PlainIs
      <4>2. QED BY <2>1, <4>1, StacksAre
    <3>2. QED BY <1>1, <3>1, CheckpointIs, SameViewIs
  <2> HIDE DEF Good
  <2>3. QED BY <1>7, <2>2 DEF JumpTo
<1>8. ASSUME NEW k \in 0 .. MaxMoves, RemoveStep(t, k)
      PROVE  \E m : Drive(t, m) /\ Good(m)
  <2>1. k \in DOMAIN Model(t).present
    BY <1>8 DEF RemoveStep
  <2>2. Good(Checkpoint(Model(t), RemoveAt(Model(t).present, k)))
    <3>1. ASSUME NEW S \in SUBSET Op, Plain \subseteq S, Model(t) \in VM(Seq(S))
          PROVE  RemoveAt(Model(t).present, k) \in Seq(S)
      <4>1. Rename \in S /\ Model(t).present \in Seq(S)
        BY <1>2, <3>1, PlainIs
      <4>2. QED BY <2>1, <4>1, StacksAre
    <3>2. QED BY <1>1, <3>1, CheckpointIs, SameViewIs
  <2> HIDE DEF Good
  <2>3. QED BY <1>8, <2>2 DEF RemoveStep
<1> HIDE DEF Good
<1>9. \E m : Drive(t, m) /\ Good(m)
  BY <1>3, <1>4, <1>5, <1>6, <1>7, <1>8
<1>10. QED BY <1>9 DEF Good

-----------------------------------------------------------------------------
(* The steps keep the types. *)

Due(t, r) == [t |-> t, name |-> r.vm.view, sql |-> r.vm.sql, prev |-> r.prev, rows |-> 0,
              at |-> IF r.vm.view = 0 THEN "count" ELSE "create"]

LEMMA DueIs ==
  ASSUME NEW t \in Tables, NEW r, NEW T, r.vm \in VM(T), r.prev \in Nat
  PROVE  /\ Due(t, r) \in Task /\ Due(t, r) # None /\ Due(t, r).t = t /\ Due(t, r).name = r.vm.view
         /\ Due(t, r).sql = r.vm.sql /\ Due(t, r).prev = r.prev /\ Due(t, r).name \in Nat
         /\ Due(t, r).at = (IF r.vm.view = 0 THEN "count" ELSE "create")
<1>1. r.vm.view \in Nat /\ r.vm.sql \in Stack \cup {None}
  BY ShapeIs
<1>2. Due(t, r) \in Task
  BY <1>1 DEF Due, Task
<1>3. QED BY <1>1, <1>2, ViewsAssumption DEF Due

LEMMA BeginIs ==
  ASSUME NEW t \in Tables, NEW r, NEW hit, Free # {}, Begin(t, r, hit)
  PROVE  \E id \in Ids : /\ task[id] = None /\ lane' = id
                         /\ task' = [i \in Ids |-> IF i = id THEN Due(t, r) ELSE IF i = hit THEN None ELSE task[i]]
<1>1. (CHOOSE i \in Free : TRUE) \in Free
  OBVIOUS
<1>2. QED BY <1>1 DEF Begin, Due, Free

LEMMA BeginTyped ==
  ASSUME TasksOK, NEW t \in Tables, NEW r, NEW hit, Free # {}, Begin(t, r, hit),
         NEW T, r.vm \in VM(T), r.prev \in Nat
  PROVE  TasksOK'
<1>1. PICK id \in Ids :
        /\ task[id] = None /\ lane' = id
        /\ task' = [i \in Ids |-> IF i = id THEN Due(t, r) ELSE IF i = hit THEN None ELSE task[i]]
  BY BeginIs
<1>2. Due(t, r) \in Task /\ Due(t, r) # None /\ Due(t, r).name \in Nat
  BY DueIs
<1>3. \A i \in Ids : task'[i] = (IF i = id THEN Due(t, r) ELSE IF i = hit THEN None ELSE task[i])
  BY <1>1
<1>4. task' = [i \in Ids |-> task'[i]]
  BY <1>1
<1>5. QED BY <1>1, <1>2, <1>3, <1>4 DEF TasksOK, Ids

LEMMA StartTyped ==
  ASSUME TasksOK, NEW t \in Tables, NEW r, Free # {}, Start(t, r),
         NEW T, r.vm \in VM(T), r.prev \in Nat
  PROVE  TasksOK'
<1>1. CASE r.display
  BY <1>1 DEF Start, TasksOK, Ids
<1>2. CASE ~r.display
  BY <1>2, BeginTyped DEF Start
<1>3. QED BY <1>1, <1>2

\* What a change makes of a table's model.
LEMMA ChangedIs ==
  ASSUME ModelsOK, NEW t \in Tables, NEW T \in SUBSET Stack, NEW m \in VM(T), Fits(m),
         vm' = [vm EXCEPT ![t] = Regenerate(m).vm]
  PROVE  /\ ModelsOK'
         /\ Regenerate(m).vm \in VM(T) /\ Regenerate(m).prev \in Nat
         /\ vm'[t] = Regenerate(m).vm /\ \A u \in Tables : u # t => vm'[u] = vm[u]
<1> DEFINE r == Regenerate(m)
<1>1. T \in SUBSET Stack /\ m.view <= m.seq
  BY DEF Stack, Fits
<1>2. /\ r.vm \in VM(T) /\ r.vm.present = m.present /\ r.vm.past = m.past /\ r.vm.future = m.future
      /\ (r.vm.view = 0 <=> m.present = <<>>) /\ r.vm.view <= r.vm.seq /\ Compiles(r.vm) /\ r.prev \in Nat
  BY <1>1, RegenerateIs
<1> HIDE DEF r
<1>3. Tidy(r.vm)
  BY <1>2 DEF Tidy, Fits
<1>4. r.vm \in VM(Stack)
  <2>1. \A seq \in Seq(T) : seq \in Seq(Stack)
    OBVIOUS
  <2>2. r.vm \in [present : T, past : Seq(T), future : Seq(T), view : Nat, sql : Stack \cup {None}, seq : Nat]
    BY <1>2 DEF VM
  <2> HIDE DEF Stack
  <2>3. r.vm \in [present : Stack, past : Seq(Stack), future : Seq(Stack), view : Nat,
                  sql : Stack \cup {None}, seq : Nat]
    BY <2>1, <2>2
  <2>4. QED BY <2>3 DEF VM
<1>5. vm' = [vm EXCEPT ![t] = r.vm] /\ vm = [u \in Tables |-> vm[u]]
  BY DEF r, ModelsOK
<1>6. vm'[t] = r.vm /\ \A u \in Tables : u # t => vm'[u] = vm[u]
  BY <1>5
<1>7. ModelsOK'
  BY <1>2, <1>3, <1>4, <1>5, <1>6 DEF ModelsOK
<1>8. QED BY <1>2, <1>6, <1>7 DEF r

LEMMA ChangeTyped ==
  ASSUME ModelsOK, TasksOK, NEW t \in Tables, Free # {}, NEW m \in VM(Stack), Fits(m), ChangeOn(t, m)
  PROVE  ModelsOK' /\ TasksOK'
<1>1. vm' = [vm EXCEPT ![t] = Regenerate(m).vm] /\ Start(t, Regenerate(m))
  BY DEF ChangeOn
<1>2. /\ ModelsOK' /\ Regenerate(m).vm \in VM(Stack) /\ Regenerate(m).prev \in Nat
  BY <1>1, ChangedIs
<1>3. QED BY <1>1, <1>2, StartTyped

\* Where the user's moves are counted.
LEMMA MoveTyped == Move /\ moves \in 0 .. MaxMoves => moves' \in 0 .. MaxMoves
BY ViewsAssumption DEF Move

LEMMA DriveTyped ==
  ASSUME Typed, NEW t \in Tables, NEW m \in VM(Stack), Fits(m), Drive(t, m)
  PROVE  Typed'
<1>1. Move /\ ChangeOn(t, m) /\ UNCHANGED <<bound, rows, refresh, editing>>
  BY DEF Drive
<1>2. ModelsOK' /\ TasksOK'
  BY <1>1, ChangeTyped, FreeNotEmpty DEF Typed
<1>3. QED BY <1>1, <1>2, MoveTyped DEF Typed, BoundOK, RowsOK

LEMMA MovesTyped ==
  ASSUME Typed, NEW t \in Tables,
         \/ Apply(t, Rename) \/ Undo(t) \/ Redo(t)
         \/ \E op \in Upserts : Upsert(t, op)
         \/ \E k \in 0 .. MaxMoves : JumpTo(t, k) \/ RemoveStep(t, k)
  PROVE  Typed'
<1>1. ModelsOK
  BY DEF Typed
<1>2. PICK m : Drive(t, m) /\ \A S \in SUBSET Op :
                 Plain \subseteq S /\ Model(t) \in VM(Seq(S)) => m \in VM(Seq(S)) /\ Fits(m)
  BY <1>1, MovesAre
<1>3. m \in VM(Stack) /\ Fits(m)
  BY <1>1, <1>2, PlainIs, ModelIs DEF Stack
<1>4. QED BY <1>2, <1>3, DriveTyped

\* An edit, on whatever model there is.
LEMMA EditIs ==
  ASSUME ModelsOK, NEW t \in Tables, NEW n \in Nat, NEW S \in SUBSET Op, Edit(n) \in S,
         Model(t) \in VM(Seq(S))
  PROVE  LET m == Model(t)
             c == Checkpoint(m, Append(m.present, Edit(n)))
         IN  c \in VM(Seq(S)) /\ Fits(c)
<1>1. Fits(Model(t)) /\ Model(t).present \in Seq(S)
  BY ModelIs, ShapeIs DEF Tidy
<1>2. Append(Model(t).present, Edit(n)) \in Seq(S)
  BY <1>1, StacksAre
<1>3. QED BY <1>1, <1>2, CheckpointIs

LEMMA EditEndTyped ==
  ASSUME Typed, NEW e \in editing, EditEnd(e)
  PROVE  Typed'
<1>1. /\ Free # {} /\ UNCHANGED <<bound, rows, refresh, moves>> /\ editing' \subseteq editing
      /\ e.t \in Tables /\ e.rows \in Nat /\ rows[e.t] \in Nat
  BY DEF EditEnd, Typed, RowsOK
<1>2. CASE UNCHANGED <<vm, task, lane>>
  BY <1>1, <1>2 DEF Typed, ModelsOK, TasksOK, BoundOK, RowsOK, Ids
<1>3. ASSUME NEW n \in Nat, NEW hit,
             LET m == Model(e.t)
                 g == Regenerate(Checkpoint(m, Append(m.present, Edit(n))))
             IN  vm' = [vm EXCEPT ![e.t] = g.vm] /\ Begin(e.t, g, hit)
      PROVE  Typed'
  <2> DEFINE c == Checkpoint(Model(e.t), Append(Model(e.t).present, Edit(n)))
  <2>1. Edit(n) \in Op
    BY DEF Edit, Op
  <2>2. c \in VM(Stack) /\ Fits(c)
    BY <1>1, <2>1, ModelIs, EditIs DEF Typed, Stack
  <2> HIDE DEF c
  <2>3. vm' = [vm EXCEPT ![e.t] = Regenerate(c).vm] /\ Begin(e.t, Regenerate(c), hit)
    BY <1>3 DEF c
  <2>4. ModelsOK' /\ Regenerate(c).vm \in VM(Stack) /\ Regenerate(c).prev \in Nat
    BY <1>1, <2>2, <2>3, ChangedIs DEF Typed
  <2>5. TasksOK'
    BY <1>1, <2>3, <2>4, BeginTyped DEF Typed
  <2>6. QED BY <1>1, <2>4, <2>5 DEF Typed, BoundOK, RowsOK
<1>4. QED BY <1>1, <1>2, <1>3 DEF EditEnd

\* A task at its next statement.
Later(i, at, n) == [t |-> task[i].t, name |-> task[i].name, sql |-> task[i].sql, prev |-> task[i].prev,
                    rows |-> n, at |-> at]

LEMMA LaterIs ==
  ASSUME TasksOK, NEW i \in Ids, task[i] # None, NEW n \in Nat, NEW at \in {"create", "count", "drop"}
  PROVE  /\ [task EXCEPT ![i].at = at] = [task EXCEPT ![i] = Later(i, at, task[i].rows)]
         /\ [task EXCEPT ![i].at = at, ![i].rows = n] = [task EXCEPT ![i] = Later(i, at, n)]
         /\ Later(i, at, n) \in Task /\ Later(i, at, n) # None
<1> DEFINE x == task[i]
           y == [x EXCEPT !.at = at]
<1>1. x \in Task
  BY DEF TasksOK
<1>2. x = [t |-> x.t, name |-> x.name, sql |-> x.sql, prev |-> x.prev, rows |-> x.rows, at |-> x.at]
  BY <1>1 DEF Task
<1>3. y = Later(i, at, x.rows)
  BY <1>2 DEF Later
<1>4. [y EXCEPT !.rows = n] = Later(i, at, n)
  <2>1. y = [t |-> x.t, name |-> x.name, sql |-> x.sql, prev |-> x.prev, rows |-> x.rows, at |-> at]
    BY <1>3 DEF Later
  <2>2. Later(i, at, n) = [t |-> x.t, name |-> x.name, sql |-> x.sql, prev |-> x.prev, rows |-> n, at |-> at]
    BY DEF Later
  <2> HIDE DEF x, y
  <2>3. QED BY <2>1, <2>2
<1>5. [task EXCEPT ![i].at = at] = [task EXCEPT ![i] = y]
  OBVIOUS
<1>6. [task EXCEPT ![i].at = at, ![i].rows = n] = [task EXCEPT ![i] = [y EXCEPT !.rows = n]]
  BY DEF TasksOK
<1>7. Later(i, at, n) \in Task
  BY <1>1 DEF Later, Task
<1> HIDE DEF x, y
<1>8. [task EXCEPT ![i].at = at] = [task EXCEPT ![i] = Later(i, at, task[i].rows)]
  BY <1>3, <1>5 DEF x
<1>9. [task EXCEPT ![i].at = at, ![i].rows = n] = [task EXCEPT ![i] = Later(i, at, n)]
  BY <1>4, <1>6
<1>10. QED BY <1>7, <1>8, <1>9, ViewsAssumption

\* A statement of a task: it fails, or the task goes on to its next, or it ends.
LEMMA StepIs ==
  ASSUME Typed, NEW i \in Ids, Step(i)
  PROVE  /\ task[i] \in Task /\ task[i] # None /\ task[i].t \in Tables
         /\ task[i].name \in Nat \cup {None} /\ task[i].prev \in Nat /\ task[i].rows \in Nat
         /\ task[i].at # "drop" => task[i].name \in Nat
         /\ \/ Fail(i)
            \/ /\ task[i].at = "create" /\ UNCHANGED <<bound, lane, mishaps>>
               /\ task' = [task EXCEPT ![i] = Later(i, "count", task[i].rows)]
               /\ views' = {v \in views : ~Named(v, View(i))}
                             \cup {[table |-> task[i].t, name |-> task[i].name, sql |-> task[i].sql]}
            \/ /\ task[i].at = "count" /\ UNCHANGED <<views, mishaps>>
               /\ Ended(i) /\ Bind(i, rows[task[i].t])
            \/ /\ task[i].at = "count" /\ UNCHANGED <<lane, bound, views, mishaps>>
               /\ task' = [task EXCEPT ![i] = Later(i, "drop", rows[task[i].t])]
            \/ DropView(i)
<1>1. task[i] \in Task /\ task[i] # None /\ (task[i].at # "drop" => task[i].name \in Nat)
  BY DEF Step, Typed, TasksOK
<1>2. /\ task[i].t \in Tables /\ task[i].name \in Nat \cup {None} /\ task[i].prev \in Nat
      /\ task[i].rows \in Nat
  BY <1>1 DEF Task
<1>3. rows[task[i].t] \in Nat
  BY <1>2 DEF Typed, RowsOK
<1>4. [task EXCEPT ![i].at = "count"] = [task EXCEPT ![i] = Later(i, "count", task[i].rows)]
  BY <1>1, <1>2, LaterIs DEF Typed
<1>5. [task EXCEPT ![i].at = "drop", ![i].rows = rows[task[i].t]] = [task EXCEPT ![i] = Later(i, "drop", rows[task[i].t])]
  BY <1>1, <1>3, LaterIs DEF Typed
<1>6. CASE Create(i)
  BY <1>1, <1>2, <1>4, <1>6 DEF Create, At
<1>7. CASE Count(i)
  BY <1>1, <1>2, <1>5, <1>7 DEF Count
<1>8. QED BY <1>1, <1>2, <1>6, <1>7 DEF Step

LEMMA StepTyped ==
  ASSUME Typed, NEW i \in Ids, Step(i)
  PROVE  Typed'
<1>1. UNCHANGED <<vm, rows, refresh, editing, moves>>
  BY DEF Step
<1>2. /\ task[i] \in Task /\ task[i] # None /\ (task[i].at # "drop" => task[i].name \in Nat)
      /\ task[i].rows \in Nat /\ rows[task[i].t] \in Nat
  BY StepIs DEF Typed, RowsOK
<1>3. ASSUME Ended(i) PROVE TasksOK'
  BY <1>3 DEF Ended, Typed, TasksOK, Ids
<1>4. ASSUME NEW n \in Nat, NEW at \in {"count", "drop"}, task[i].at # "drop",
             task' = [task EXCEPT ![i] = Later(i, at, n)], lane' = lane
      PROVE  TasksOK'
  <2>1. Later(i, at, n) \in Task /\ Later(i, at, n) # None
    BY <1>2, LaterIs DEF Typed
  <2>2. Later(i, at, n).name \in Nat
    BY <1>2, <1>4 DEF Later
  <2>3. \A j \in Ids : task'[j] = IF j = i THEN Later(i, at, n) ELSE task[j]
    BY <1>4 DEF Typed, TasksOK
  <2>4. task' = [j \in Ids |-> task'[j]]
    BY <1>4 DEF Typed, TasksOK
  <2>5. QED BY <1>4, <2>1, <2>2, <2>3, <2>4 DEF Typed, TasksOK, Ids
<1>5. ASSUME NEW n \in Nat, task[i].name \in Nat, Bind(i, n) PROVE BoundOK'
  BY <1>5 DEF Typed, BoundOK, Bind
<1>6. BoundOK /\ (bound' = bound => BoundOK')
  BY DEF Typed, BoundOK
<1>7. TasksOK'
  BY <1>2, <1>3, <1>4, StepIs DEF Fail, DropView
<1>8. BoundOK'
  BY <1>2, <1>5, <1>6, StepIs DEF Fail, DropView
<1>9. QED BY <1>1, <1>7, <1>8 DEF Typed, ModelsOK, RowsOK

LEMMA EditBeginTyped ==
  ASSUME Typed, NEW t \in Tables, EditBegin(t)
  PROVE  Typed'
<1>1. Move /\ UNCHANGED <<vm, bound, task, lane, rows, refresh>>
  BY DEF EditBegin
<1>2. \A e \in editing' : e \in [t : Tables, rows : Nat]
  <2>1. rows[t] \in Nat /\ (bound[t] # None => bound[t].rows \in Nat)
    BY DEF Typed, RowsOK, BoundOK
  <2>2. QED BY <2>1 DEF EditBegin, Typed, RowsOK
<1>3. QED BY <1>1, <1>2, MoveTyped DEF Typed, ModelsOK, TasksOK, BoundOK, RowsOK, Ids

\* The last tab closed.
LEMMA ForgetTyped ==
  ASSUME Typed, NEW t \in Tables, Forget(t)
  PROVE  Typed'
<1>1. /\ Move /\ UNCHANGED <<lane, rows, refresh, editing>>
      /\ vm' = [vm EXCEPT ![t] = None] /\ bound' = [bound EXCEPT ![t] = None]
  BY DEF Forget
<1>2. ModelsOK' /\ BoundOK' /\ RowsOK'
  BY <1>1 DEF Typed, ModelsOK, BoundOK, RowsOK
<1>3. TasksOK'
  <2>1. CASE task' = task
    BY <1>1, <2>1 DEF Typed, TasksOK, Ids
  <2>2. CASE task' # task
    <3> DEFINE x == [t |-> t, name |-> None, sql |-> None, prev |-> vm[t].view, rows |-> 0, at |-> "drop"]
               id == CHOOSE i \in Free : TRUE
    <3>1. id \in Free
      BY <1>1, FreeNotEmpty
    <3>2. vm[t].view \in Nat
      BY ShapeIs DEF Typed, ModelsOK, Forget
    <3>3. x \in Task /\ x.at = "drop"
      BY <3>2 DEF Task
    <3>4. task' = [task EXCEPT ![id] = x]
      BY <2>2 DEF Forget
    <3> HIDE DEF x, id
    <3>5. x # None
      BY <3>3, ViewsAssumption
    <3>6. QED BY <1>1, <3>1, <3>3, <3>4, <3>5 DEF Typed, TasksOK, Free, Ids
  <2>3. QED BY <2>1, <2>2
<1>4. QED BY <1>1, <1>2, <1>3, MoveTyped DEF Typed

LEMMA RefreshTyped ==
  ASSUME Typed, NEW t \in Tables, Refresh(t)
  PROVE  Typed'
<1>1. Move /\ UNCHANGED <<vm, bound, task, lane, rows, editing>>
  BY DEF Refresh
<1>2. Model(t).present \in Stack
  BY ModelIs, ShapeIs DEF Typed
<1>3. Replayable(Model(t).present) \in Seq(Plain)
  BY <1>2, ReplayableIs DEF Plain
<1>4. \A r \in refresh' : r.keep \in Seq(Plain)
  BY <1>3 DEF Refresh, Typed, RowsOK
<1>5. QED BY <1>1, <1>4, MoveTyped DEF Typed, ModelsOK, TasksOK, BoundOK, RowsOK, Ids

LEMMA ReimportTyped ==
  ASSUME Typed, Formed, NEW r \in refresh, Reimport(r)
  PROVE  Typed'
<1>1. UNCHANGED <<vm, bound, task, lane, editing, moves>>
  BY DEF Reimport
<1>2. rows' \in [Tables -> Nat]
  BY DEF Reimport, Reread, Typed, RowsOK
<1>3. \A q \in refresh' : q.keep \in Seq(Plain)
  <2>1. r = [t |-> r.t, keep |-> r.keep, read |-> r.read, at |-> r.at]
    BY DEF Formed
  <2>2. [r EXCEPT !.at = "shaping"] = [t |-> r.t, keep |-> r.keep, read |-> r.read, at |-> "shaping"]
    BY <2>1
  <2>3. [r EXCEPT !.at = "shaping"].keep = r.keep
    BY <2>2
  <2>4. QED BY <2>3 DEF Reimport, Typed, RowsOK
<1>4. QED BY <1>1, <1>2, <1>3 DEF Typed, ModelsOK, TasksOK, BoundOK, RowsOK, Ids

LEMMA DropAgainTyped ==
  ASSUME Typed, NEW t \in Tables, DropAgain(t)
  PROVE  Typed'
<1>1. Move /\ UNCHANGED <<vm, bound, task, lane, refresh, editing>> /\ rows' = [rows EXCEPT ![t] = @ + 1]
  BY DEF DropAgain, Reread
<1>2. QED BY <1>1, MoveTyped DEF Typed, ModelsOK, TasksOK, BoundOK, RowsOK, Ids

\* All of a replayable stack, or none.
LEMMA ReplayableOnIs ==
  ASSUME NEW keep \in Seq(Plain), NEW k \in ReplayableOn(keep)
  PROVE  k \in Seq(Plain) /\ k \in Stack
<1>1. k \in Seq(Plain)
  BY EmptySeq DEF ReplayableOn
<1>2. QED BY <1>1, PlainIs DEF Stack

LEMMA ReplayTyped ==
  ASSUME Typed, Formed, NEW r \in refresh, Replay(r)
  PROVE  Typed'
<1>1. /\ Free # {} /\ UNCHANGED <<bound, rows, editing, moves>> /\ refresh' \subseteq refresh /\ r.t \in Tables
  BY DEF Replay, Formed
<1>2. ModelsOK' /\ TasksOK'
  <2>1. CASE ready
    <3> PICK keep \in ReplayableOn(r.keep) : ChangeOn(r.t, Reset(Model(r.t), keep))
      BY <2>1 DEF Replay
    <3> DEFINE m == Reset(Model(r.t), keep)
    <3>1. keep \in Stack
      BY ReplayableOnIs DEF Typed, RowsOK
    <3>2. m \in VM(Stack) /\ Fits(m)
      BY <1>1, <3>1, ModelIs, ResetIs DEF Typed, Tidy
    <3>3. ChangeOn(r.t, m)
      OBVIOUS
    <3> HIDE DEF m
    <3>4. QED BY <1>1, <3>2, <3>3, ChangeTyped DEF Typed
  <2>2. CASE ~ready
    BY <2>2 DEF Replay, Typed, ModelsOK, TasksOK, Ids
  <2>3. QED BY <2>1, <2>2
<1>3. QED BY <1>1, <1>2 DEF Typed, BoundOK, RowsOK

-----------------------------------------------------------------------------
(* A session back after a save: every model's change is started at once. *)

Changed == {t \in Tables : vm[t] # None}
Again(t) == Regenerate(Rebind(vm[t]))
DueAgain(t) == [t |-> t, name |-> Again(t).vm.view, sql |-> Again(t).vm.sql, prev |-> 0, rows |-> 0,
                at |-> IF Again(t).vm.view = 0 THEN "count" ELSE "create"]

\* There are as many different members in a set with no fewer.
LEMMA OneToOne ==
  ASSUME NEW S, IsFiniteSet(S), NEW T, IsFiniteSet(T), Cardinality(S) <= Cardinality(T)
  PROVE  \E f \in [S -> T] : IsInjective(f)
<1>1. /\ Cardinality(S) \in Nat /\ Cardinality(T) \in Nat
      /\ ExistsBijection(1 .. Cardinality(S), S) /\ ExistsBijection(1 .. Cardinality(T), T)
  BY FS_CardinalityType
<1>2. PICK g : g \in Bijection(S, 1 .. Cardinality(S))
  BY <1>1, Fun_ExistsBijSymmetric DEF ExistsBijection
<1>3. PICK h : h \in Bijection(1 .. Cardinality(T), T)
  BY <1>1 DEF ExistsBijection
<1>4. /\ g \in [S -> 1 .. Cardinality(S)] /\ \A a, b \in S : g[a] = g[b] => a = b
      /\ h \in [1 .. Cardinality(T) -> T] /\ \A a, b \in 1 .. Cardinality(T) : h[a] = h[b] => a = b
  BY <1>2, <1>3 DEF Bijection, Injection, IsInjective
<1> DEFINE f == [x \in S |-> h[g[x]]]
<1>5. \A x \in S : g[x] \in 1 .. Cardinality(T)
  BY <1>1, <1>4
<1>6. f \in [S -> T] /\ \A a, b \in S : f[a] = f[b] => a = b
  BY <1>4, <1>5
<1>7. QED BY <1>6 DEF IsInjective

LEMMA FreeIsFinite == IsFiniteSet(Free) /\ IsFiniteSet(Changed)
<1>1. IsFiniteSet(Ids)
  BY FS_Interval, ViewsAssumption DEF Ids
<1>2. QED BY <1>1, FS_Subset, ViewsAssumption DEF Free, Changed

LEMMA RebindAllIs ==
  ASSUME RebindAll
  PROVE  /\ vm' = [t \in Tables |-> IF vm[t] # None THEN Again(t).vm ELSE None]
         /\ mishaps' = [t \in Tables |-> IF Of(t) = {} THEN mishaps[t] ELSE mishaps[t] \cup {"unstopped"}]
         /\ Changed = {} => UNCHANGED <<task, lane>>
         /\ Changed # {} => \E id \in [Changed -> Free], hit \in Hits(lane), last \in Changed :
              /\ \A t, u \in Changed : id[t] = id[u] => t = u
              /\ task' = [i \in Ids |-> task'[i]] /\ lane' = id[last]
              /\ \A t \in Changed : task'[id[t]] = DueAgain(t)
              /\ \A i \in Ids : (\A t \in Changed : id[t] # i) => task'[i] = IF i = hit THEN None ELSE task[i]
<1> DEFINE r == [t \in Changed |-> Regenerate(Rebind(vm[t]))]
           id == CHOOSE f \in [Changed -> Free] : IsInjective(f)
           D(t) == [t |-> t, name |-> r[t].vm.view, sql |-> r[t].vm.sql, prev |-> 0, rows |-> 0,
                    at |-> IF r[t].vm.view = 0 THEN "count" ELSE "create"]
<1>1. \A t \in Changed : r[t] = Again(t) /\ D(t) = DueAgain(t)
  BY DEF Again, DueAgain
<1>2. vm' = [t \in Tables |-> IF t \in Changed THEN r[t].vm ELSE None]
  BY DEF RebindAll, Changed
<1>3. vm' = [t \in Tables |-> IF vm[t] # None THEN Again(t).vm ELSE None]
  <2> HIDE DEF r
  <2>1. QED BY <1>1, <1>2 DEF Changed
<1>4. mishaps' = [t \in Tables |-> IF Of(t) = {} THEN mishaps[t] ELSE mishaps[t] \cup {"unstopped"}]
  BY DEF RebindAll
<1>5. Changed = {} => UNCHANGED <<task, lane>>
  BY DEF RebindAll, Changed
<1>6. ASSUME Changed # {}
      PROVE  \E hit \in Hits(lane), last \in Changed :
               /\ task' = [i \in Ids |-> IF \E t \in Changed : id[t] = i THEN D(CHOOSE t \in Changed : id[t] = i)
                                         ELSE IF i = hit THEN None ELSE task[i]]
               /\ lane' = id[last]
  BY <1>6 DEF RebindAll, Changed
<1>7. id \in [Changed -> Free] /\ IsInjective(id)
  <2>1. Cardinality(Changed) <= Cardinality(Free)
    BY DEF RebindAll, Changed
  <2>2. \E f \in [Changed -> Free] : IsInjective(f)
    BY <2>1, FreeIsFinite, OneToOne
  <2>3. QED BY <2>2
<1> HIDE DEF r, id, D
<1>8. \A t, u \in Changed : id[t] = id[u] => t = u
  BY <1>7 DEF IsInjective
<1>9. ASSUME Changed # {}
      PROVE  \E hit \in Hits(lane), last \in Changed :
              /\ task' = [i \in Ids |-> task'[i]] /\ lane' = id[last]
              /\ \A t \in Changed : task'[id[t]] = DueAgain(t)
              /\ \A i \in Ids : (\A t \in Changed : id[t] # i) => task'[i] = IF i = hit THEN None ELSE task[i]
  <2>1. PICK hit \in Hits(lane), last \in Changed :
               /\ task' = [i \in Ids |-> IF \E t \in Changed : id[t] = i THEN D(CHOOSE t \in Changed : id[t] = i)
                                         ELSE IF i = hit THEN None ELSE task[i]]
               /\ lane' = id[last]
    BY <1>6, <1>9
  <2>2. task' = [i \in Ids |-> task'[i]]
    BY <2>1
  <2>3. ASSUME NEW t \in Changed
        PROVE  task'[id[t]] = DueAgain(t)
    <3>1. id[t] \in Ids
      BY <1>7 DEF Free
    <3>2. (CHOOSE u \in Changed : id[u] = id[t]) = t
      BY <1>8
    <3>3. task'[id[t]] = D(t)
      BY <2>1, <3>1, <3>2
    <3>4. QED BY <1>1, <3>3
  <2>4. \A i \in Ids : (\A t \in Changed : id[t] # i) => task'[i] = IF i = hit THEN None ELSE task[i]
    BY <2>1
  <2>5. QED BY <2>1, <2>2, <2>3, <2>4
<1>10. QED BY <1>3, <1>4, <1>5, <1>7, <1>8, <1>9

\* What a model is rebound to.
LEMMA AgainIs ==
  ASSUME ModelsOK, NEW t \in Changed, NEW T \in SUBSET Stack, vm[t] \in VM(T)
  PROVE  /\ Again(t).vm \in VM(T) /\ Tidy(Again(t).vm) /\ Compiles(Again(t).vm)
         /\ DueAgain(t) \in Task /\ DueAgain(t) # None /\ DueAgain(t).name \in Nat
<1> DEFINE m == Rebind(vm[t])
<1>1. m \in VM(T) /\ Fits(m)
  BY RebindIs DEF ModelsOK, Changed, Tidy
<1> HIDE DEF m
<1>2. T \in SUBSET Stack /\ m.view <= m.seq
  BY <1>1 DEF Stack, Fits
<1>3. /\ Regenerate(m).vm \in VM(T) /\ Regenerate(m).vm.present = m.present
      /\ Regenerate(m).vm.past = m.past /\ Regenerate(m).vm.future = m.future
      /\ (Regenerate(m).vm.view = 0 <=> m.present = <<>>) /\ Regenerate(m).vm.view <= Regenerate(m).vm.seq
      /\ Compiles(Regenerate(m).vm)
  BY <1>1, <1>2, RegenerateIs
<1>4. Tidy(Regenerate(m).vm)
  BY <1>1, <1>3 DEF Tidy, Fits
<1>5. Again(t) = Regenerate(m)
  BY DEF Again, m
<1>6. Again(t).vm \in VM(T) /\ Tidy(Again(t).vm) /\ Compiles(Again(t).vm)
  BY <1>3, <1>4, <1>5
<1>7. Again(t).vm.view \in Nat /\ Again(t).vm.sql \in Stack \cup {None}
  BY <1>6, ShapeIs
<1>8. DueAgain(t) \in Task /\ DueAgain(t).name \in Nat
  BY <1>7 DEF DueAgain, Task, Changed
<1>9. QED BY <1>6, <1>8, ViewsAssumption

LEMMA SaveBeginTyped ==
  ASSUME Typed, SaveBegin
  PROVE  Typed'
<1>1. Move /\ UNCHANGED <<vm, task, lane, rows, refresh, editing>> /\ bound' = [t \in Tables |-> None]
  BY DEF SaveBegin
<1>2. QED BY <1>1, MoveTyped DEF Typed, ModelsOK, TasksOK, BoundOK, RowsOK, Ids

LEMMA SaveEndTyped ==
  ASSUME Typed, SaveEnd
  PROVE  Typed'
<1>1. RebindAll /\ UNCHANGED <<bound, rows, refresh, editing, moves>>
  BY DEF SaveEnd
<1>2. ModelsOK'
  <2>1. vm' = [t \in Tables |-> IF vm[t] # None THEN Again(t).vm ELSE None]
    BY <1>1, RebindAllIs
  <2>2. ASSUME NEW t \in Tables, vm[t] # None
        PROVE  Again(t).vm \in VM(Stack) /\ Tidy(Again(t).vm) /\ Compiles(Again(t).vm)
    BY <2>2, AgainIs DEF Typed, ModelsOK, Changed
  <2>3. QED BY <2>1, <2>2 DEF ModelsOK
<1>3. TasksOK'
  <2>1. CASE Changed = {}
    BY <1>1, <2>1, RebindAllIs DEF Typed, TasksOK, Ids
  <2>2. CASE Changed # {}
    <3>1. PICK id \in [Changed -> Free], hit \in Hits(lane), last \in Changed :
            /\ task' = [i \in Ids |-> task'[i]] /\ lane' = id[last]
            /\ \A t \in Changed : task'[id[t]] = DueAgain(t)
            /\ \A i \in Ids : (\A t \in Changed : id[t] # i) => task'[i] = IF i = hit THEN None ELSE task[i]
      BY <1>1, <2>2, RebindAllIs
    <3>2. \A t \in Changed : DueAgain(t) \in Task /\ DueAgain(t) # None /\ DueAgain(t).name \in Nat
      BY AgainIs DEF Typed, ModelsOK, Changed
    <3>3. \A t \in Changed : id[t] \in Ids
      BY DEF Free
    <3>4. \A i \in Ids : task'[i] # None => task'[i] \in Task /\ (task'[i].at # "drop" => task'[i].name \in Nat)
      BY <3>1, <3>2 DEF Typed, TasksOK
    <3>5. QED BY <3>1, <3>2, <3>3, <3>4 DEF TasksOK, Ids
  <2>3. QED BY <2>1, <2>2
<1>4. QED BY <1>1, <1>2, <1>3 DEF Typed, BoundOK, RowsOK

LEMMA TypedInductive == Spec => []Typed
<1>1. Init => Typed
  BY ViewsAssumption DEF Init, Typed, ModelsOK, TasksOK, BoundOK, RowsOK
<1>2. Typed /\ IInv /\ [Next]_vars => Typed'
  <2>1. SUFFICES ASSUME Typed, IInv, [Next]_vars PROVE Typed'
    OBVIOUS
  <2>2. ASSUME NEW t \in Tables,
               \/ Apply(t, Rename) \/ Undo(t) \/ Redo(t)
               \/ \E op \in Upserts : Upsert(t, op)
               \/ \E k \in 0 .. MaxMoves : JumpTo(t, k) \/ RemoveStep(t, k)
        PROVE  Typed'
    BY <2>1, <2>2, MovesTyped
  <2>3. ASSUME NEW t \in Tables, EditBegin(t) \/ Forget(t) \/ Refresh(t) \/ DropAgain(t) PROVE Typed'
    BY <2>1, <2>3, EditBeginTyped, ForgetTyped, RefreshTyped, DropAgainTyped
  <2>4. ASSUME NEW i \in Ids, Step(i) PROVE Typed'
    BY <2>1, <2>4, StepTyped
  <2>5. ASSUME NEW e \in editing, EditEnd(e) PROVE Typed'
    BY <2>1, <2>5, EditEndTyped
  <2>6. ASSUME NEW r \in refresh, Reimport(r) \/ Replay(r) PROVE Typed'
    BY <2>1, <2>6, ReimportTyped, ReplayTyped DEF IInv
  <2>7. CASE SaveBegin \/ SaveEnd
    BY <2>1, <2>7, SaveBeginTyped, SaveEndTyped
  <2>8. CASE UNCHANGED vars
    BY <2>1, <2>8 DEF vars, Typed, ModelsOK, TasksOK, BoundOK, RowsOK, Ids
  <2>9. QED
    BY <2>1, <2>2, <2>3, <2>4, <2>5, <2>6, <2>7, <2>8 DEF Next
<1>3. QED
  BY <1>1, <1>2, Inductive, PTL DEF Spec

\* Every variable keeps its type: no table's history passes the cap, whatever
\* is changed, undone, redone and read again, a view is named when and only when
\* there are steps for it to show, and the lane is held by a change under way.
THEOREM ViewsTypeCorrect == Spec => []TypeOK
<1>1. Typed => TypeOK
  <2>1. SUFFICES ASSUME Typed PROVE TypeOK
    OBVIOUS
  <2>2. vm \in [Tables -> ViewModel \cup {None}]
    BY <2>1, ViewModelIs DEF Typed, ModelsOK
  <2>3. bound \in [Tables -> [name : Nat, rows : Nat] \cup {None}]
    BY <2>1 DEF Typed, BoundOK
  <2>4. task \in [Ids -> Task \cup {None}] /\ lane \in {0} \cup {i \in Ids : task[i] # None}
    BY <2>1 DEF Typed, TasksOK
  <2>5. \A t \in Tables : vm[t] # None => /\ Len(vm[t].past) + Len(vm[t].future) <= Cap
                                          /\ (vm[t].view = 0 <=> vm[t].present = <<>>)
    BY <2>1 DEF Typed, ModelsOK, Tidy, Fits
  <2>6. QED BY <2>1, <2>2, <2>3, <2>4, <2>5 DEF Typed, RowsOK, TypeOK
<1>2. QED BY <1>1, TypedInductive, PTL

-----------------------------------------------------------------------------
(* The rows edits are made in. *)

OpsAt(n) == {op \in Op : op.kind = "edit" => op.val = n}
Steady(t) == \A r \in refresh : r.t = t => r.at = "reading"
Sound(t) == mishaps[t] \cap {"unreplayed", "late"} = {} /\ Steady(t)

\* Every edit a model has, or had and can have again, is of the rows its table
\* has: unless those are new and what was under way has not been replayed over
\* them, or never will be.
Placed == \A t \in Tables : vm[t] # None /\ Sound(t) => vm[t] \in VM(Seq(OpsAt(rows[t])))

LEMMA OpsAtIs ==
  ASSUME NEW n \in Nat
  PROVE  /\ OpsAt(n) \in SUBSET Op /\ Plain \subseteq OpsAt(n) /\ Seq(Plain) \subseteq Seq(OpsAt(n))
         /\ Seq(OpsAt(n)) \in SUBSET Stack /\ <<>> \in Seq(OpsAt(n)) /\ Edit(n) \in OpsAt(n)
<1>1. OpsAt(n) \in SUBSET Op /\ Plain \subseteq OpsAt(n)
  BY DEF OpsAt, Plain
<1>2. Seq(Plain) \subseteq Seq(OpsAt(n)) /\ Seq(OpsAt(n)) \in SUBSET Stack /\ <<>> \in Seq(OpsAt(n))
  BY <1>1 DEF Stack
<1>3. Edit(n) \in OpsAt(n)
  BY DEF Edit, OpsAt, Op
<1>4. QED BY <1>1, <1>2, <1>3

LEMMA ModelPlaced ==
  ASSUME Typed, Placed, NEW t \in Tables, Sound(t)
  PROVE  Model(t) \in VM(Seq(OpsAt(rows[t])))
<1>1. rows[t] \in Nat
  BY DEF Typed, RowsOK
<1>2. CASE vm[t] = None
  BY <1>1, <1>2, OpsAtIs, NewIs, ModelIs DEF Typed
<1>3. CASE vm[t] # None
  BY <1>3, ModelIs DEF Placed, Typed
<1>4. QED BY <1>2, <1>3

\* A change keeps a model where it was.
LEMMA ChangePlaced ==
  ASSUME Typed, Placed, Apart, rows' = rows, NEW t \in Tables, NEW m \in VM(Stack), Fits(m),
         vm' = [vm EXCEPT ![t] = Regenerate(m).vm],
         Sound(t)' => m \in VM(Seq(OpsAt(rows[t])))
  PROVE  Placed'
<1>1. ASSUME NEW u \in Tables, Sound(u)'
      PROVE  Sound(u)
  BY <1>1 DEF Apart, Grown, Sound, Steady
<1>2. \A u \in Tables : u # t => vm'[u] = vm[u]
  BY ChangedIs DEF Typed
<1>3. ASSUME Sound(t)'
      PROVE  vm'[t] \in VM(Seq(OpsAt(rows[t])))
  <2>1. rows[t] \in Nat
    BY DEF Typed, RowsOK
  <2>2. QED BY <1>3, <2>1, OpsAtIs, ChangedIs DEF Typed
<1>4. QED BY <1>1, <1>2, <1>3 DEF Placed

LEMMA MovesPlaced ==
  ASSUME Typed, Formed, Placed, NEW t \in Tables,
         \/ Apply(t, Rename) \/ Undo(t) \/ Redo(t)
         \/ \E op \in Upserts : Upsert(t, op)
         \/ \E k \in 0 .. MaxMoves : JumpTo(t, k) \/ RemoveStep(t, k)
  PROVE  Placed'
<1>1. PICK m : Drive(t, m) /\ \A S \in SUBSET Op :
                 Plain \subseteq S /\ Model(t) \in VM(Seq(S)) => m \in VM(Seq(S)) /\ Fits(m)
  BY MovesAre DEF Typed
<1>2. m \in VM(Stack) /\ Fits(m)
  BY <1>1, PlainIs, ModelIs DEF Stack, Typed
<1>3. Apart /\ rows' = rows /\ vm' = [vm EXCEPT ![t] = Regenerate(m).vm]
  BY <1>1, DriveApart DEF Drive, ChangeOn
<1>4. Sound(t)' => Sound(t)
  BY <1>3 DEF Apart, Grown, Sound, Steady
<1>5. Sound(t) => m \in VM(Seq(OpsAt(rows[t])))
  <2>1. rows[t] \in Nat
    BY DEF Typed, RowsOK
  <2>2. QED BY <1>1, <2>1, OpsAtIs, ModelPlaced
<1>6. QED BY <1>2, <1>3, <1>4, <1>5, ChangePlaced

\* An edit is late, or names the rows there are.
LEMMA EditEndPlaced ==
  ASSUME Typed, Formed, Placed, NEW e \in editing, EditEnd(e)
  PROVE  Placed'
<1>1. Apart /\ rows' = rows /\ e.t \in Tables /\ e.rows \in Nat /\ rows[e.t] \in Nat
  BY EditEndApart DEF EditEnd, Typed, RowsOK
<1>2. \A u \in Tables : Sound(u)' => Sound(u)
  BY <1>1 DEF Apart, Grown, Sound, Steady
<1>3. CASE vm' = vm
  BY <1>1, <1>2, <1>3 DEF Placed
<1>4. ASSUME NEW n \in {e.rows, rows[e.t]}, NEW hit,
             LET m == Model(e.t)
                 g == Regenerate(Checkpoint(m, Append(m.present, Edit(n))))
                 late == n # rows[e.t] /\ \A r \in refresh : r.t # e.t \/ r.at = "reading"
             IN  /\ vm' = [vm EXCEPT ![e.t] = g.vm]
                 /\ mishaps' = [Amiss(e.t, hit) EXCEPT ![e.t] = @ \cup IF late THEN {"late"} ELSE {}]
      PROVE  Placed'
  <2> DEFINE c == Checkpoint(Model(e.t), Append(Model(e.t).present, Edit(n)))
  <2>1. n \in Nat /\ Edit(n) \in Op
    BY <1>1, <1>4 DEF Edit, Op
  <2>2. c \in VM(Stack) /\ Fits(c)
    BY <1>1, <2>1, ModelIs, EditIs DEF Typed, Stack
  <2>3. vm' = [vm EXCEPT ![e.t] = Regenerate(c).vm]
    BY <1>4
  <2>4. Sound(e.t)' => n = rows[e.t]
    <3>1. SUFFICES ASSUME n # rows[e.t], Sound(e.t)' PROVE FALSE
      OBVIOUS
    <3>2. \A r \in refresh : r.t # e.t \/ r.at = "reading"
      BY <1>1, <1>2, <3>1 DEF Sound, Steady
    <3>3. mishaps' = [Amiss(e.t, hit) EXCEPT ![e.t] = @ \cup {"late"}]
      BY <1>4, <3>1, <3>2
    <3>4. "late" \in mishaps'[e.t]
      BY <1>1, <3>3 DEF Amiss
    <3>5. QED BY <3>1, <3>4 DEF Sound
  <2>5. Sound(e.t)' => c \in VM(Seq(OpsAt(rows[e.t])))
    <3>1. SUFFICES ASSUME Sound(e.t)' PROVE c \in VM(Seq(OpsAt(rows[e.t])))
      OBVIOUS
    <3>2. Model(e.t) \in VM(Seq(OpsAt(n))) /\ Edit(n) \in OpsAt(n) /\ OpsAt(n) \in SUBSET Op
      BY <1>1, <1>2, <2>1, <2>4, <3>1, ModelPlaced, OpsAtIs
    <3>3. QED BY <1>1, <2>1, <2>4, <3>1, <3>2, EditIs DEF Typed
  <2> HIDE DEF c
  <2>6. QED BY <1>1, <2>2, <2>3, <2>5, ChangePlaced
<1>5. QED BY <1>3, <1>4 DEF EditEnd

\* Nothing is said of a table whose rows are new with no replay.
LEMMA UnreplayedPlaced ==
  ASSUME Typed, Formed, Placed, NEW u \in Tables, NEW what, "unreplayed" \in what,
         mishaps' = Marked(u, what), rows' = [rows EXCEPT ![u] = @ + 1], vm' = vm,
         \A t \in Tables : Steady(t)' => Steady(t)
  PROVE  Placed'
<1>1. Grown /\ "unreplayed" \in mishaps'[u]
  BY MarkedGrows
<1>2. ~Sound(u)'
  BY <1>1 DEF Sound
<1>3. ASSUME NEW t \in Tables, t # u, Sound(t)'
      PROVE  Sound(t) /\ rows'[t] = rows[t]
  BY <1>1, <1>3 DEF Grown, Sound, Typed, RowsOK
<1>4. QED BY <1>2, <1>3 DEF Placed

\* Where rows are new, nothing is said till what was kept is replayed.
LEMMA ReimportPlaced ==
  ASSUME Typed, Formed, Placed, NEW r \in refresh, Reimport(r)
  PROVE  Placed'
<1>1. vm' = vm /\ r.t \in Tables /\ r.at = "reading"
  BY DEF Reimport, Formed
<1>2. CASE refresh' = refresh \ {r} /\ rows' = rows /\ mishaps' = mishaps
  <2>1. \A t \in Tables : Sound(t)' => Sound(t)
    BY <1>1, <1>2 DEF Sound, Steady
  <2>2. QED BY <1>1, <1>2, <2>1 DEF Placed
<1>5. ASSUME NEW u \in Tables, NEW what, "unreplayed" \in what, mishaps' = Marked(u, what),
             rows' = [rows EXCEPT ![u] = @ + 1], refresh' = refresh \ {r}
      PROVE  Placed'
  <2>1. \A t \in Tables : Steady(t)' => Steady(t)
    BY <1>1, <1>5 DEF Steady
  <2>2. QED BY <1>1, <1>5, <2>1, UnreplayedPlaced
<1>3. CASE /\ rows' = [rows EXCEPT ![r.t] = @ + 1] /\ mishaps' = mishaps
           /\ refresh' = (refresh \ {r}) \cup {[r EXCEPT !.at = "shaping"]}
  <2>1. PICK s : s = [t |-> r.t, keep |-> r.keep, read |-> r.read, at |-> "shaping"]
    OBVIOUS
  <2>2. [r EXCEPT !.at = "shaping"] = s
    <3>1. r = [t |-> r.t, keep |-> r.keep, read |-> r.read, at |-> r.at]
      BY DEF Formed
    <3>2. QED BY <2>1, <3>1
  <2>3. s \in refresh' /\ s.t = r.t /\ s.at = "shaping"
    BY <1>3, <2>1, <2>2
  <2>4. ~Sound(r.t)'
    BY <2>3 DEF Sound, Steady
  <2>5. ASSUME NEW t \in Tables, t # r.t, Sound(t)'
        PROVE  Sound(t) /\ rows'[t] = rows[t]
    <3>1. \A q \in refresh : q.t = t => q \in refresh'
      BY <1>3, <2>5
    <3>2. QED BY <1>1, <1>3, <2>5, <3>1 DEF Sound, Steady, Typed, RowsOK
  <2>6. QED BY <1>1, <2>4, <2>5 DEF Placed
<1>4. QED BY <1>1, <1>2, <1>3, <1>5 DEF Reimport, Reread

\* What is replayed is no edit, and there is nothing to undo or redo.
LEMMA ReplayPlaced ==
  ASSUME Typed, Formed, Placed, NEW r \in refresh, Replay(r)
  PROVE  Placed'
<1>1. /\ rows' = rows /\ refresh' = refresh \ {r} /\ r.t \in Tables /\ rows[r.t] \in Nat
  BY DEF Replay, Formed, Typed, RowsOK
<1>2. \A t \in Tables : t # r.t /\ Steady(t)' => Steady(t)
  BY <1>1 DEF Steady
<1>3. CASE ready
  <2> PICK keep \in ReplayableOn(r.keep) : ChangeOn(r.t, Reset(Model(r.t), keep))
    BY <1>3 DEF Replay
  <2> DEFINE m == Reset(Model(r.t), keep)
  <2>1. keep \in Seq(OpsAt(rows[r.t])) /\ Seq(OpsAt(rows[r.t])) \in SUBSET Stack
    BY <1>1, OpsAtIs, ReplayableOnIs DEF Typed, RowsOK
  <2>2. m \in VM(Seq(OpsAt(rows[r.t]))) /\ Fits(m)
    BY <1>1, <2>1, ModelIs, ResetIs DEF Typed, Tidy
  <2>3. ChangeOn(r.t, m)
    OBVIOUS
  <2> HIDE DEF m
  <2>4. vm' = [vm EXCEPT ![r.t] = Regenerate(m).vm]
    BY <2>3 DEF ChangeOn
  <2>5. vm'[r.t] \in VM(Seq(OpsAt(rows[r.t]))) /\ \A u \in Tables : u # r.t => vm'[u] = vm[u]
    BY <1>1, <2>1, <2>2, <2>4, ChangedIs DEF Typed
  <2>6. \A t \in Tables : mishaps[t] \subseteq mishaps'[t]
    BY <2>3, StartGrows DEF ChangeOn, Grown
  <2>7. QED BY <1>1, <1>2, <2>5, <2>6 DEF Placed, Sound
<1>4. CASE ~ready
  <2>1. vm' = vm /\ mishaps' = [mishaps EXCEPT ![r.t] = @ \cup {"unreplayed"}]
    BY <1>4 DEF Replay, Marked
  <2>2. ~Sound(r.t)'
    BY <1>1, <2>1 DEF Sound, Formed
  <2>3. \A t \in Tables : t # r.t => mishaps'[t] = mishaps[t]
    BY <2>1 DEF Formed
  <2>4. QED BY <1>1, <1>2, <2>1, <2>2, <2>3 DEF Placed, Sound
<1>5. QED BY <1>3, <1>4

LEMMA SaveEndPlaced ==
  ASSUME Typed, Formed, Placed, SaveEnd
  PROVE  Placed'
<1>1. RebindAll /\ rows' = rows /\ Apart
  BY SaveEndApart DEF SaveEnd
<1>2. \A t \in Tables : Sound(t)' => Sound(t)
  BY <1>1 DEF Apart, Grown, Sound, Steady
<1>3. vm' = [t \in Tables |-> IF vm[t] # None THEN Again(t).vm ELSE None]
  BY <1>1, RebindAllIs
<1>4. ASSUME NEW t \in Tables, vm[t] # None, Sound(t)
      PROVE  Again(t).vm \in VM(Seq(OpsAt(rows[t])))
  <2>1. rows[t] \in Nat
    BY DEF Typed, RowsOK
  <2>2. Seq(OpsAt(rows[t])) \in SUBSET Stack /\ vm[t] \in VM(Seq(OpsAt(rows[t])))
    BY <1>4, <2>1, OpsAtIs DEF Placed
  <2>3. QED BY <1>4, <2>2, AgainIs DEF Typed, Changed
<1>5. QED BY <1>1, <1>2, <1>3, <1>4 DEF Placed

LEMMA PlacedInductive == Spec => []Placed
<1>1. Init => Placed
  BY DEF Init, Placed
<1>2. Placed /\ Typed /\ IInv /\ [Next]_vars => Placed'
  <2>1. SUFFICES ASSUME Placed, Typed, Formed, [Next]_vars PROVE Placed'
    BY DEF IInv
  <2>2. ASSUME NEW t \in Tables,
               \/ Apply(t, Rename) \/ Undo(t) \/ Redo(t)
               \/ \E op \in Upserts : Upsert(t, op)
               \/ \E k \in 0 .. MaxMoves : JumpTo(t, k) \/ RemoveStep(t, k)
        PROVE  Placed'
    BY <2>1, <2>2, MovesPlaced
  <2>3. ASSUME NEW t \in Tables, EditBegin(t) \/ Forget(t) PROVE Placed'
    BY <2>1, <2>3 DEF EditBegin, Forget, Placed, Sound, Steady, Typed, ModelsOK
  <2>4. ASSUME NEW t \in Tables, Refresh(t) PROVE Placed'
    <3>1. vm' = vm /\ rows' = rows /\ refresh \subseteq refresh'
      BY <2>4 DEF Refresh
    <3>2. \A u \in Tables : mishaps[u] \subseteq mishaps'[u]
      BY <2>1, <2>4 DEF Refresh, Formed, Marked
    <3>3. QED BY <2>1, <3>1, <3>2 DEF Placed, Sound, Steady
  <2>12. ASSUME NEW t \in Tables, DropAgain(t) PROVE Placed'
    <3>1. vm' = vm /\ refresh' = refresh /\ rows' = [rows EXCEPT ![t] = @ + 1]
      BY <2>12 DEF DropAgain, Reread
    <3>2. PICK what : "unreplayed" \in what /\ mishaps' = Marked(t, what)
      BY <2>12 DEF DropAgain
    <3>3. \A u \in Tables : Steady(u)' => Steady(u)
      BY <3>1 DEF Steady
    <3>4. QED BY <2>1, <3>1, <3>2, <3>3, UnreplayedPlaced
  <2>5. ASSUME NEW i \in Ids, Step(i) PROVE Placed'
    <3>1. vm' = vm /\ rows' = rows /\ Apart
      BY <2>1, <2>5, StepApart DEF Step
    <3>2. QED BY <2>1, <3>1 DEF Apart, Grown, Placed, Sound, Steady
  <2>6. ASSUME NEW e \in editing, EditEnd(e) PROVE Placed'
    BY <2>1, <2>6, EditEndPlaced
  <2>7. ASSUME NEW r \in refresh, Reimport(r) \/ Replay(r) PROVE Placed'
    BY <2>1, <2>7, ReimportPlaced, ReplayPlaced
  <2>8. CASE SaveBegin
    BY <2>1, <2>8 DEF SaveBegin, Placed, Sound, Steady
  <2>9. CASE SaveEnd
    BY <2>1, <2>9, SaveEndPlaced
  <2>10. CASE UNCHANGED vars
    BY <2>1, <2>10 DEF vars, Placed, Sound, Steady
  <2>11. QED
    BY <2>1, <2>2, <2>3, <2>4, <2>5, <2>6, <2>7, <2>8, <2>9, <2>10, <2>12 DEF Next
<1>3. QED
  BY <1>1, <1>2, Inductive, TypedInductive, PTL DEF Spec

\* No table's edits, those it shows or those that undo or redo would show, are
\* of rows other than it has, however re-imports, changes, edits that wait for
\* their rows and saves fall between each other's steps: but for rows read
\* again with no replay, and an edit that began before a replay and ended after.
THEOREM EditsOnTheirRowsAlways == Spec => []EditsOnTheirRows
<1>1. Placed /\ Typed => EditsOnTheirRows
  <2>1. SUFFICES ASSUME Placed, Typed, NEW t \in Tables, Idle(t), vm[t] # None,
                        mishaps[t] \cap {"unreplayed", "late"} = {},
                        NEW stack \in {vm[t].present} \cup ToSet(vm[t].past) \cup ToSet(vm[t].future),
                        NEW op \in ToSet(stack), op.kind = "edit"
                 PROVE  op.val = rows[t]
    BY DEF EditsOnTheirRows
  <2> DEFINE T == Seq(OpsAt(rows[t]))
  <2>2. vm[t] \in VM(T)
    BY <2>1 DEF Placed, Sound, Steady, Idle, Refreshed
  <2> HIDE DEF T
  <2>3. vm[t].present \in T /\ vm[t].past \in Seq(T) /\ vm[t].future \in Seq(T)
    BY <2>2, ShapeIs
  <2>4. stack \in T
    BY <2>1, <2>3 DEF ToSet
  <2>5. stack \in Seq(OpsAt(rows[t]))
    BY <2>4 DEF T
  <2>6. op \in OpsAt(rows[t])
    BY <2>1, <2>5 DEF ToSet
  <2>7. QED BY <2>1, <2>6 DEF OpsAt
<1>2. QED BY <1>1, PlacedInductive, TypedInductive, PTL

-----------------------------------------------------------------------------
(* What a grid shows. *)

Clean(t) == mishaps[t] \subseteq {"overlapped"}

\* The engine has the view the model names.
Made(t) == vm[t].view # 0 => [table |-> t, name |-> vm[t].view, sql |-> vm[t].sql] \in views

\* A task is of the change the model is at, and will not drop what it shows.
Running(t, i) ==
  /\ task[i].name = vm[t].view /\ task[i].sql = vm[t].sql
  /\ task[i].prev # 0 => task[i].prev # vm[t].view
  /\ IF task[i].at = "create" THEN vm[t].view # 0 ELSE Made(t)
  /\ task[i].at = "drop" /\ Steady(t) => task[i].rows = rows[t]

Settled(t) ==
  IF vm[t].view = 0 THEN bound[t] = None \/ (bound[t].name = 0 /\ (Steady(t) => bound[t].rows = rows[t]))
  ELSE bound[t] # None /\ bound[t].name = vm[t].view /\ Made(t) /\ (Steady(t) => bound[t].rows = rows[t])

\* One task is at work on a table, and it is of the change the model is at; or
\* none is, and the grid shows what the model says.
Current(t) ==
  \/ \E i \in Ids : Of(t) = {i} /\ Running(t, i)
  \/ Of(t) = {} /\ (ready => Settled(t))

ShowsOne(t) == (vm[t] = None => bound[t] = None) /\ (vm[t] # None /\ Clean(t) => Current(t))
OneView == \A t \in Tables : ShowsOne(t)

\* A step of something else leaves a table as it was.
Alike(t) ==
  /\ vm'[t] = vm[t] /\ bound'[t] = bound[t] /\ rows'[t] = rows[t] /\ ready' = ready
  /\ Of(t)' = Of(t) /\ \A i \in Of(t) : task'[i] = task[i]
  /\ \A v \in views : v.table = t => v \in views'
  /\ Steady(t)' => Steady(t)

LEMMA AlikeKeeps ==
  ASSUME NEW t \in Tables, ShowsOne(t), Clean(t)' => Clean(t) /\ Alike(t), vm'[t] = vm[t], bound'[t] = bound[t]
  PROVE  ShowsOne(t)'
<1>1. SUFFICES ASSUME vm[t] # None, Clean(t), Alike(t) PROVE Current(t)'
  BY DEF ShowsOne
<1>2. Made(t) => Made(t)'
  BY <1>1 DEF Made, Alike
<1>3. CASE Of(t) = {} /\ (ready => Settled(t))
  BY <1>1, <1>2, <1>3 DEF Alike, Current, Settled
<1>4. ASSUME NEW i \in Ids, Of(t) = {i}, Running(t, i)
      PROVE  Current(t)'
  <2>1. Of(t)' = {i} /\ task'[i] = task[i]
    BY <1>1, <1>4 DEF Alike
  <2>2. Running(t, i)'
    BY <1>1, <1>2, <1>4, <2>1 DEF Alike, Running
  <2>3. QED BY <2>1, <2>2 DEF Current
<1>5. QED BY <1>1, <1>3, <1>4 DEF ShowsOne, Current

\* A change begun, whatever it interrupts.
LEMMA BeginShows ==
  ASSUME Typed, OneView, NEW t \in Tables, Free # {}, NEW r, NEW hit, Begin(t, r, hit),
         r.vm \in VM(Stack), r.prev \in Nat, r.prev # 0 => r.prev # r.vm.view,
         vm' = [vm EXCEPT ![t] = r.vm], UNCHANGED <<views, bound, rows, ready>>,
         \A u \in Tables : Amiss(t, hit)[u] \subseteq mishaps'[u],
         hit # 0 => hit \in Ids /\ task[hit] # None,
         \A u \in Tables : u # t /\ Steady(u)' => Steady(u)
  PROVE  OneView'
<1>1. PICK id \in Ids :
        /\ task[id] = None
        /\ task' = [i \in Ids |-> IF i = id THEN Due(t, r) ELSE IF i = hit THEN None ELSE task[i]]
  BY BeginIs
<1>2. /\ Due(t, r) # None /\ Due(t, r).t = t /\ Due(t, r).name = r.vm.view /\ Due(t, r).sql = r.vm.sql
      /\ Due(t, r).prev = r.prev /\ Due(t, r).at = (IF r.vm.view = 0 THEN "count" ELSE "create")
  BY DueIs
<1>3. vm'[t] = r.vm /\ vm'[t] # None /\ \A u \in Tables : u # t => vm'[u] = vm[u]
  BY ViewModelIs DEF Typed, ModelsOK
<1>4. \A i \in Ids : task'[i] = (IF i = id THEN Due(t, r) ELSE IF i = hit THEN None ELSE task[i])
  BY <1>1
<1>5. ASSUME NEW u \in Tables, u # t
      PROVE  ShowsOne(u)'
  <2>1. ASSUME Clean(u)'
        PROVE  Clean(u) /\ Alike(u)
    <3>1. /\ mishaps[u] \subseteq mishaps'[u]
          /\ hit # 0 => task[hit].t # u
      BY <1>5, <2>1 DEF Amiss, Clean
    <3>2. 0 \notin Ids
      BY DEF Ids
    <3>3. \A i \in Ids : task[i] # None /\ task[i].t = u => i # id /\ i # hit
      BY <1>1, <3>1, <3>2
    <3>4. \A i \in Ids : task'[i] # None /\ task'[i].t = u => i # id /\ task'[i] = task[i]
      BY <1>2, <1>4, <1>5
    <3>5. Of(u)' = Of(u) /\ \A i \in Of(u) : task'[i] = task[i]
      BY <1>4, <3>3, <3>4 DEF Of
    <3>6. QED BY <1>3, <1>5, <2>1, <3>1, <3>5 DEF Clean, Alike
  <2>2. QED BY <1>3, <1>5, <2>1, AlikeKeeps DEF OneView
<1>6. ShowsOne(t)'
  <2>1. SUFFICES ASSUME Clean(t)' PROVE Current(t)'
    BY <1>3 DEF ShowsOne
  <2>2. Of(t) \subseteq {hit}
    BY <2>1 DEF Amiss, Clean
  <2>3. Of(t)' = {id}
    BY <1>2, <1>4, <2>2 DEF Of
  <2>4. Running(t, id)'
    <3>1. task'[id] = Due(t, r)
      BY <1>4
    <3>2. r.vm.view = 0 => Made(t)'
      BY <1>3 DEF Made
    <3>3. QED BY <1>2, <1>3, <3>1, <3>2 DEF Running
  <2>5. QED BY <2>3, <2>4 DEF Current
<1>7. QED BY <1>5, <1>6 DEF OneView

\* What the lane holds is under way.
LEMMA HitsAre ==
  ASSUME TasksOK, NEW hit \in Hits(lane)
  PROVE  hit # 0 => hit \in Ids /\ task[hit] # None
BY DEF TasksOK, Hits

LEMMA ChangeShows ==
  ASSUME Typed, OneView, NEW t \in Tables, Free # {}, NEW m \in VM(Stack), Fits(m), ChangeOn(t, m),
         UNCHANGED <<views, bound, rows, ready>>,
         \A u \in Tables : u # t /\ Steady(u)' => Steady(u),
         Regenerate(m).display => SameView(m, Model(t)) /\ (Steady(t)' => Steady(t))
  PROVE  OneView'
<1> DEFINE r == Regenerate(m)
<1>1. vm' = [vm EXCEPT ![t] = r.vm] /\ Start(t, r)
  BY DEF ChangeOn
<1>2. Stack \in SUBSET Stack /\ m.view <= m.seq
  BY DEF Fits
<1>3. /\ r.vm \in VM(Stack) /\ r.prev \in Nat /\ (r.prev # 0 => r.prev # r.vm.view)
      /\ r.display => r.vm = m /\ m.view # 0
  BY <1>2, RegenerateIs
<1>4. r.display => SameView(m, Model(t)) /\ (Steady(t)' => Steady(t))
  OBVIOUS
<1> HIDE DEF r
<1>5. CASE ~r.display
  <2>1. PICK hit \in Hits(lane) : Begin(t, r, hit) /\ mishaps' = Amiss(t, hit)
    BY <1>1, <1>5 DEF Start
  <2>2. hit # 0 => hit \in Ids /\ task[hit] # None
    BY HitsAre DEF Typed
  <2>3. QED BY <1>1, <1>3, <2>1, <2>2, BeginShows
<1>6. CASE r.display
  <2>1. UNCHANGED <<task, mishaps>>
    BY <1>1, <1>6 DEF Start
  <2>2. vm'[t] = m /\ \A u \in Tables : u # t => vm'[u] = vm[u]
    BY <1>1, <1>3, <1>6 DEF Typed, ModelsOK
  <2>3. vm[t] # None /\ vm'[t].view = vm[t].view /\ vm'[t].sql = vm[t].sql /\ vm'[t] # None
    <3>1. SameView(m, Model(t)) /\ m.view # 0
      BY <1>3, <1>4, <1>6
    <3>2. Model(t) # New
      BY <3>1 DEF SameView, New
    <3>3. Model(t) = vm[t] /\ vm[t] # None
      BY <3>2, ModelIs DEF Typed
    <3>4. QED BY <2>2, <3>1, <3>3, ViewModelIs DEF SameView
  <2>4. \A u \in Tables : Of(u)' = Of(u) /\ Clean(u)' = Clean(u)
    BY <2>1 DEF Of, Clean
  <2>5. ASSUME NEW u \in Tables, u # t PROVE ShowsOne(u)'
    <3>1. Alike(u)
      BY <2>1, <2>2, <2>4, <2>5 DEF Alike
    <3>2. QED BY <2>2, <2>4, <2>5, <3>1, AlikeKeeps DEF OneView
  <2>6. ShowsOne(t)'
    <3>1. Made(t)' = Made(t)
      BY <2>3 DEF Made
    <3>2. Settled(t) => Settled(t)'
      BY <1>4, <1>6, <2>3, <3>1 DEF Settled
    <3>3. \A i \in Ids : Running(t, i) => Running(t, i)'
      BY <1>4, <1>6, <2>1, <2>3, <3>1 DEF Running
    <3>4. QED BY <2>3, <2>4, <3>2, <3>3 DEF OneView, ShowsOne, Current
  <2>7. QED BY <2>5, <2>6 DEF OneView
<1>7. QED BY <1>5, <1>6

LEMMA MovesShow ==
  ASSUME Typed, OneView, NEW t \in Tables,
         \/ Apply(t, Rename) \/ Undo(t) \/ Redo(t)
         \/ \E op \in Upserts : Upsert(t, op)
         \/ \E k \in 0 .. MaxMoves : JumpTo(t, k) \/ RemoveStep(t, k)
  PROVE  OneView'
<1>1. PICK m : /\ Drive(t, m)
               /\ \A S \in SUBSET Op : Plain \subseteq S /\ Model(t) \in VM(Seq(S)) => m \in VM(Seq(S)) /\ Fits(m)
               /\ SameView(m, Model(t))
  BY MovesAre DEF Typed
<1>2. m \in VM(Stack) /\ Fits(m)
  BY <1>1, PlainIs, ModelIs DEF Stack, Typed
<1>3. Free # {} /\ ChangeOn(t, m) /\ UNCHANGED <<views, bound, rows, refresh, ready>>
  BY <1>1, FreeNotEmpty DEF Drive
<1>4. \A u \in Tables : Steady(u)' => Steady(u)
  BY <1>3 DEF Steady
<1>5. QED BY <1>1, <1>2, <1>3, <1>4, ChangeShows

LEMMA EditEndShows ==
  ASSUME Typed, OneView, NEW e \in editing, EditEnd(e)
  PROVE  OneView'
<1>1. /\ Free # {} /\ UNCHANGED <<views, bound, rows, refresh, ready>>
      /\ e.t \in Tables /\ e.rows \in Nat /\ rows[e.t] \in Nat
  BY DEF EditEnd, Typed, RowsOK
<1>2. \A u \in Tables : Steady(u)' = Steady(u)
  BY <1>1 DEF Steady
<1>3. CASE UNCHANGED <<vm, task, mishaps>>
  <2>1. ASSUME NEW u \in Tables PROVE Alike(u) /\ Clean(u)' = Clean(u)
    BY <1>1, <1>2, <1>3 DEF Alike, Of, Clean
  <2>2. QED BY <1>1, <1>3, <2>1, AlikeKeeps DEF OneView
<1>4. ASSUME NEW n \in Nat, NEW hit \in Hits(lane), NEW more,
             LET m == Model(e.t)
                 g == Regenerate(Checkpoint(m, Append(m.present, Edit(n))))
             IN  /\ vm' = [vm EXCEPT ![e.t] = g.vm] /\ Begin(e.t, g, hit)
                 /\ mishaps' = [Amiss(e.t, hit) EXCEPT ![e.t] = @ \cup more]
      PROVE  OneView'
  <2> DEFINE c == Checkpoint(Model(e.t), Append(Model(e.t).present, Edit(n)))
  <2>1. Edit(n) \in Op
    BY DEF Edit, Op
  <2>2. c \in VM(Stack) /\ Fits(c)
    BY <1>1, <2>1, ModelIs, EditIs DEF Typed, Stack
  <2> DEFINE g == Regenerate(c)
  <2>3. vm' = [vm EXCEPT ![e.t] = g.vm] /\ Begin(e.t, g, hit)
    BY <1>4
  <2> HIDE DEF c
  <2>4. Stack \in SUBSET Stack /\ c.view <= c.seq
    BY <2>2 DEF Fits
  <2>5. g.vm \in VM(Stack) /\ g.prev \in Nat /\ (g.prev # 0 => g.prev # g.vm.view)
    BY <2>2, <2>4, RegenerateIs
  <2> HIDE DEF g
  <2>6. \A u \in Tables : Amiss(e.t, hit)[u] \subseteq mishaps'[u]
    BY <1>4 DEF Amiss
  <2>7. hit # 0 => hit \in Ids /\ task[hit] # None
    BY HitsAre DEF Typed
  <2>8. QED BY <1>1, <1>2, <2>3, <2>5, <2>6, <2>7, BeginShows
<1>5. QED BY <1>1, <1>3, <1>4 DEF EditEnd

\* A statement of a task, of whatever change it is.
LEMMA StepShows ==
  ASSUME Typed, Formed, OneView, NEW i \in Ids, Step(i)
  PROVE  OneView'
<1>0. PICK t \in Tables, x \in Task : x = task[i] /\ t = x.t
  BY StepIs
<1>1. /\ x # None /\ x = task[i] /\ t = task[i].t /\ x.prev \in Nat /\ x.rows \in Nat /\ rows[t] \in Nat
      /\ UNCHANGED <<vm, rows, refresh, ready>> /\ None \notin Nat
  BY <1>0, StepIs, ViewsAssumption DEF Step, Typed, RowsOK
<1>2. /\ \A u \in Tables : Steady(u)' = Steady(u) /\ mishaps[u] \subseteq mishaps'[u]
  BY <1>1, StepApart DEF Steady, Apart, Grown
<1>3. \A j \in Ids : j # i => task'[j] = task[j]
  BY StepIs DEF Fail, DropView, Ended, Typed, TasksOK
<1>4. task'[i] = None \/ task'[i].t = t
  BY <1>1, StepIs DEF Fail, DropView, Ended, Later, Typed, TasksOK
<1>5. ASSUME NEW u \in Tables, u # t
      PROVE  ShowsOne(u)'
  <2>1. Of(u)' = Of(u) /\ \A j \in Of(u) : task'[j] = task[j]
    BY <1>1, <1>3, <1>4, <1>5 DEF Of
  <2>2. \A v \in views : v.table = u => v \in views'
    BY <1>1, <1>5, StepIs DEF Fail, DropView, Named, View
  <2>3. bound'[u] = bound[u]
    <3>1. \A n : Bind(i, n) => bound'[u] = bound[u]
      BY <1>1, <1>5 DEF Bind, Typed, BoundOK
    <3>2. QED BY <3>1, StepIs DEF Fail, DropView
  <2>4. Alike(u) /\ (Clean(u)' => Clean(u))
    BY <1>1, <1>2, <2>1, <2>2, <2>3 DEF Alike, Clean
  <2>5. QED BY <1>1, <1>5, <2>3, <2>4, AlikeKeeps DEF OneView
<1>6. vm[t] = None => bound'[t] = bound[t]
  BY <1>1, StepIs DEF Fail, DropView, Bind
<1>7. ASSUME vm[t] # None, Clean(t)'
      PROVE  Current(t)'
  <2>1. Clean(t)
    BY <1>1, <1>2, <1>7 DEF Clean
  <2>2. Of(t) = {i} /\ Running(t, i)
    BY <1>1, <1>7, <2>1 DEF OneView, ShowsOne, Current, Of
  <2>3. /\ x.name = vm[t].view /\ x.sql = vm[t].sql /\ (x.prev # 0 => x.prev # vm[t].view)
        /\ IF x.at = "create" THEN vm[t].view # 0 ELSE Made(t)
        /\ x.at = "drop" /\ Steady(t) => x.rows = rows[t]
    BY <1>1, <2>2 DEF Running
  <2>4. vm[t].view \in Nat
    BY <1>1, <1>7, ShapeIs DEF Typed, ModelsOK
  <2>5. ~Fail(i)
    <3>1. Fail(i) => "failed" \in mishaps'[t]
      BY <1>1 DEF Fail, Formed
    <3>2. QED BY <1>7, <3>1 DEF Clean
  <2>6. task'[i] = None => Of(t)' = {}
    BY <1>3, <2>2 DEF Of
  <2>7. task'[i] # None => Of(t)' = {i}
    BY <1>3, <1>4, <2>2 DEF Of
  <2>8. ASSUME NEW n \in Nat, Ended(i), Bind(i, n), Made(t)', Steady(t)' => n = rows[t]
        PROVE  Current(t)'
    <3>1. Of(t)' = {}
      BY <2>6, <2>8 DEF Ended, Typed, TasksOK
    <3>2. bound'[t] = [name |-> vm[t].view, rows |-> n]
      BY <1>1, <1>7, <2>3, <2>8 DEF Bind, Typed, BoundOK
    <3>3. bound'[t] # None
      <4>1. [name |-> vm[t].view, rows |-> n] \in [name : Nat, rows : Nat]
        BY <2>4
      <4>2. QED BY <3>2, <4>1, ViewsAssumption
    <3>4. Settled(t)'
      BY <1>1, <2>8, <3>2, <3>3 DEF Settled
    <3>5. QED BY <3>1, <3>4 DEF Current
  <2>9. CASE /\ x.at = "create" /\ task' = [task EXCEPT ![i] = Later(i, "count", x.rows)]
             /\ views' = {v \in views : ~Named(v, View(i))} \cup {[table |-> t, name |-> x.name, sql |-> x.sql]}
    <3>1. task'[i] = Later(i, "count", x.rows) /\ task'[i] # None
      BY <1>1, <2>9, LaterIs DEF Typed, TasksOK
    <3>2. Made(t)'
      BY <1>1, <2>3, <2>9 DEF Made
    <3>3. Running(t, i)'
      BY <1>1, <2>3, <3>1, <3>2 DEF Later, Running
    <3>4. QED BY <2>7, <3>1, <3>3 DEF Current
  <2>10. CASE x.at = "count" /\ UNCHANGED views /\ Ended(i) /\ Bind(i, rows[t])
    <3>1. Made(t)'
      BY <1>1, <2>3, <2>10 DEF Made
    <3>2. QED BY <1>1, <2>8, <2>10, <3>1
  <2>11. CASE x.at = "count" /\ UNCHANGED views /\ task' = [task EXCEPT ![i] = Later(i, "drop", rows[t])]
    <3>1. task'[i] = Later(i, "drop", rows[t]) /\ task'[i] # None
      BY <1>1, <2>11, LaterIs DEF Typed, TasksOK
    <3>2. Made(t)'
      BY <1>1, <2>3, <2>11 DEF Made
    <3>3. Running(t, i)'
      BY <1>1, <2>3, <3>1, <3>2 DEF Later, Running
    <3>4. QED BY <2>7, <3>1, <3>3 DEF Current
  <2>12. CASE DropView(i)
    <3>1. x.at = "drop" /\ Ended(i) /\ views' = {v \in views : v.table # t \/ v.name # x.prev}
      BY <1>1, <2>12 DEF DropView
    <3>2. Made(t)'
      BY <1>1, <2>3, <3>1 DEF Made
    <3>3. Bind(i, x.rows)
      BY <1>1, <2>3, <2>4, <2>12 DEF DropView
    <3>4. QED BY <1>1, <1>2, <2>3, <2>8, <3>1, <3>2, <3>3
  <2>13. QED BY <1>1, <2>5, <2>9, <2>10, <2>11, <2>12, StepIs
<1>8. ShowsOne(t)'
  BY <1>1, <1>6, <1>7 DEF OneView, ShowsOne
<1>9. QED BY <1>5, <1>8 DEF OneView

LEMMA ForgetShows ==
  ASSUME Typed, OneView, NEW t \in Tables, Forget(t)
  PROVE  OneView'
<1>1. /\ Free # {} /\ UNCHANGED <<views, rows, refresh, ready, mishaps>>
      /\ vm' = [vm EXCEPT ![t] = None] /\ bound' = [bound EXCEPT ![t] = None]
  BY FreeNotEmpty DEF Forget
<1>2. PICK id \in Free : \/ task' = task
                         \/ task' = [task EXCEPT ![id] = [t |-> t, name |-> None, sql |-> None,
                                                          prev |-> vm[t].view, rows |-> 0, at |-> "drop"]]
  BY <1>1 DEF Forget
<1>3. ShowsOne(t)'
  BY <1>1 DEF ShowsOne, Typed, ModelsOK, BoundOK
<1>4. ASSUME NEW u \in Tables, u # t
      PROVE  ShowsOne(u)'
  <2>1. id \in Ids /\ task[id] = None /\ task = [i \in Ids |-> task[i]]
    BY DEF Free, Typed, TasksOK
  <2>2. \A i \in Ids : i # id => task'[i] = task[i]
    BY <1>2, <2>1
  <2>3. task'[id] = None \/ task'[id].t = t
    BY <1>2, <2>1
  <2>4. Of(u)' = Of(u) /\ \A i \in Of(u) : task'[i] = task[i]
    BY <1>4, <2>1, <2>2, <2>3 DEF Of
  <2>5. vm'[u] = vm[u] /\ bound'[u] = bound[u] /\ Clean(u)' = Clean(u)
    BY <1>1, <1>4 DEF Clean, Typed, ModelsOK, BoundOK
  <2>6. Alike(u)
    BY <1>1, <2>4, <2>5 DEF Alike, Steady
  <2>7. QED BY <2>5, <2>6, AlikeKeeps DEF OneView
<1>5. QED BY <1>3, <1>4 DEF OneView

\* A re-import begun, and read: what runs on goes by the rows there were, and a
\* table is shown over new ones when what was kept is replayed.
LEMMA RefreshShows ==
  ASSUME Formed, OneView, NEW t \in Tables, Refresh(t)
  PROVE  OneView'
<1>1. UNCHANGED <<vm, views, bound, task, rows, ready>> /\ refresh \subseteq refresh'
  BY DEF Refresh
<1>2. \A u \in Tables : mishaps[u] \subseteq mishaps'[u]
  BY DEF Refresh, Formed, Marked
<1>3. ASSUME NEW u \in Tables PROVE Alike(u) /\ (Clean(u)' => Clean(u))
  BY <1>1, <1>2 DEF Alike, Of, Steady, Clean
<1>4. QED BY <1>1, <1>3, AlikeKeeps DEF OneView

\* Nothing is said of what shows a table whose rows are new with no replay.
LEMMA UnreplayedShows ==
  ASSUME Typed, Formed, OneView, NEW t \in Tables, NEW what, "unreplayed" \in what,
         mishaps' = Marked(t, what), rows' = [rows EXCEPT ![t] = @ + 1],
         UNCHANGED <<vm, views, bound, task, ready>>, \A u \in Tables : Steady(u)' => Steady(u)
  PROVE  OneView'
<1>1. Grown /\ "unreplayed" \in mishaps'[t]
  BY MarkedGrows
<1>2. ShowsOne(t)'
  BY <1>1 DEF OneView, ShowsOne, Clean
<1>3. ASSUME NEW u \in Tables, u # t PROVE Alike(u) /\ (Clean(u)' => Clean(u))
  BY <1>1, <1>3 DEF Alike, Of, Clean, Grown, Typed, RowsOK
<1>4. QED BY <1>2, <1>3, AlikeKeeps DEF OneView

LEMMA ReimportShows ==
  ASSUME Typed, Formed, OneView, NEW r \in refresh, Reimport(r)
  PROVE  OneView'
<1>1. UNCHANGED <<vm, views, bound, task, ready>> /\ r.t \in Tables /\ r.at = "reading"
  BY DEF Reimport, Formed
<1>2. /\ \A u \in Tables : Of(u)' = Of(u)
      /\ mishaps' = mishaps => \A u \in Tables : Clean(u)' = Clean(u)
  BY <1>1 DEF Of, Clean
<1>3. CASE refresh' = refresh \ {r} /\ rows' = rows /\ mishaps' = mishaps
  <2>1. ASSUME NEW u \in Tables PROVE Alike(u)
    BY <1>1, <1>2, <1>3 DEF Alike, Steady
  <2>2. QED BY <1>1, <1>2, <1>3, <2>1, AlikeKeeps DEF OneView
<1>6. ASSUME NEW u \in Tables, NEW what, "unreplayed" \in what, mishaps' = Marked(u, what),
             rows' = [rows EXCEPT ![u] = @ + 1], refresh' = refresh \ {r}
      PROVE  OneView'
  <2>1. \A t \in Tables : Steady(t)' => Steady(t)
    BY <1>1, <1>6 DEF Steady
  <2>2. QED BY <1>1, <1>6, <2>1, UnreplayedShows
<1>4. CASE /\ rows' = [rows EXCEPT ![r.t] = @ + 1] /\ mishaps' = mishaps
           /\ refresh' = (refresh \ {r}) \cup {[r EXCEPT !.at = "shaping"]}
  <2>1. PICK s : s = [t |-> r.t, keep |-> r.keep, read |-> r.read, at |-> "shaping"]
    OBVIOUS
  <2>2. [r EXCEPT !.at = "shaping"] = s
    <3>1. r = [t |-> r.t, keep |-> r.keep, read |-> r.read, at |-> r.at]
      BY DEF Formed
    <3>2. QED BY <2>1, <3>1
  <2>3. ~Steady(r.t)'
    BY <1>4, <2>1, <2>2 DEF Steady
  <2>4. Made(r.t)' = Made(r.t)
    BY <1>1 DEF Made
  <2>5. ASSUME vm[r.t] # None, Clean(r.t)
        PROVE  Current(r.t)'
    <3>1. Settled(r.t) => Settled(r.t)'
      BY <1>1, <2>3, <2>4 DEF Settled
    <3>2. \A i \in Ids : Running(r.t, i) => Running(r.t, i)'
      BY <1>1, <2>3, <2>4 DEF Running
    <3>3. QED BY <1>1, <1>2, <2>5, <3>1, <3>2 DEF OneView, ShowsOne, Current
  <2>6. ShowsOne(r.t)'
    BY <1>1, <1>2, <1>4, <2>5 DEF OneView, ShowsOne
  <2>7. ASSUME NEW u \in Tables, u # r.t
        PROVE  ShowsOne(u)'
    <3>1. rows'[u] = rows[u]
      BY <1>4, <2>7 DEF Typed, RowsOK
    <3>2. Steady(u)' => Steady(u)
      BY <1>4, <2>7 DEF Steady
    <3>3. Alike(u)
      BY <1>1, <1>2, <3>1, <3>2 DEF Alike
    <3>4. QED BY <1>1, <1>2, <1>4, <3>3, AlikeKeeps DEF OneView
  <2>8. QED BY <2>6, <2>7 DEF OneView
<1>5. QED BY <1>1, <1>3, <1>4, <1>6 DEF Reimport, Reread

LEMMA ReplayShows ==
  ASSUME Typed, Formed, OneView, NEW r \in refresh, Replay(r)
  PROVE  OneView'
<1>1. /\ Free # {} /\ UNCHANGED <<views, bound, rows, ready>> /\ refresh' = refresh \ {r} /\ r.t \in Tables
  BY DEF Replay, Formed
<1>2. \A u \in Tables : u # r.t /\ Steady(u)' => Steady(u)
  BY <1>1 DEF Steady
<1>3. CASE ready
  <2> PICK keep \in ReplayableOn(r.keep) : ChangeOn(r.t, Reset(Model(r.t), keep))
    BY <1>3 DEF Replay
  <2> DEFINE m == Reset(Model(r.t), keep)
  <2>1. keep \in Stack
    BY ReplayableOnIs DEF Typed, RowsOK
  <2>2. m \in VM(Stack) /\ Fits(m) /\ m.sql = None
    BY <1>1, <2>1, ModelIs, ResetIs DEF Typed, Tidy
  <2>3. ChangeOn(r.t, m)
    OBVIOUS
  <2> HIDE DEF m
  <2>4. ~Regenerate(m).display
    <3>1. Stack \in SUBSET Stack /\ m.view <= m.seq
      BY <2>2 DEF Fits
    <3>2. Regenerate(m).display => m.sql = Compiled(m.present)
      BY <2>2, <3>1, RegenerateIs
    <3>3. Compiled(m.present) \in Stack
      BY <2>2, ShapeIs, CompiledIs
    <3>4. QED BY <2>2, <3>2, <3>3, ViewModelIs
  <2>5. QED BY <1>1, <1>2, <2>2, <2>3, <2>4, ChangeShows
<1>4. CASE ~ready
  <2>1. UNCHANGED <<vm, task>> /\ mishaps' = [mishaps EXCEPT ![r.t] = @ \cup {"unreplayed"}]
    BY <1>4 DEF Replay, Marked
  <2>2. ~Clean(r.t)' /\ \A u \in Tables : u # r.t => Clean(u)' = Clean(u)
    BY <1>1, <2>1 DEF Clean, Formed
  <2>3. ASSUME NEW u \in Tables, u # r.t PROVE Alike(u)
    BY <1>1, <1>2, <2>1, <2>3 DEF Alike, Of
  <2>4. QED BY <1>1, <2>1, <2>2, <2>3, AlikeKeeps DEF OneView
<1>5. QED BY <1>3, <1>4

LEMMA SaveBeginShows ==
  ASSUME OneView, SaveBegin
  PROVE  OneView'
<1>1. UNCHANGED <<vm, views, task, rows, refresh, mishaps>> /\ ~ready' /\ bound' = [t \in Tables |-> None]
  BY DEF SaveBegin
<1>2. ASSUME NEW t \in Tables, vm[t] # None, Clean(t)
      PROVE  Current(t)'
  <2>1. Of(t)' = Of(t) /\ Made(t)' = Made(t) /\ Steady(t)' = Steady(t)
    BY <1>1 DEF Of, Made, Steady
  <2>2. \A i \in Ids : Running(t, i) => Running(t, i)'
    BY <1>1, <2>1 DEF Running
  <2>3. QED BY <1>1, <1>2, <2>1, <2>2 DEF OneView, ShowsOne, Current
<1>3. \A t \in Tables : Clean(t)' = Clean(t)
  BY <1>1 DEF Clean
<1>4. QED BY <1>1, <1>2, <1>3 DEF OneView, ShowsOne

\* Each model is driven again, by a task of its own.
LEMMA SaveEndShows ==
  ASSUME Typed, OneView, SaveEnd
  PROVE  OneView'
<1>1. RebindAll /\ UNCHANGED <<bound, rows, refresh>>
  BY DEF SaveEnd
<1>2. /\ vm' = [t \in Tables |-> IF vm[t] # None THEN Again(t).vm ELSE None]
      /\ mishaps' = [t \in Tables |-> IF Of(t) = {} THEN mishaps[t] ELSE mishaps[t] \cup {"unstopped"}]
  BY <1>1, RebindAllIs
<1>3. ASSUME NEW t \in Tables, vm[t] # None
      PROVE  vm'[t] # None /\ (Clean(t)' => Current(t)')
  <2>1. t \in Changed
    BY <1>3 DEF Changed
  <2>2. /\ Again(t).vm \in VM(Stack) /\ DueAgain(t) # None
    BY <2>1, AgainIs DEF Typed, ModelsOK, Changed
  <2>3. vm'[t] = Again(t).vm /\ vm'[t] # None
    BY <1>2, <1>3, <2>2, ViewModelIs
  <2>4. PICK id \in [Changed -> Free], hit \in Hits(lane), last \in Changed :
          /\ \A u, v \in Changed : id[u] = id[v] => u = v
          /\ \A u \in Changed : task'[id[u]] = DueAgain(u)
          /\ \A i \in Ids : (\A u \in Changed : id[u] # i) => task'[i] = IF i = hit THEN None ELSE task[i]
    BY <1>1, <2>1, RebindAllIs
  <2>5. SUFFICES ASSUME Clean(t)' PROVE Current(t)'
    BY <2>3
  <2>6. Of(t) = {}
    BY <1>2, <2>5 DEF Clean
  <2>7. id[t] \in Ids /\ task'[id[t]] = DueAgain(t)
    BY <2>1, <2>4 DEF Free
  <2>8. \A u \in Changed : DueAgain(u).t = u
    BY DEF DueAgain
  <2>9. ASSUME NEW i \in Ids, task'[i] # None, task'[i].t = t
        PROVE  i = id[t]
    <3>1. CASE \E u \in Changed : id[u] = i
      BY <2>4, <2>8, <2>9, <3>1
    <3>2. CASE \A u \in Changed : id[u] # i
      BY <2>4, <2>6, <2>9, <3>2 DEF Of
    <3>3. QED BY <3>1, <3>2
  <2>10. Of(t)' = {id[t]}
    BY <2>1, <2>2, <2>7, <2>8, <2>9 DEF Of
  <2>11. Running(t, id[t])'
    BY <2>3, <2>7 DEF Running, Made, DueAgain
  <2>12. QED BY <2>7, <2>10, <2>11 DEF Current
<1>4. \A t \in Tables : vm[t] = None => vm'[t] = None /\ bound'[t] = None
  BY <1>1, <1>2 DEF OneView, ShowsOne
<1>5. QED BY <1>3, <1>4 DEF OneView, ShowsOne

LEMMA OneViewInductive == Spec => []OneView
<1>1. Init => OneView
  BY DEF Init, OneView, ShowsOne
<1>2. OneView /\ Typed /\ IInv /\ [Next]_vars => OneView'
  <2>1. SUFFICES ASSUME OneView, Typed, Formed, [Next]_vars PROVE OneView'
    BY DEF IInv
  <2>2. ASSUME NEW t \in Tables,
               \/ Apply(t, Rename) \/ Undo(t) \/ Redo(t)
               \/ \E op \in Upserts : Upsert(t, op)
               \/ \E k \in 0 .. MaxMoves : JumpTo(t, k) \/ RemoveStep(t, k)
        PROVE  OneView'
    BY <2>1, <2>2, MovesShow
  <2>3. CASE UNCHANGED <<vm, views, bound, task, rows, refresh, ready, mishaps>>
    <3>1. ASSUME NEW u \in Tables PROVE Alike(u) /\ Clean(u)' = Clean(u)
      BY <2>3 DEF Alike, Of, Steady, Clean
    <3>2. QED BY <2>1, <2>3, <3>1, AlikeKeeps DEF OneView
  <2>4. ASSUME NEW t \in Tables, EditBegin(t) PROVE OneView'
    BY <2>3, <2>4 DEF EditBegin
  <2>5. ASSUME NEW t \in Tables, Forget(t) \/ Refresh(t) PROVE OneView'
    BY <2>1, <2>5, ForgetShows, RefreshShows
  <2>12. ASSUME NEW t \in Tables, DropAgain(t) PROVE OneView'
    <3>1. /\ UNCHANGED <<vm, views, bound, task, ready, refresh>> /\ rows' = [rows EXCEPT ![t] = @ + 1]
      BY <2>12 DEF DropAgain, Reread
    <3>2. PICK what : "unreplayed" \in what /\ mishaps' = Marked(t, what)
      BY <2>12 DEF DropAgain
    <3>3. \A u \in Tables : Steady(u)' => Steady(u)
      BY <3>1 DEF Steady
    <3>4. QED BY <2>1, <3>1, <3>2, <3>3, UnreplayedShows
  <2>6. ASSUME NEW i \in Ids, Step(i) PROVE OneView'
    BY <2>1, <2>6, StepShows
  <2>7. ASSUME NEW e \in editing, EditEnd(e) PROVE OneView'
    BY <2>1, <2>7, EditEndShows
  <2>8. ASSUME NEW r \in refresh, Reimport(r) \/ Replay(r) PROVE OneView'
    BY <2>1, <2>8, ReimportShows, ReplayShows
  <2>9. CASE SaveBegin \/ SaveEnd
    BY <2>1, <2>9, SaveBeginShows, SaveEndShows
  <2>10. CASE UNCHANGED vars
    BY <2>3, <2>10 DEF vars
  <2>11. QED
    BY <2>1, <2>2, <2>4, <2>5, <2>6, <2>7, <2>8, <2>9, <2>10, <2>12 DEF Next
<1>3. QED
  BY <1>1, <1>2, Inductive, TypedInductive, PTL DEF Spec

\* Once a table's changes have run its grid shows its stack over its rows,
\* through a view that is in the engine, and a closed table's shows nothing:
\* whatever was changed, undone, closed and opened, read again and saved while
\* they ran, so long as none of their statements failed, each change that
\* began while another was under way stopped that one and no other, and no file
\* was read again with no replay.
THEOREM ShownAlways == Spec => []Shown
<1>1. OneView /\ Typed => Shown
  <2>1. SUFFICES ASSUME OneView, Typed, NEW t \in Tables, Idle(t), mishaps[t] \subseteq {"overlapped"}
                 PROVE  IF vm[t] = None THEN bound[t] = None ELSE
                        /\ bound[t] # None => bound[t].rows = rows[t]
                        /\ IF vm[t].present = <<>> THEN bound[t] = None \/ bound[t].name = 0
                           ELSE bound[t] # None /\ [table |-> t, name |-> bound[t].name,
                                                    sql |-> Compiled(vm[t].present)] \in views
    BY DEF Shown
  <2>2. CASE vm[t] = None
    BY <2>1, <2>2 DEF OneView, ShowsOne
  <2>3. CASE vm[t] # None
    <3>1. Settled(t) /\ Steady(t)
      BY <2>1, <2>3 DEF Idle, Refreshed, Steady, OneView, ShowsOne, Clean, Current
    <3>2. (vm[t].view = 0 <=> vm[t].present = <<>>) /\ Compiles(vm[t])
      BY <2>1, <2>3 DEF Typed, ModelsOK, Tidy
    <3>3. QED BY <2>3, <3>1, <3>2 DEF Settled, Made, Compiles
  <2>4. QED BY <2>2, <2>3
<1>2. QED BY <1>1, OneViewInductive, TypedInductive, PTL
=============================================================================
