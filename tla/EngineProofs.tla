------------------------------ MODULE EngineProofs ------------------------------
(***************************************************************************)
(* What shares an engine, proved for any number of those who use it.        *)
(* EngineTables: no file is read over another table's data, and with        *)
(* nothing under way the map and the rows are the tables'.  QueryLanes and  *)
(* the Console over them: a run cancelled in time never shows its rows, and *)
(* a tab of rows shows those of the run of the tab it is labelled with.     *)
(***************************************************************************)
EXTENDS EngineTables, Console, FiniteSetTheorems, SequenceTheorems, WellFoundedInduction, TLAPS

-----------------------------------------------------------------------------
(* EngineTables. *)


\* What a call is of; nothing else is under way with one that is alone, and a
\* drop or a rename races with all there is.
Formed ==
  /\ \A o \in Ops : op[o] # Nothing =>
       /\ op[o].kind = "import" => op[o].file \in Files
       /\ op[o].kind = "rename" => op[o].name # op[o].to
  /\ \A o, p \in Ops : op[o] # Nothing /\ op[p] # Nothing /\ o # p =>
       ~op[o].alone /\ (op[o].kind \in {"drop", "rename"} => op[o].raced /\ op[p].raced)

Touches(o) == IF op[o].kind = "rename" THEN {op[o].name, op[o].to} ELSE {op[o].name}

\* A name nothing is said of: loose, or about to be when an operation lands.
Doubt(n) ==
  n \in loose \/ \E o \in Ops : /\ op[o] # Nothing /\ op[o].applied /\ n \in Touches(o)
                                /\ op[o].raced \/ op[o].kind \in {"drop", "rename"}

Untouched(n) == \A o \in Ops : op[o] # Nothing /\ op[o].applied => n \notin Touches(o)

\* The entry is the table's, but where an attached one was.
Entry(n) == origins[n] = db[n] \/ (n \in masked /\ origins[n] \in {"attached", Nothing})

RowsRight == \A n \in Names \ loose : n \in unkept \/ meta[n] = db[n]

\* No entry says a file that its table is not of, also while one has to land.
MapRight ==
  \A n \in Names : ~Doubt(n) =>
    (origins[n] \in Files => db[n] = origins[n]) /\ (Untouched(n) => Entry(n))

\* An import with no race has found the tables that are the file's.
OwnedBy(o) ==
  op[o] # Nothing /\ ~op[o].applied /\ ~op[o].raced /\ op[o].kind = "import" =>
    \A n \in op[o].own : Doubt(n) \/ db[n] = op[o].file

\* An operation with no race has left what its landing will make right.
PendingOf(o) ==
  op[o] # Nothing /\ op[o].applied /\ ~op[o].raced =>
    LET n == op[o].name
        to == op[o].to
    IN  /\ op[o].kind = "import" /\ (op[o].alone \/ ~Doubt(n)) => db[n] = op[o].file
        /\ op[o].kind = "create" /\ (op[o].alone \/ ~Doubt(n)) => db[n] = "made"
        /\ op[o].kind = "drop" => db[n] = Nothing
        /\ op[o].kind # "rename" /\ op[o].alone => n \in unkept \/ meta[n] = db[n]
        /\ op[o].kind = "rename" /\ n \notin loose /\ to \notin loose =>
             /\ db[n] = Nothing /\ db[to] # Nothing
             /\ origins[n] = db[to] \/ (n \in masked /\ origins[n] \in {"attached", Nothing})
             /\ origins[to] = Nothing \/ (to \in masked /\ origins[to] = "attached")
        /\ op[o].kind = "rename" => (n \in loose <=> to \in loose)

Owned == \A o \in Ops : OwnedBy(o)
Pending == \A o \in Ops : PendingOf(o)

TablesInv == TablesTypeOK /\ Formed /\ RowsRight /\ MapRight /\ Owned /\ Pending

\* A step makes no name certain that was not, and changes no table there is of
\* a name that stays so.
Steady == \A n \in Names : ~Doubt(n)' => ~Doubt(n) /\ (db[n] # Nothing => db'[n] = db[n])

-----------------------------------------------------------------------------
(* The operators of the model. *)

\* A name for a file is one it may have: the file's, or free.
LEMMA NameForIs ==
  ASSUME NEW own \in SUBSET Names, CanName(own) # {}
  PROVE  NameFor(own) \in Names /\ (NameFor(own) \in own \/ db[NameFor(own)] = Nothing)
<1>1. CanName(own) \subseteq Nat
  BY DEF CanName, Names
<1>2. \E n \in CanName(own) : \A k \in CanName(own) : n <= k
  <2>1. PICK n \in CanName(own) : \A k \in CanName(own) : <<k, n>> \notin OpToRel(<, Nat)
    BY <1>1, NatLessThanWellFounded, WFMin
  <2>2. \A a, b \in Nat : a < b => <<a, b>> \in OpToRel(<, Nat)
    BY DEF OpToRel
  <2>3. \A k \in CanName(own) : ~(k < n)
    BY <1>1, <2>1, <2>2
  <2>4. QED BY <1>1, <2>3
<1>3. NameFor(own) \in CanName(own)
  BY <1>2 DEF NameFor
<1>4. QED BY <1>3 DEF CanName, Exists

\* A call is in flight, and the others know of it.
LEMMA CallDoes ==
  ASSUME TablesTypeOK, NEW o \in Ops, NEW kind \in {"import", "create", "drop", "rename"},
         NEW n \in Names, NEW to \in Names, NEW f \in Files \cup {Nothing}, Call(o, kind, n, to, f)
  PROVE  /\ op[o] = Nothing /\ op' \in [Ops -> Call_Type \cup {Nothing}]
         /\ op'[o] # Nothing /\ op'[o].kind = kind /\ op'[o].name = n /\ op'[o].to = to /\ op'[o].file = f
         /\ op'[o].own = (IF kind = "import" THEN {k \in Names : origins[k] = f} ELSE {})
         /\ op'[o].applied = FALSE
         /\ \A p \in Ops : op[p] # Nothing => ~op'[o].alone
         /\ \A p \in Ops : op[p] # Nothing /\ {kind, op[p].kind} \cap {"drop", "rename"} # {} => op'[o].raced
         /\ \A p \in Ops : p # o /\ op[p] = Nothing => op'[p] = Nothing
         /\ \A p \in Ops : p # o /\ op[p] # Nothing =>
              /\ op'[p] # Nothing /\ ~op'[p].alone
              /\ op[p].raced \/ {kind, op[p].kind} \cap {"drop", "rename"} # {} => op'[p].raced
              /\ op'[p].kind = op[p].kind /\ op'[p].name = op[p].name /\ op'[p].to = op[p].to
              /\ op'[p].file = op[p].file /\ op'[p].applied = op[p].applied /\ op'[p].own = op[p].own
<1> DEFINE Races(p) == op[p] # Nothing /\ {kind, op[p].kind} \cap {"drop", "rename"} # {}
           own == IF kind = "import" THEN {k \in Names : origins[k] = f} ELSE {}
           new == [kind |-> kind, name |-> n, to |-> to, file |-> f, own |-> own,
                   applied |-> FALSE, alone |-> \A p \in Ops : op[p] = Nothing,
                   raced |-> \E p \in Ops : Races(p)]
<1>1. op[o] = Nothing /\ op' = [p \in Ops |-> IF p = o THEN new
                              ELSE IF op[p] = Nothing THEN Nothing
                              ELSE [op[p] EXCEPT !.alone = FALSE, !.raced = @ \/ Races(p)]]
  BY DEF Call
<1>2. new \in Call_Type
  BY DEF Call_Type
<1>3. new # Nothing
  BY <1>2, TablesAssumption
<1>4. ASSUME NEW p \in Ops, p # o, op[p] # Nothing
      PROVE  /\ op'[p] \in Call_Type /\ ~op'[p].alone
             /\ op[p].raced \/ {kind, op[p].kind} \cap {"drop", "rename"} # {} => op'[p].raced
             /\ op'[p].kind = op[p].kind /\ op'[p].name = op[p].name /\ op'[p].to = op[p].to
             /\ op'[p].file = op[p].file /\ op'[p].applied = op[p].applied /\ op'[p].own = op[p].own
  <2>1. op[p] \in Call_Type
    BY <1>4 DEF TablesTypeOK
  <2>2. op'[p] = [op[p] EXCEPT !.alone = FALSE, !.raced = @ \/ Races(p)]
    BY <1>1, <1>4
  <2>3. QED BY <1>4, <2>1, <2>2 DEF Call_Type
<1>5. op'[o] = new
  BY <1>1
<1>6. op' \in [Ops -> Call_Type \cup {Nothing}]
  BY <1>1, <1>2, <1>4, <1>5
<1>7. \A p \in Ops : p # o /\ op[p] = Nothing => op'[p] = Nothing
  BY <1>1
<1>8. /\ new.kind = kind /\ new.name = n /\ new.to = to /\ new.file = f /\ new.own = own /\ new.applied = FALSE
      /\ \A p \in Ops : op[p] # Nothing => ~new.alone
      /\ \A p \in Ops : Races(p) => new.raced
  OBVIOUS
<1> HIDE DEF new
<1>9. /\ op'[o].kind = kind /\ op'[o].name = n /\ op'[o].to = to /\ op'[o].file = f /\ op'[o].own = own
      /\ op'[o].applied = FALSE /\ op'[o] # Nothing
      /\ \A p \in Ops : op[p] # Nothing => ~op'[o].alone
      /\ \A p \in Ops : op[p] # Nothing /\ {kind, op[p].kind} \cap {"drop", "rename"} # {} => op'[o].raced
  BY <1>3, <1>5, <1>8
<1>10. op[o] = Nothing
  BY DEF Call
<1>11. QED
  BY <1>4, <1>6, <1>7, <1>9, <1>10, TablesAssumption

\* An operation's part in the database leaves the others as they are.
LEMMA AppliedDoes ==
  ASSUME TablesTypeOK, NEW o \in Ops, op[o] # Nothing, NEW n \in Names, Applied(o, n)
  PROVE  /\ op' \in [Ops -> Call_Type \cup {Nothing}]
         /\ op'[o] # Nothing /\ op'[o].applied = TRUE /\ op'[o].name = n
         /\ op'[o].kind = op[o].kind /\ op'[o].to = op[o].to /\ op'[o].file = op[o].file
         /\ op'[o].raced = op[o].raced /\ op'[o].alone = op[o].alone
         /\ \A p \in Ops : p # o => op'[p] = op[p]
<1>1. op[o] \in Call_Type
  BY DEF TablesTypeOK
<1>2. op'[o] = [op[o] EXCEPT !.applied = TRUE, !.name = n] /\ \A p \in Ops : p # o => op'[p] = op[p]
  BY DEF Applied, Put, TablesTypeOK
<1>3. op'[o] \in Call_Type
  BY <1>1, <1>2 DEF Call_Type
<1>4. op' \in [Ops -> Call_Type \cup {Nothing}]
  BY <1>2, <1>3 DEF Applied, Put, TablesTypeOK
<1>5. QED
  BY <1>1, <1>2, <1>3, <1>4, TablesAssumption DEF Call_Type

-----------------------------------------------------------------------------
(* What a step of one operation leaves of the rest. *)

\* What is said of another operation stays true.
LEMMA OtherKeeps ==
  ASSUME TablesInv, NEW o \in Ops, NEW p \in Ops, p # o, op[o] # Nothing, op[p] # Nothing, op'[p] = op[p], Steady
  PROVE  OwnedBy(p)' /\ PendingOf(p)'
<1>1. op[p] \in Call_Type /\ op[p].own \subseteq Names /\ op[p].name \in Names
      /\ op[p].kind \in {"import", "create", "drop", "rename"}
  BY DEF TablesInv, TablesTypeOK, Call_Type
<1>2. ~op[p].alone /\ (op[p].kind \in {"drop", "rename"} => op[p].raced)
      /\ (op[p].kind = "import" => op[p].file \in Files)
  BY DEF TablesInv, Formed
<1>3. OwnedBy(p)'
  <2>1. SUFFICES ASSUME ~op[p].applied, ~op[p].raced, op[p].kind = "import", NEW n \in op[p].own, ~Doubt(n)'
                 PROVE  db'[n] = op[p].file
    BY DEF OwnedBy
  <2>2. ~Doubt(n) /\ (db[n] # Nothing => db'[n] = db[n])
    BY <1>1, <2>1 DEF Steady
  <2>3. db[n] = op[p].file
    BY <2>1, <2>2 DEF TablesInv, Owned, OwnedBy
  <2>4. QED BY <1>2, <2>1, <2>2, <2>3, TablesAssumption DEF Sources
<1>4. PendingOf(p)'
  <2>1. SUFFICES ASSUME op[p].applied, ~op[p].raced, op[p].kind \in {"import", "create"}, ~Doubt(op[p].name)'
                 PROVE  db'[op[p].name] = IF op[p].kind = "import" THEN op[p].file ELSE "made"
    BY <1>1, <1>2 DEF PendingOf
  <2>2. ~Doubt(op[p].name) /\ (db[op[p].name] # Nothing => db'[op[p].name] = db[op[p].name])
    BY <1>1, <2>1 DEF Steady
  <2>3. db[op[p].name] = IF op[p].kind = "import" THEN op[p].file ELSE "made"
    BY <2>1, <2>2 DEF TablesInv, Pending, PendingOf
  <2>4. QED BY <1>2, <2>1, <2>2, <2>3, TablesAssumption DEF Sources
<1>5. QED BY <1>3, <1>4

\* The map stays true of the tables, of a step that leaves it as it is.
LEMMA MapKeeps ==
  ASSUME TablesInv, Steady, UNCHANGED <<origins, masked>>,
         \A n \in Names : ~Doubt(n)' /\ Untouched(n)' => Untouched(n) /\ db'[n] = db[n]
  PROVE  MapRight'
<1>1. SUFFICES ASSUME NEW n \in Names, ~Doubt(n)'
               PROVE  (origins[n] \in Files => db'[n] = origins[n]) /\ (Untouched(n)' => Entry(n)')
  BY DEF MapRight
<1>2. ~Doubt(n) /\ (db[n] # Nothing => db'[n] = db[n])
  BY <1>1 DEF Steady
<1>3. (origins[n] \in Files => db[n] = origins[n]) /\ (Untouched(n) => Entry(n))
  BY <1>2 DEF TablesInv, MapRight
<1>4. origins[n] \in Files => db'[n] = origins[n]
  BY <1>2, <1>3, TablesAssumption DEF Sources
<1>5. Untouched(n)' => Entry(n)'
  BY <1>1, <1>3 DEF Entry
<1>6. QED BY <1>4, <1>5

\* An operation that has begun to end makes no other less certain.
LEMMA SteadyIf ==
  ASSUME TablesInv, NEW o \in Ops, op[o] # Nothing, ~op[o].applied, \A p \in Ops : p # o => op'[p] = op[p],
         \A n \in Names : n \in loose => n \in loose',
         \A n \in Names : ~Doubt(n)' /\ ~Doubt(n) /\ db[n] # Nothing => db'[n] = db[n]
  PROVE  Steady
<1>1. ASSUME NEW n \in Names, Doubt(n) PROVE Doubt(n)'
  <2>1. CASE n \in loose
    BY <2>1 DEF Doubt
  <2>2. CASE n \notin loose
    <3>1. PICK p \in Ops : /\ op[p] # Nothing /\ op[p].applied /\ n \in Touches(p)
                           /\ op[p].raced \/ op[p].kind \in {"drop", "rename"}
      BY <1>1, <2>2 DEF Doubt
    <3>2. op'[p] = op[p]
      BY <3>1
    <3>3. QED BY <3>1, <3>2 DEF Doubt, Touches
  <2>3. QED BY <2>1, <2>2
<1>2. QED BY <1>1 DEF Steady

-----------------------------------------------------------------------------
(* The steps of an operation. *)

LEMMA TablesStart == TablesInit => TablesInv
<1> SUFFICES ASSUME TablesInit PROVE TablesInv
  OBVIOUS
<1>1. TablesTypeOK
  BY TablesAssumption DEF TablesInit, TablesTypeOK, Names
<1>2. Formed /\ Owned /\ Pending
  BY DEF TablesInit, Formed, Owned, OwnedBy, Pending, PendingOf
<1>3. RowsRight /\ MapRight
  BY TablesAssumption DEF TablesInit, RowsRight, MapRight, Entry, Sources
<1>4. QED BY <1>1, <1>2, <1>3 DEF TablesInv

\* An import with no race finds the tables of its file where the map says.
LEMMA CallKeeps ==
  ASSUME TablesInv, NEW o \in Ops, NEW kind \in {"import", "create", "drop", "rename"},
         NEW n \in Names, NEW to \in Names, NEW f \in Files \cup {Nothing}, Call(o, kind, n, to, f),
         kind = "import" => f \in Files, kind = "rename" => n # to
  PROVE  TablesInv'
<1>1. TablesTypeOK /\ Formed /\ RowsRight
  BY DEF TablesInv
<1>2. /\ op[o] = Nothing /\ op' \in [Ops -> Call_Type \cup {Nothing}]
      /\ op'[o] # Nothing /\ op'[o].kind = kind /\ op'[o].name = n /\ op'[o].to = to /\ op'[o].file = f
      /\ op'[o].own = (IF kind = "import" THEN {k \in Names : origins[k] = f} ELSE {})
      /\ op'[o].applied = FALSE
      /\ \A p \in Ops : op[p] # Nothing => ~op'[o].alone
      /\ \A p \in Ops : op[p] # Nothing /\ {kind, op[p].kind} \cap {"drop", "rename"} # {} => op'[o].raced
      /\ \A p \in Ops : p # o /\ op[p] = Nothing => op'[p] = Nothing
      /\ \A p \in Ops : p # o /\ op[p] # Nothing =>
           /\ op'[p] # Nothing /\ ~op'[p].alone
           /\ op[p].raced \/ {kind, op[p].kind} \cap {"drop", "rename"} # {} => op'[p].raced
           /\ op'[p].kind = op[p].kind /\ op'[p].name = op[p].name /\ op'[p].to = op[p].to
           /\ op'[p].file = op[p].file /\ op'[p].applied = op[p].applied /\ op'[p].own = op[p].own
  BY <1>1, CallDoes
<1>3. UNCHANGED <<db, meta, origins, linked, tabbed, unkept, loose, masked>> /\ calls' = calls + 1 /\ calls < MaxCalls
  BY DEF Call, Another
<1>4. TablesTypeOK' /\ RowsRight'
  BY <1>1, <1>2, <1>3, TablesAssumption DEF TablesTypeOK, RowsRight
<1>5. Formed'
  <2>1. ASSUME NEW p \in Ops, op'[p] # Nothing
        PROVE  /\ op'[p].kind = "import" => op'[p].file \in Files
               /\ op'[p].kind = "rename" => op'[p].name # op'[p].to
    <3>1. CASE p = o
      BY <1>2, <3>1
    <3>2. CASE p # o
      BY <1>1, <1>2, <2>1, <3>2 DEF Formed
    <3> QED
      BY <3>1, <3>2
  <2>2. ASSUME NEW p \in Ops, NEW q \in Ops, op'[p] # Nothing, op'[q] # Nothing, p # q
        PROVE  ~op'[p].alone /\ (op'[p].kind \in {"drop", "rename"} => op'[p].raced /\ op'[q].raced)
    <3>1. CASE p = o
      BY <1>2, <2>2, <3>1
    <3>2. CASE q = o
      BY <1>2, <2>2, <3>2
    <3>3. CASE p # o /\ q # o
      BY <1>1, <1>2, <2>2, <3>3 DEF Formed
    <3> QED
      BY <3>1, <3>2, <3>3
  <2> QED
    BY <2>1, <2>2 DEF Formed
<1>6. ASSUME NEW k \in Names, Doubt(k) PROVE Doubt(k)'
  <2>1. CASE k \in loose
    BY <1>3, <2>1 DEF Doubt
  <2>2. CASE k \notin loose
    <3>1. PICK p \in Ops : /\ op[p] # Nothing /\ op[p].applied /\ k \in Touches(p)
                           /\ op[p].raced \/ op[p].kind \in {"drop", "rename"}
      BY <1>6, <2>2 DEF Doubt
    <3>2. op'[p] # Nothing /\ op'[p].applied /\ k \in Touches(p)' /\ (op'[p].raced \/ op'[p].kind \in {"drop", "rename"})
      BY <1>2, <3>1 DEF Touches
    <3>3. QED BY <3>2 DEF Doubt
  <2>3. QED BY <2>1, <2>2
<1>7. Steady
  BY <1>3, <1>6 DEF Steady
<1>8. MapRight'
  <2>1. ASSUME NEW k \in Names, Untouched(k)' PROVE Untouched(k)
    BY <1>2, <2>1 DEF Untouched, Touches
  <2>2. QED BY <1>3, <1>7, <2>1, MapKeeps
<1>9. Owned'
  <2>1. ASSUME kind = "import", NEW k \in op'[o].own, ~Doubt(k)' PROVE db'[k] = f
    <3>1. k \in Names /\ origins[k] = f /\ f \in Files
      BY <1>2, <2>1
    <3>2. ~Doubt(k)
      BY <1>6, <2>1, <3>1
    <3>3. QED BY <1>3, <3>1, <3>2 DEF TablesInv, MapRight
  <2>2. OwnedBy(o)'
    BY <1>2, <2>1 DEF OwnedBy
  <2>3. ASSUME NEW p \in Ops, p # o, op[p] # Nothing PROVE OwnedBy(p)'
    <3>1. OwnedBy(p) /\ op[p].own \subseteq Names
      BY <1>1, <2>3 DEF TablesInv, Owned, TablesTypeOK, Call_Type
    <3>2. QED BY <1>2, <1>3, <1>6, <2>3, <3>1 DEF OwnedBy
  <2>4. QED BY <1>2, <2>2, <2>3 DEF Owned, OwnedBy
<1>10. Pending'
  <2>1. ASSUME NEW p \in Ops, p # o, op[p] # Nothing PROVE PendingOf(p)'
    <3>1. PendingOf(p) /\ op[p].name \in Names /\ op[p].to \in Names
      BY <1>1, <2>1 DEF TablesInv, Pending, TablesTypeOK, Call_Type
    <3>2. ~op'[p].alone /\ (op'[p].kind \in {"drop", "rename"} => op'[p].raced)
      BY <1>2, <2>1
    <3>3. op'[p].kind = op[p].kind /\ op'[p].name = op[p].name /\ op'[p].file = op[p].file
          /\ op'[p].applied = op[p].applied /\ (op[p].raced => op'[p].raced)
      BY <1>2, <2>1
    <3>4. PICK k \in Names : k = op[p].name
      BY <3>1
    <3>5. op'[p].name = k /\ (~Doubt(k)' => ~Doubt(k))
      BY <1>6, <3>3, <3>4
    <3>6. QED BY <1>3, <2>1, <3>1, <3>2, <3>3, <3>4, <3>5 DEF PendingOf
  <2>2. PendingOf(o)'
    BY <1>2 DEF PendingOf
  <2>3. QED BY <1>2, <2>1, <2>2 DEF Pending, PendingOf
<1>11. QED BY <1>4, <1>5, <1>8, <1>9, <1>10 DEF TablesInv

\* An operation that ends with nothing of its names changed but those that are
\* loose from then on.
LEMMA EndKeeps ==
  ASSUME TablesInv, NEW o \in Ops, op[o] # Nothing, ~op[o].applied, op' = Put(op, o, Nothing),
         db' \in [Names -> Sources \cup {Nothing}], loose' \in SUBSET Names, loose \subseteq loose',
         \A n \in Names : n \notin loose' => db'[n] = db[n],
         UNCHANGED <<meta, unkept, origins, linked, tabbed, calls, masked>>
  PROVE  TablesInv'
<1>1. TablesTypeOK /\ Formed
  BY DEF TablesInv
<1>2. op'[o] = Nothing /\ \A p \in Ops : p # o => op'[p] = op[p]
  BY <1>1 DEF TablesTypeOK, Put
<1>3. TablesTypeOK' /\ Formed'
  BY <1>1, <1>2 DEF TablesTypeOK, Put, Formed
<1>4. \A n \in Names : ~Doubt(n)' => db'[n] = db[n]
  BY DEF Doubt
<1>5. Steady
  BY <1>2, <1>4, SteadyIf
<1>6. MapRight'
  <2>1. ASSUME NEW n \in Names, Untouched(n)' PROVE Untouched(n)
    BY <1>2, <2>1 DEF Untouched, Touches
  <2>2. QED BY <1>4, <1>5, <2>1, MapKeeps
<1>7. RowsRight'
  BY DEF TablesInv, RowsRight
<1>8. Owned' /\ Pending'
  <2>1. OwnedBy(o)' /\ PendingOf(o)'
    BY <1>2 DEF OwnedBy, PendingOf
  <2>2. ASSUME NEW p \in Ops, p # o PROVE OwnedBy(p)' /\ PendingOf(p)'
    <3>1. CASE op[p] = Nothing
      BY <1>2, <2>2, <3>1 DEF OwnedBy, PendingOf
    <3>2. CASE op[p] # Nothing
      BY <1>2, <1>5, <2>2, <3>2, OtherKeeps
    <3>3. QED BY <3>1, <3>2
  <2>3. QED BY <2>1, <2>2 DEF Owned, Pending
<1>9. QED BY <1>3, <1>6, <1>7, <1>8 DEF TablesInv

\* A table and its row are what the operation says, and no name that nothing
\* races for had another table.
LEMMA OneNameKeeps ==
  ASSUME TablesInv, NEW o \in Ops, op[o] # Nothing, ~op[o].applied,
         op[o].kind \in {"import", "create", "drop"},
         NEW n \in Names, Applied(o, n), NEW x \in Sources \cup {Nothing},
         db' = Put(db, n, x), Row(n, x), UNCHANGED <<origins, linked, tabbed, calls, loose, masked>>,
         op[o].kind = "import" => x = op[o].file /\ (n \in op[o].own \/ db[n] = Nothing),
         op[o].kind = "create" => x = "made" /\ db[n] = Nothing,
         op[o].kind = "drop" => x = Nothing
  PROVE  TablesInv'
<1>1. TablesTypeOK /\ Formed
  BY DEF TablesInv
<1>2. /\ op' \in [Ops -> Call_Type \cup {Nothing}] /\ op'[o] # Nothing /\ op'[o].applied = TRUE /\ op'[o].name = n
      /\ op'[o].kind = op[o].kind /\ op'[o].to = op[o].to /\ op'[o].file = op[o].file
      /\ op'[o].raced = op[o].raced /\ op'[o].alone = op[o].alone /\ \A p \in Ops : p # o => op'[p] = op[p]
  BY <1>1, AppliedDoes
<1>3. /\ db' \in [Names -> Sources \cup {Nothing}] /\ meta' \in [Names -> Sources \cup {Nothing}]
      /\ db'[n] = x /\ (n \in unkept' \/ meta'[n] = x) /\ unkept' \in SUBSET Names
      /\ \A k \in Names \ {n} : db'[k] = db[k] /\ meta'[k] = meta[k] /\ (k \in unkept' <=> k \in unkept)
  BY <1>1 DEF TablesTypeOK, Put, Row
<1>4. TablesTypeOK' /\ Formed'
  BY <1>1, <1>2, <1>3 DEF TablesTypeOK, Formed
<1>5. ASSUME NEW k \in Names, ~Doubt(k)', ~Doubt(k), db[k] # Nothing PROVE db'[k] = db[k]
  <2>1. CASE k # n
    BY <1>3, <2>1
  <2>2. CASE k = n
    <3>1. n \in Touches(o)'
      BY <1>2 DEF Touches
    <3>2. ~op[o].raced /\ op[o].kind # "drop"
      BY <1>2, <1>5, <2>2, <3>1 DEF Doubt
    <3>3. op[o].kind = "import" /\ n \in op[o].own
      BY <1>5, <2>2, <3>2
    <3>4. db[n] = op[o].file
      BY <1>5, <2>2, <3>2, <3>3 DEF TablesInv, Owned, OwnedBy
    <3>5. QED BY <1>3, <2>2, <3>3, <3>4
  <2>3. QED BY <2>1, <2>2
<1>6. Steady
  BY <1>2, <1>5, SteadyIf
<1>7. MapRight'
  <2>1. ASSUME NEW k \in Names, Untouched(k)' PROVE Untouched(k) /\ db'[k] = db[k]
    <3>1. n \in Touches(o)'
      BY <1>2 DEF Touches
    <3>2. k # n
      BY <1>2, <2>1, <3>1 DEF Untouched
    <3>3. Untouched(k)
      BY <1>2, <2>1 DEF Untouched, Touches
    <3>4. QED BY <1>3, <3>2, <3>3
  <2>2. QED BY <1>6, <2>1, MapKeeps
<1>8. RowsRight'
  BY <1>3 DEF TablesInv, RowsRight
<1>9. Owned' /\ Pending'
  <2>1. OwnedBy(o)' /\ PendingOf(o)'
    BY <1>2, <1>3 DEF OwnedBy, PendingOf
  <2>2. ASSUME NEW p \in Ops, p # o PROVE OwnedBy(p)' /\ PendingOf(p)'
    <3>1. CASE op[p] = Nothing
      BY <1>2, <2>2, <3>1 DEF OwnedBy, PendingOf
    <3>2. CASE op[p] # Nothing
      BY <1>2, <1>6, <2>2, <3>2, OtherKeeps
    <3>3. QED BY <3>1, <3>2
  <2>3. QED BY <2>1, <2>2 DEF Owned, Pending
<1>10. QED BY <1>4, <1>7, <1>8, <1>9 DEF TablesInv

LEMMA RenameKeeps ==
  ASSUME TablesInv, NEW o \in Ops, op[o] # Nothing, ~op[o].applied, Rename(o), UNCHANGED <<origins, linked, tabbed, calls, masked>>
  PROVE  TablesInv'
<1>0. op[o] \in Call_Type
  BY DEF TablesInv, TablesTypeOK
<1> PICK old \in Names, new \in Names : old = op[o].name /\ new = op[o].to
  BY <1>0 DEF Call_Type
<1>1. /\ TablesTypeOK /\ Formed /\ op[o].kind = "rename" /\ old # new
      /\ Applied(o, old) /\ db[old] # Nothing /\ db[new] = Nothing /\ MoveRow(old, new)
      /\ loose' = IF {old, new} \cap loose # {} THEN loose \cup {old, new} ELSE loose
  BY DEF Rename, TablesInv, Formed
<1>2. /\ op' \in [Ops -> Call_Type \cup {Nothing}] /\ op'[o] # Nothing /\ op'[o].applied = TRUE /\ op'[o].name = old
      /\ op'[o].kind = "rename" /\ op'[o].to = new /\ op'[o].file = op[o].file
      /\ op'[o].raced = op[o].raced /\ op'[o].alone = op[o].alone /\ \A p \in Ops : p # o => op'[p] = op[p]
  BY <1>1, AppliedDoes
<1>3. /\ db' \in [Names -> Sources \cup {Nothing}] /\ meta' \in [Names -> Sources \cup {Nothing}]
      /\ db'[old] = Nothing /\ db'[new] = db[old] /\ unkept' \in SUBSET Names
      /\ \A k \in Names \ {old, new} : db'[k] = db[k] /\ meta'[k] = meta[k] /\ (k \in unkept' <=> k \in unkept)
  BY <1>1 DEF Rename, MoveRow, TablesTypeOK, Put
<1>4. loose \subseteq loose' /\ loose' \in SUBSET Names
  BY <1>1 DEF TablesTypeOK
<1>5. TablesTypeOK' /\ Formed'
  BY <1>1, <1>2, <1>3, <1>4 DEF TablesTypeOK, Formed
<1>6. Touches(o)' = {old, new}
  BY <1>2 DEF Touches
<1>7. \A k \in {old, new} : Doubt(k)' /\ ~Untouched(k)'
  BY <1>2, <1>6 DEF Doubt, Untouched
<1>8. Steady
  BY <1>2, <1>3, <1>4, <1>7, SteadyIf
<1>9. MapRight'
  <2>1. ASSUME NEW k \in Names, Untouched(k)' PROVE Untouched(k) /\ db'[k] = db[k]
    <3>1. Untouched(k)
      BY <1>2, <2>1 DEF Untouched, Touches
    <3>2. QED BY <1>3, <1>7, <2>1, <3>1
  <2>2. QED BY <1>8, <2>1, MapKeeps
<1>10. RowsRight'
  <2>1. ASSUME NEW k \in {old, new}, k \notin loose', k \notin unkept' PROVE meta'[k] = db'[k]
    <3>1. old \notin loose /\ new \notin loose
      BY <1>1, <2>1
    <3>2. meta' = Put(Put(meta, old, Nothing), new, meta[old]) /\ unkept' = (unkept \ {old, new}) \cup {m \in {new} : old \in unkept}
      BY <1>1, <2>1 DEF MoveRow
    <3>3. meta'[old] = Nothing /\ meta'[new] = meta[old]
      BY <1>1, <3>2 DEF Put, TablesTypeOK
    <3>4. k = new => meta[old] = db[old]
      BY <2>1, <3>1, <3>2 DEF TablesInv, RowsRight
    <3>5. QED BY <1>3, <3>3, <3>4
  <2>2. QED BY <1>3, <1>4, <2>1 DEF TablesInv, RowsRight
<1>11. PendingOf(o)'
  <2>1. SUFFICES ASSUME ~op[o].raced, old \notin loose, new \notin loose
                 PROVE  /\ origins[old] = db[old] \/ (old \in masked /\ origins[old] \in {"attached", Nothing})
                        /\ origins[new] = Nothing \/ (new \in masked /\ origins[new] = "attached")
    BY <1>1, <1>2, <1>3 DEF PendingOf
  <2>2. \A p \in Ops : ~(op[p] # Nothing /\ op[p].applied)
    BY <1>1, <2>1 DEF Formed
  <2>3. Entry(old) /\ Entry(new)
    BY <2>1, <2>2 DEF TablesInv, MapRight, Doubt, Untouched
  <2>4. QED BY <1>1, <2>3 DEF Entry
<1>12. Owned' /\ Pending'
  <2>1. OwnedBy(o)'
    BY <1>2 DEF OwnedBy
  <2>2. ASSUME NEW p \in Ops, p # o PROVE OwnedBy(p)' /\ PendingOf(p)'
    <3>1. CASE op[p] = Nothing
      BY <1>2, <2>2, <3>1 DEF OwnedBy, PendingOf
    <3>2. CASE op[p] # Nothing
      BY <1>2, <1>8, <2>2, <3>2, OtherKeeps
    <3>3. QED BY <3>1, <3>2
  <2>3. QED BY <1>11, <2>1, <2>2 DEF Owned, Pending
<1>13. QED BY <1>5, <1>9, <1>10, <1>12 DEF TablesInv

LEMMA ApplyKeeps ==
  ASSUME TablesInv, NEW o \in Ops, Apply(o)
  PROVE  TablesInv'
<1>1. /\ TablesTypeOK /\ Formed /\ op[o] # Nothing /\ ~op[o].applied /\ op[o] \in Call_Type
      /\ UNCHANGED <<origins, linked, tabbed, calls, masked>>
  BY DEF TablesInv, Apply, TablesTypeOK
<1>2. ASSUME NEW n \in Names, NEW src \in Sources, Half(o, n, src) PROVE TablesInv'
  <2>1. /\ op' = Put(op, o, Nothing) /\ db' \in [Names -> Sources \cup {Nothing}]
        /\ loose' \in SUBSET Names /\ loose \subseteq loose'
        /\ \A k \in Names : k \notin loose' => db'[k] = db[k]
        /\ UNCHANGED <<meta, unkept>>
    BY <1>1, <1>2 DEF Half, Put, TablesTypeOK
  <2>2. QED BY <1>1, <2>1, EndKeeps
<1>3. CASE Import(o)
  <2>1. op[o].kind = "import" /\ op[o].file \in Files /\ op[o].file \in Sources
    BY <1>1, <1>3 DEF Import, Formed, Sources
  <2>2. PICK n \in Names : n = NameFor(op[o].own) /\ (n \in op[o].own \/ db[n] = Nothing)
    BY <1>1, <1>3, NameForIs DEF Import, Call_Type
  <2>3. CASE Half(o, n, op[o].file)
    BY <1>2, <2>1, <2>3
  <2>4. CASE ~Half(o, n, op[o].file)
    <3>1. Applied(o, n) /\ db' = Put(db, n, op[o].file) /\ Row(n, op[o].file) /\ UNCHANGED loose
      BY <1>3, <2>2, <2>4 DEF Import
    <3>2. QED BY <1>1, <2>1, <2>2, <3>1, OneNameKeeps
  <2>5. QED BY <2>3, <2>4
<1>4. CASE Create(o)
  <2>1. PICK n \in Names : n = op[o].name
    BY <1>1 DEF Call_Type
  <2>2. "made" \in Sources /\ op[o].kind = "create" /\ db[n] = Nothing
    BY <1>4, <2>1 DEF Create, Sources
  <2>3. CASE Half(o, n, "made")
    BY <1>2, <2>2, <2>3
  <2>4. CASE ~Half(o, n, "made")
    <3>1. Applied(o, n) /\ db' = Put(db, n, "made") /\ Row(n, "made") /\ UNCHANGED loose
      BY <1>4, <2>1, <2>4 DEF Create
    <3>2. QED BY <1>1, <2>2, <3>1, OneNameKeeps
  <2>5. QED BY <2>3, <2>4
<1>5. CASE Drop(o)
  <2>1. PICK n \in Names : n = op[o].name
    BY <1>1 DEF Call_Type
  <2>2. op[o].kind = "drop" /\ Applied(o, n) /\ db' = Put(db, n, Nothing) /\ Row(n, Nothing) /\ UNCHANGED loose
    BY <1>5, <2>1 DEF Drop
  <2>3. QED BY <1>1, <2>2, OneNameKeeps
<1>6. CASE Rename(o)
  BY <1>1, <1>6, RenameKeeps
<1>7. CASE op' = Put(op, o, Nothing) /\ UNCHANGED <<db, meta, unkept, loose>>
  <2>1. db' \in [Names -> Sources \cup {Nothing}] /\ loose' \in SUBSET Names
    BY <1>1, <1>7 DEF TablesTypeOK
  <2>2. QED BY <1>1, <1>7, <2>1, EndKeeps
<1>8. QED
  BY <1>3, <1>4, <1>5, <1>6, <1>7 DEF Apply

\* The map follows: what nothing raced with is right, the rest is no longer
\* vouched for.
LEMMA LandingKeeps ==
  ASSUME TablesInv, NEW o \in Ops, op[o] # Nothing, op[o].applied, op' = Put(op, o, Nothing),
         NEW ns \in SUBSET Names, ns = Touches(o), loose' \in SUBSET Names, loose \ ns \subseteq loose',
         op[o].raced => ns \subseteq loose',
         ~op[o].alone => loose \subseteq loose',
         UNCHANGED <<db, meta, unkept>>,
         \A n \in ns \ loose' : (n \in unkept \/ meta[n] = db[n]) /\ (~Doubt(n)' => Entry(n)'),
         \A n \in Names \ ns : origins'[n] = origins[n] /\ (n \in masked' <=> n \in masked)
  PROVE  Formed' /\ RowsRight' /\ MapRight' /\ Owned' /\ Pending'
<1>1. TablesTypeOK /\ Formed
  BY DEF TablesInv
<1>2. op'[o] = Nothing /\ \A p \in Ops : p # o => op'[p] = op[p]
  BY <1>1 DEF TablesTypeOK, Put
<1>3. Formed'
  BY <1>1, <1>2 DEF Formed
<1>4. RowsRight'
  BY DEF TablesInv, RowsRight
<1>5. ASSUME NEW n \in Names, Doubt(n), n \notin ns PROVE Doubt(n)'
  <2>1. CASE n \in loose
    BY <1>5, <2>1 DEF Doubt
  <2>2. CASE n \notin loose
    <3>1. PICK p \in Ops : /\ op[p] # Nothing /\ op[p].applied /\ n \in Touches(p)
                           /\ op[p].raced \/ op[p].kind \in {"drop", "rename"}
      BY <1>5, <2>2 DEF Doubt
    <3>2. op'[p] = op[p]
      BY <1>2, <1>5, <3>1
    <3>3. QED BY <3>1, <3>2 DEF Doubt, Touches
  <2>3. QED BY <2>1, <2>2
<1>6. MapRight'
  <2>1. SUFFICES ASSUME NEW n \in Names, ~Doubt(n)'
                 PROVE  (origins'[n] \in Files => db[n] = origins'[n]) /\ (Untouched(n)' => Entry(n)')
    BY DEF MapRight
  <2>2. n \notin loose'
    BY <2>1 DEF Doubt
  <2>3. CASE n \in ns
    <3>1. Entry(n)'
      BY <2>1, <2>2, <2>3
    <3>2. QED BY <3>1, TablesAssumption DEF Entry, Sources
  <2>4. CASE n \notin ns
    <3>1. ~Doubt(n)
      BY <1>5, <2>1, <2>4
    <3>2. Untouched(n)' => Untouched(n)
      BY <1>2, <2>4 DEF Untouched, Touches
    <3>3. QED BY <2>4, <3>1, <3>2 DEF TablesInv, MapRight, Entry
  <2>5. QED BY <2>3, <2>4
<1>7. ASSUME NEW p \in Ops, p # o, op[p] # Nothing PROVE Steady
  <2>1. ~op[o].alone /\ (op[o].kind \in {"drop", "rename"} => op[o].raced)
    BY <1>1, <1>7 DEF Formed
  <2>2. ASSUME NEW n \in ns, Doubt(n) PROVE Doubt(n)'
    <3>1. CASE n \in loose \/ op[o].raced
      BY <2>1, <2>2, <3>1 DEF Doubt
    <3>2. CASE n \notin loose /\ ~op[o].raced
      <4>1. PICK q \in Ops : /\ op[q] # Nothing /\ op[q].applied /\ n \in Touches(q)
                             /\ op[q].raced \/ op[q].kind \in {"drop", "rename"}
        BY <2>2, <3>2 DEF Doubt
      <4>2. op'[q] = op[q]
        BY <1>2, <2>1, <3>2, <4>1
      <4>3. QED BY <4>1, <4>2 DEF Doubt, Touches
    <3>3. QED BY <3>1, <3>2
  <2>3. QED BY <1>5, <2>2 DEF Steady
<1>8. Owned' /\ Pending'
  <2>1. OwnedBy(o)' /\ PendingOf(o)'
    BY <1>2 DEF OwnedBy, PendingOf
  <2>2. ASSUME NEW p \in Ops, p # o PROVE OwnedBy(p)' /\ PendingOf(p)'
    <3>1. CASE op[p] = Nothing
      BY <1>2, <2>2, <3>1 DEF OwnedBy, PendingOf
    <3>2. CASE op[p] # Nothing
      BY <1>2, <1>7, <2>2, <3>2, OtherKeeps
    <3>3. QED BY <3>1, <3>2
  <2>3. QED BY <2>1, <2>2 DEF Owned, Pending
<1>9. QED BY <1>3, <1>4, <1>6, <1>8

LEMMA LandKeeps ==
  ASSUME TablesInv, NEW o \in Ops, Land(o)
  PROVE  TablesInv'
<1>0. op[o] \in Call_Type
  BY DEF TablesInv, Land, TablesTypeOK
<1> PICK n \in Names, to \in Names : n = op[o].name /\ to = op[o].to
  BY <1>0 DEF Call_Type
<1>1. /\ TablesTypeOK /\ Formed /\ op[o] # Nothing /\ op[o].applied
      /\ op' = Put(op, o, Nothing) /\ UNCHANGED <<db, meta, linked, unkept, calls>>
      /\ tabbed' = IF op[o].kind = "import" THEN Put(tabbed, n, tabbed[n] \cup {op[o].file}) ELSE tabbed
  BY <1>0 DEF TablesInv, Land, Landed, Call_Type
<1>2. op' \in [Ops -> Call_Type \cup {Nothing}] /\ tabbed' \in [Names -> SUBSET Files]
  <2>1. op[o].kind = "import" => op[o].file \in Files
    BY <1>1 DEF Formed
  <2>2. QED BY <1>1, <2>1 DEF TablesTypeOK, Put
<1>3. PendingOf(o)
  BY DEF TablesInv, Pending
<1>4. CASE op[o].kind # "rename"
  <2>1. PICK x \in Sources \cup {Nothing} :
          /\ origins' = Put(origins, n, x) /\ Landed(o, {n})
          /\ x = IF op[o].kind = "import" THEN op[o].file ELSE IF op[o].kind = "create" THEN "made" ELSE Nothing
    <3>1. CASE op[o].kind = "import"
      <4>1. op[o].file \in Sources
        BY <1>1, <3>1 DEF Formed, Sources
      <4>2. QED BY <3>1, <4>1 DEF Land
    <3>2. CASE op[o].kind = "create"
      BY <3>2 DEF Land, Sources
    <3>3. CASE op[o].kind = "drop"
      BY <3>3 DEF Land
    <3>4. QED BY <1>0, <1>4, <3>1, <3>2, <3>3 DEF Call_Type
  <2>2. /\ origins' \in [Names -> Sources \cup {"attached", Nothing}] /\ origins'[n] = x
        /\ \A k \in Names \ {n} : origins'[k] = origins[k]
        /\ masked' = masked \ {n} /\ loose' \in SUBSET Names
        /\ loose' = IF op[o].raced THEN loose \cup {n} ELSE IF op[o].alone THEN loose \ {n} ELSE loose
    BY <1>1, <2>1 DEF Landed, Put, TablesTypeOK
  <2>3. Touches(o) = {n}
    BY <1>4 DEF Touches
  <2>4. ASSUME n \notin loose' PROVE (n \in unkept \/ meta[n] = db[n]) /\ (~Doubt(n)' => Entry(n)')
    <3>1. ~op[o].raced
      BY <2>2, <2>4
    <3>2. n \in unkept \/ meta[n] = db[n]
      BY <1>1, <1>3, <1>4, <2>2, <2>4, <3>1 DEF PendingOf, TablesInv, RowsRight
    <3>3. CASE op[o].kind = "drop"
      BY <1>1, <1>3, <2>1, <2>2, <3>1, <3>2, <3>3 DEF PendingOf, Entry
    <3>4. CASE op[o].kind \in {"import", "create"}
      <4>1. CASE op[o].alone \/ ~Doubt(n)
        BY <1>1, <1>3, <2>1, <2>2, <3>1, <3>2, <3>4, <4>1 DEF PendingOf, Entry
      <4>2. CASE ~op[o].alone /\ Doubt(n)
        <5>1. n \notin loose
          BY <2>2, <2>4, <4>2
        <5>2. PICK q \in Ops : /\ op[q] # Nothing /\ op[q].applied /\ n \in Touches(q)
                               /\ op[q].raced \/ op[q].kind \in {"drop", "rename"}
          BY <4>2, <5>1 DEF Doubt
        <5>3. q # o
          BY <3>1, <3>4, <5>2
        <5>4. op'[q] = op[q]
          BY <1>1, <5>3 DEF Put, TablesTypeOK
        <5>5. Doubt(n)'
          BY <5>2, <5>4 DEF Doubt, Touches
        <5>6. QED
          BY <3>2, <5>5
      <4>3. QED BY <4>1, <4>2
    <3>5. QED BY <1>0, <1>4, <3>3, <3>4 DEF Call_Type
  <2>5. Formed' /\ RowsRight' /\ MapRight' /\ Owned' /\ Pending'
    BY <1>1, <2>2, <2>3, <2>4, LandingKeeps
  <2>6. TablesTypeOK'
    <3>1. /\ {linked, unkept, masked} \subseteq SUBSET Names /\ calls \in 0 .. MaxCalls
          /\ db \in [Names -> Sources \cup {Nothing}] /\ meta \in [Names -> Sources \cup {Nothing}]
      BY <1>1 DEF TablesTypeOK
    <3>2. {linked', unkept', loose', masked'} \subseteq SUBSET Names
      BY <1>1, <2>2, <3>1
    <3>3. QED BY <1>1, <1>2, <2>2, <3>1, <3>2 DEF TablesTypeOK
  <2>7. QED BY <2>5, <2>6 DEF TablesInv
<1>5. CASE op[o].kind = "rename"
  <2>1. /\ n # to
        /\ origins' = IF origins[n] = Nothing THEN origins ELSE Put(Put(origins, n, Nothing), to, origins[n])
        /\ masked' = IF n \in masked THEN masked \cup {to} ELSE masked \ {to}
        /\ loose' = IF op[o].raced THEN loose \cup {n, to} ELSE loose
    BY <1>1, <1>5 DEF Land, Formed
  <2>2. /\ origins' \in [Names -> Sources \cup {"attached", Nothing}]
        /\ origins[n] = Nothing => origins' = origins
        /\ origins[n] # Nothing => origins'[n] = Nothing /\ origins'[to] = origins[n]
        /\ \A k \in Names \ {n, to} : origins'[k] = origins[k] /\ (k \in masked' <=> k \in masked)
    BY <1>1, <2>1 DEF Put, TablesTypeOK
  <2>3. Touches(o) = {n, to}
    BY <1>5 DEF Touches
  <2>4. ASSUME NEW k \in {n, to}, k \notin loose' PROVE (k \in unkept \/ meta[k] = db[k]) /\ Entry(k)'
    <3>1. ~op[o].raced /\ k \notin loose
      BY <2>1, <2>4
    <3>2. n \notin loose /\ to \notin loose
      BY <1>1, <1>3, <1>5, <2>4, <3>1 DEF PendingOf
    <3>3. /\ db[n] = Nothing /\ db[to] # Nothing
          /\ origins[n] = db[to] \/ (n \in masked /\ origins[n] \in {"attached", Nothing})
          /\ origins[to] = Nothing \/ (to \in masked /\ origins[to] = "attached")
      BY <1>1, <1>3, <1>5, <3>1, <3>2 DEF PendingOf
    <3>4. k \in unkept \/ meta[k] = db[k]
      BY <3>1 DEF TablesInv, RowsRight
    <3>5. CASE origins[n] = Nothing
      BY <1>1, <2>1, <2>2, <2>4, <3>3, <3>4, <3>5 DEF Entry
    <3>6. CASE origins[n] # Nothing
      BY <1>1, <2>1, <2>2, <2>4, <3>3, <3>4, <3>6 DEF Entry
    <3>7. QED BY <3>5, <3>6
  <2>5. masked' \in SUBSET Names /\ loose' \in SUBSET Names
    BY <1>1, <2>1 DEF TablesTypeOK
  <2>6. Formed' /\ RowsRight' /\ MapRight' /\ Owned' /\ Pending'
    <3>1. {n, to} \in SUBSET Names /\ loose \subseteq loose' /\ (op[o].raced => {n, to} \subseteq loose')
      BY <2>1
    <3>2. QED BY <1>1, <2>2, <2>3, <2>4, <2>5, <3>1, LandingKeeps
  <2>7. TablesTypeOK'
    BY <1>1, <1>2, <2>2, <2>5 DEF TablesTypeOK
  <2>8. QED BY <2>6, <2>7 DEF TablesInv
<1>6. QED BY <1>4, <1>5

-----------------------------------------------------------------------------
(* What goes past the map. *)

LEMMA ExecuteKeeps ==
  ASSUME TablesInv, NEW n \in Names, NEW src \in {"made", Nothing}, Execute(n, src)
  PROVE  TablesInv'
<1>1. /\ TablesTypeOK /\ Formed /\ UNCHANGED <<meta, origins, linked, tabbed, unkept, masked>>
      /\ calls' = calls + 1 /\ calls < MaxCalls /\ loose' = loose \cup {n} /\ db' = [db EXCEPT ![n] = src]
      /\ op' = [o \in Ops |-> IF op[o] = Nothing THEN Nothing ELSE [op[o] EXCEPT !.raced = TRUE]]
  BY DEF TablesInv, Execute, Another, Put
<1>2. db' \in [Names -> Sources \cup {Nothing}] /\ \A k \in Names \ {n} : db'[k] = db[k]
  BY <1>1 DEF TablesTypeOK, Sources
<1>3. \A o \in Ops : op[o] = Nothing => op'[o] = Nothing
  BY <1>1
<1>4. ASSUME NEW o \in Ops, op[o] # Nothing
      PROVE  /\ op'[o] \in Call_Type /\ op'[o] # Nothing /\ op'[o].raced = TRUE
             /\ op'[o].kind = op[o].kind /\ op'[o].name = op[o].name /\ op'[o].to = op[o].to
             /\ op'[o].file = op[o].file /\ op'[o].applied = op[o].applied /\ op'[o].alone = op[o].alone
  <2>1. op[o] \in Call_Type
    BY <1>1, <1>4 DEF TablesTypeOK
  <2>2. op'[o] = [op[o] EXCEPT !.raced = TRUE]
    BY <1>1, <1>4
  <2>3. op'[o] \in Call_Type
    BY <2>1, <2>2 DEF Call_Type
  <2>4. QED BY <2>1, <2>2, <2>3, TablesAssumption DEF Call_Type
<1>5. op' \in [Ops -> Call_Type \cup {Nothing}]
  BY <1>1, <1>4
<1>6. TablesTypeOK'
  BY <1>1, <1>2, <1>5, TablesAssumption DEF TablesTypeOK
<1>7. Formed'
  BY <1>1, <1>3, <1>4 DEF Formed
<1>8. RowsRight'
  BY <1>1, <1>2 DEF TablesInv, RowsRight
<1>9. Owned' /\ Pending'
  BY <1>3, <1>4 DEF Owned, OwnedBy, Pending, PendingOf
<1>10. MapRight'
  <2>1. ASSUME NEW k \in Names, ~Doubt(k)'
        PROVE  ~Doubt(k) /\ db'[k] = db[k] /\ (Untouched(k)' => Untouched(k))
    <3>1. k \notin loose /\ k # n
      BY <1>1, <2>1 DEF Doubt
    <3>2. \A o \in Ops : op[o] # Nothing /\ op[o].applied => k \notin Touches(o)
      BY <1>4, <2>1 DEF Doubt, Touches
    <3>3. QED BY <1>2, <3>1, <3>2 DEF Doubt, Untouched
  <2>2. QED BY <1>1, <2>1 DEF TablesInv, MapRight, Entry
<1>11. QED BY <1>6, <1>7, <1>8, <1>9, <1>10 DEF TablesInv

\* An entry of an attached table that comes, or goes, is of a name that is
\* masked.
LEMMA EntriesKeep ==
  ASSUME TablesInv, UNCHANGED <<db, meta, op, unkept, loose>>, masked \subseteq masked',
         \A n \in Names : origins'[n] = origins[n]
                            \/ (n \in masked' /\ origins'[n] = "attached")
                            \/ (origins[n] = "attached" /\ origins'[n] = Nothing)
  PROVE  Formed' /\ RowsRight' /\ MapRight' /\ Owned' /\ Pending'
<1>1. TablesTypeOK
  BY DEF TablesInv
<1>2. \A n \in Names : (Doubt(n)' <=> Doubt(n)) /\ (Untouched(n)' <=> Untouched(n))
  BY DEF Doubt, Untouched, Touches
<1>3. Formed' /\ RowsRight'
  BY DEF TablesInv, Formed, RowsRight
<1>4. Owned'
  <2>1. \A o \in Ops : op[o] # Nothing => op[o].own \subseteq Names
    BY <1>1 DEF TablesTypeOK, Call_Type
  <2>2. QED BY <1>2, <2>1 DEF TablesInv, Owned, OwnedBy
<1>5. ASSUME NEW n \in Names, NEW x \in Sources \cup {Nothing}, origins[n] = x \/ (n \in masked /\ origins[n] \in {"attached", Nothing})
      PROVE  origins'[n] = x \/ (n \in masked' /\ origins'[n] \in {"attached", Nothing})
  BY <1>5, TablesAssumption DEF Sources
<1>6. MapRight'
  <2>1. ASSUME NEW n \in Names, Entry(n) PROVE Entry(n)'
    <3>1. db[n] \in Sources \cup {Nothing}
      BY <1>1 DEF TablesTypeOK
    <3>2. QED BY <1>5, <2>1, <3>1 DEF Entry
  <2>2. ASSUME NEW n \in Names, origins'[n] \in Files PROVE origins'[n] = origins[n]
    BY <2>2, TablesAssumption DEF Sources
  <2>3. QED BY <1>2, <2>1, <2>2 DEF TablesInv, MapRight
<1>7. Pending'
  <2>1. ASSUME NEW o \in Ops, op[o] # Nothing, op[o].applied, ~op[o].raced PROVE PendingOf(o)'
    <3>1. PICK n \in Names, to \in Names : n = op[o].name /\ to = op[o].to
      BY <1>1, <2>1 DEF TablesTypeOK, Call_Type
    <3>2. PendingOf(o) /\ db[to] \in Sources \cup {Nothing}
      BY <1>1 DEF TablesInv, Pending, TablesTypeOK
    <3>3. ASSUME op[o].kind = "rename", n \notin loose, to \notin loose
          PROVE  /\ origins'[n] = db[to] \/ (n \in masked' /\ origins'[n] \in {"attached", Nothing})
                 /\ origins'[to] = Nothing \/ (to \in masked' /\ origins'[to] = "attached")
      <4>1. /\ origins[n] = db[to] \/ (n \in masked /\ origins[n] \in {"attached", Nothing})
            /\ origins[to] = Nothing \/ (to \in masked /\ origins[to] = "attached")
        BY <2>1, <3>1, <3>2, <3>3 DEF PendingOf
      <4>2. QED BY <1>5, <3>2, <4>1, TablesAssumption DEF Sources
    <3>4. Doubt(n)' <=> Doubt(n)
      BY <1>2
    <3>5. op'[o].name = n /\ op'[o].to = to
      BY <3>1
    <3>6. QED BY <2>1, <3>1, <3>2, <3>3, <3>4, <3>5 DEF PendingOf
  <2>2. QED BY <2>1 DEF Pending, PendingOf
<1>8. QED BY <1>3, <1>4, <1>6, <1>7

LEMMA AttachKeeps ==
  ASSUME TablesInv, NEW ns \in SUBSET Names, Attach(ns) \/ Detach
  PROVE  TablesInv'
<1>1. TablesTypeOK
  BY DEF TablesInv
<1>2. CASE Attach(ns)
  <2>1. /\ UNCHANGED <<db, meta, tabbed, op, unkept, loose>> /\ masked' = masked \cup ns /\ linked' = ns
        /\ origins' = [n \in Names |-> IF n \in ns THEN "attached" ELSE origins[n]]
        /\ calls < MaxCalls /\ calls' = calls + 1
    BY <1>2 DEF Attach, Another
  <2>2. masked \subseteq masked' /\ \A n \in Names : origins'[n] = origins[n]
                                    \/ (n \in masked' /\ origins'[n] = "attached")
                                    \/ (origins[n] = "attached" /\ origins'[n] = Nothing)
    BY <2>1
  <2>3. Formed' /\ RowsRight' /\ MapRight' /\ Owned' /\ Pending'
    BY <2>1, <2>2, EntriesKeep
  <2>4. TablesTypeOK'
    BY <1>1, <2>1, TablesAssumption DEF TablesTypeOK
  <2>5. QED BY <2>3, <2>4 DEF TablesInv
<1>3. CASE Detach
  <2>1. /\ UNCHANGED <<db, meta, tabbed, op, calls, unkept, loose, masked>> /\ linked' = {}
        /\ origins' = [n \in Names |-> IF origins[n] = "attached" THEN Nothing ELSE origins[n]]
    BY <1>3 DEF Detach
  <2>2. masked \subseteq masked' /\ \A n \in Names : origins'[n] = origins[n]
                                    \/ (n \in masked' /\ origins'[n] = "attached")
                                    \/ (origins[n] = "attached" /\ origins'[n] = Nothing)
    BY <2>1
  <2>3. Formed' /\ RowsRight' /\ MapRight' /\ Owned' /\ Pending'
    BY <2>1, <2>2, EntriesKeep
  <2>4. TablesTypeOK'
    BY <1>1, <2>1, TablesAssumption DEF TablesTypeOK
  <2>5. QED BY <2>3, <2>4 DEF TablesInv
<1>4. QED BY <1>2, <1>3

\* What loading the rows gives.
LEMMA LoadGives ==
  ASSUME TablesTypeOK, NEW read, Load(read)
  PROVE  /\ meta' \in [Names -> Sources \cup {Nothing}] /\ read \in [Names -> Sources \cup {Nothing}]
         /\ \A n \in Names : /\ read[n] \in {meta'[n], Nothing}
                             /\ meta'[n] = meta[n] \/ (db[n] = Nothing /\ meta'[n] = Nothing)
<1>1. Pruned \in [Names -> Sources \cup {Nothing}] /\ meta \in [Names -> Sources \cup {Nothing}]
      /\ \A n \in Names : Pruned[n] = IF db[n] = Nothing THEN Nothing ELSE meta[n]
  BY DEF TablesTypeOK, Pruned
<1>2. meta' \in {meta, Pruned} /\ read \in {meta', [n \in Names |-> Nothing]}
  BY DEF Load
<1>3. QED BY <1>1, <1>2

\* With nothing in flight only the names and their entries matter.
LEMMA StillKeeps ==
  ASSUME op' = [o \in Ops |-> Nothing], \A n \in Names \ loose' : Entry(n)'
  PROVE  Formed' /\ MapRight' /\ Owned' /\ Pending'
<1>1. Formed' /\ Owned' /\ Pending'
  BY DEF Formed, Owned, OwnedBy, Pending, PendingOf
<1>2. \A n \in Names : ~Doubt(n)' => n \notin loose'
  BY DEF Doubt
<1>3. MapRight'
  BY <1>2, TablesAssumption DEF MapRight, Entry, Sources
<1>4. QED BY <1>1, <1>3

LEMMA ReopenKeeps ==
  ASSUME TablesInv, Reopen
  PROVE  TablesInv'
<1>1. PICK read \in {meta, Pruned, [n \in Names |-> Nothing]}, told \in [Names -> Files \cup {Nothing}] :
        /\ \A n \in Names : told[n] # Nothing => db[n] # Nothing
        /\ Load(read)
        /\ origins' = [n \in Names |-> IF told[n] # Nothing THEN told[n] ELSE read[n]]
        /\ loose' = {n \in Names :
                       IF db[n] = Nothing THEN meta'[n] # Nothing
                       ELSE n \in loose \cup unkept \/ read[n] # meta[n] \/ told[n] \notin {Nothing, meta[n]}}
        /\ unkept' = {} /\ masked' = {} /\ Anew
  BY DEF Reopen
<1>2. /\ TablesTypeOK /\ db' = db /\ tabbed' = tabbed /\ calls' = calls /\ linked' = {} /\ op' = [o \in Ops |-> Nothing]
  BY <1>1 DEF TablesInv, Anew
<1>3. /\ meta' \in [Names -> Sources \cup {Nothing}] /\ read \in [Names -> Sources \cup {Nothing}]
      /\ \A n \in Names : /\ read[n] \in {meta'[n], Nothing}
                          /\ meta'[n] = meta[n] \/ (db[n] = Nothing /\ meta'[n] = Nothing)
  BY <1>1, <1>2, LoadGives
<1>4. TablesTypeOK'
  BY <1>1, <1>2, <1>3, TablesAssumption DEF TablesTypeOK, Sources
<1>5. ASSUME NEW n \in Names, n \notin loose' PROVE meta'[n] = db[n] /\ origins'[n] = db[n]
  <2>1. CASE db[n] = Nothing
    BY <1>1, <1>3, <1>5, <2>1
  <2>2. CASE db[n] # Nothing
    <3>1. n \notin loose /\ n \notin unkept /\ read[n] = meta[n] /\ told[n] \in {Nothing, meta[n]}
      BY <1>1, <1>5, <2>2
    <3>2. meta[n] = db[n] /\ meta'[n] = meta[n]
      BY <1>3, <2>2, <3>1 DEF TablesInv, RowsRight
    <3>3. QED BY <1>1, <3>1, <3>2
  <2>3. QED BY <2>1, <2>2
<1>6. Formed' /\ MapRight' /\ Owned' /\ Pending'
  BY <1>2, <1>5, StillKeeps DEF Entry
<1>7. RowsRight'
  BY <1>2, <1>5 DEF RowsRight
<1>8. QED BY <1>4, <1>6, <1>7 DEF TablesInv

LEMMA CarryKeeps ==
  ASSUME TablesInv, Carry
  PROVE  TablesInv'
<1>1. PICK read \in {meta, Pruned, [n \in Names |-> Nothing]} :
        /\ Load(read)
        /\ origins' = [n \in Names |-> IF origins[n] # Nothing THEN origins[n] ELSE read[n]]
        /\ loose' = loose \cup {n \in unkept : origins[n] = Nothing}
  BY DEF Carry
<1>2. /\ TablesTypeOK /\ db' = db /\ tabbed' = tabbed /\ calls' = calls /\ linked' = {} /\ op' = [o \in Ops |-> Nothing]
      /\ UNCHANGED <<unkept, masked>> /\ \A o \in Ops : op[o] = Nothing
  BY DEF TablesInv, Carry, Anew
<1>3. /\ meta' \in [Names -> Sources \cup {Nothing}] /\ read \in [Names -> Sources \cup {Nothing}]
      /\ \A n \in Names : /\ read[n] \in {meta'[n], Nothing}
                          /\ meta'[n] = meta[n] \/ (db[n] = Nothing /\ meta'[n] = Nothing)
  BY <1>1, <1>2, LoadGives
<1>4. TablesTypeOK'
  BY <1>1, <1>2, <1>3, TablesAssumption DEF TablesTypeOK, Sources
<1>5. ASSUME NEW n \in Names, n \notin loose' PROVE (n \in unkept \/ meta'[n] = db[n]) /\ Entry(n)'
  <2>1. n \notin loose /\ (n \in unkept => origins[n] # Nothing)
    BY <1>1, <1>5
  <2>2. Entry(n) /\ (n \in unkept \/ meta[n] = db[n])
    BY <1>2, <2>1 DEF TablesInv, MapRight, Doubt, Untouched, RowsRight
  <2>3. n \in unkept \/ meta'[n] = db[n]
    BY <1>3, <2>2
  <2>4. CASE origins[n] # Nothing
    BY <1>1, <1>2, <2>2, <2>3, <2>4 DEF Entry
  <2>5. CASE origins[n] = Nothing
    <3>1. origins'[n] \in {db[n], Nothing}
      BY <1>1, <1>3, <2>1, <2>3, <2>5
    <3>2. QED BY <1>2, <2>2, <2>3, <2>5, <3>1 DEF Entry
  <2>6. QED BY <2>4, <2>5
<1>6. Formed' /\ MapRight' /\ Owned' /\ Pending'
  BY <1>2, <1>5, StillKeeps
<1>7. RowsRight'
  BY <1>2, <1>5 DEF RowsRight
<1>8. QED BY <1>4, <1>6, <1>7 DEF TablesInv

LEMMA TablesInductive == TablesSpec => []TablesInv
<1>1. TablesInv /\ [TablesNext]_tableVars => TablesInv'
  <2>1. SUFFICES ASSUME TablesInv, [TablesNext]_tableVars PROVE TablesInv'
    OBVIOUS
  <2>2. ASSUME NEW o \in Ops, Calls(o) PROVE TablesInv'
    <3>1. 1 \in Names /\ Nothing \in Files \cup {Nothing} /\ Files \subseteq Files \cup {Nothing}
      BY TablesAssumption DEF Names
    <3>2. ASSUME NEW f \in Files, Call(o, "import", 1, 1, f) PROVE TablesInv'
      BY <2>1, <3>1, <3>2, CallKeeps
    <3>3. ASSUME NEW n \in Names, Call(o, "create", n, n, Nothing) \/ Call(o, "drop", n, n, Nothing) PROVE TablesInv'
      BY <2>1, <3>1, <3>3, CallKeeps
    <3>4. ASSUME NEW n \in Names, NEW to \in Names, n # to, Call(o, "rename", n, to, Nothing) PROVE TablesInv'
      BY <2>1, <3>1, <3>4, CallKeeps
    <3>5. QED BY <2>2, <3>2, <3>3, <3>4 DEF Calls
  <2>3. ASSUME NEW o \in Ops, Apply(o) \/ Land(o) PROVE TablesInv'
    BY <2>1, <2>3, ApplyKeeps, LandKeeps
  <2>4. ASSUME NEW n \in Names, NEW src \in {"made", Nothing}, Execute(n, src) PROVE TablesInv'
    BY <2>1, <2>4, ExecuteKeeps
  <2>5. ASSUME NEW ns \in SUBSET Names, Attach(ns) \/ Detach PROVE TablesInv'
    BY <2>1, <2>5, AttachKeeps
  <2>6. CASE Reopen \/ Carry
    BY <2>1, <2>6, ReopenKeeps, CarryKeeps
  <2>7. CASE UNCHANGED tableVars
    <3>1. TablesTypeOK' /\ Formed' /\ RowsRight'
      BY <2>1, <2>7 DEF tableVars, TablesInv, TablesTypeOK, Formed, RowsRight
    <3>2. MapRight'
      BY <2>1, <2>7 DEF tableVars, TablesInv, MapRight, Doubt, Untouched, Touches, Entry
    <3>3. Owned'
      BY <2>1, <2>7 DEF tableVars, TablesInv, Owned, OwnedBy, Doubt, Touches
    <3>4. Pending'
      BY <2>1, <2>7 DEF tableVars, TablesInv, Pending, PendingOf, Doubt, Touches
    <3>5. QED BY <3>1, <3>2, <3>3, <3>4 DEF TablesInv
  <2>8. {} \in SUBSET Names
    OBVIOUS
  <2>9. QED BY <2>1, <2>2, <2>3, <2>4, <2>5, <2>6, <2>7, <2>8 DEF TablesNext
<1>2. QED
  BY TablesStart, <1>1, PTL DEF TablesSpec

-----------------------------------------------------------------------------
(* The theorems. *)

\* Database, rows, map, tabs and calls stay well formed.
THEOREM TablesTypeCorrect == TablesSpec => []TablesTypeOK
<1>1. TablesInv => TablesTypeOK
  BY DEF TablesInv
<1>2. QED
  BY TablesInductive, <1>1, PTL

\* With nothing under way the rows and the map are the tables', for any number
\* of names, files and operations, but where `Known` says.
THEOREM KnownAlways == TablesSpec => []Known
<1>1. TablesInv => Known
  BY DEF TablesInv, RowsRight, MapRight, Doubt, Untouched, Entry, Known
<1>2. QED
  BY TablesInductive, <1>1, PTL

\* No file is read over a table that is not its own, for any number of names,
\* files and operations that overlap, but where `KeepsData` says.
THEOREM KeepsDataAlways == TablesSpec => KeepsData
<1> DEFINE Spared(n) == Overwrites(n) => n \in loose \/ \E o \in Ops : op[o] # Nothing /\ op[o].raced
<1>1. ASSUME TablesInv, NEW o \in Ops, Apply(o), NEW n \in Names, Overwrites(n), n \notin loose,
             \A p \in Ops : op[p] # Nothing => ~op[p].raced
      PROVE  FALSE
  <2>1. TablesTypeOK /\ op[o] # Nothing /\ ~op[o].applied /\ op[o] \in Call_Type /\ db'[n] # db[n] /\ db[n] # Nothing /\ db'[n] \in Files
    BY <1>1 DEF TablesInv, Apply, TablesTypeOK, Overwrites
  <2>2. CASE Import(o)
    <3>1. PICK k \in Names : /\ k \in op[o].own \/ db[k] = Nothing
                             /\ op[o].kind = "import" /\ db' = Put(db, k, op[o].file)
      BY <2>1, <2>2, NameForIs DEF Import, Half, Call_Type
    <3>2. n = k /\ db'[n] = op[o].file
      BY <2>1, <3>1 DEF Put, TablesTypeOK
    <3>3. ~Doubt(n)
      <4>1. SUFFICES ASSUME NEW p \in Ops, op[p] # Nothing, op[p].applied, op[p].kind \in {"drop", "rename"}
                     PROVE  FALSE
        BY <1>1 DEF Doubt
      <4>2. p # o
        BY <2>1, <4>1
      <4>3. QED BY <1>1, <2>1, <4>1, <4>2 DEF TablesInv, Formed
    <3>4. QED BY <1>1, <2>1, <3>1, <3>2, <3>3 DEF TablesInv, Owned, OwnedBy
  <2>3. CASE Create(o)
    BY <2>1, <2>3, TablesAssumption DEF Create, Half, Put, TablesTypeOK
  <2>4. CASE Drop(o)
    BY <2>1, <2>4, TablesAssumption DEF Drop, Put, TablesTypeOK, Sources
  <2>5. CASE Rename(o)
    BY <2>1, <2>5, TablesAssumption DEF Rename, Put, TablesTypeOK, Sources
  <2>6. QED BY <1>1, <2>1, <2>2, <2>3, <2>4, <2>5 DEF Apply
<1>2. ASSUME TablesInv, NEW n \in Names, NEW k \in Names, NEW src \in {"made", Nothing}, Execute(k, src), Overwrites(n)
      PROVE  FALSE
  BY <1>2, TablesAssumption DEF TablesInv, TablesTypeOK, Execute, Put, Overwrites, Sources
<1>3. TablesInv /\ [TablesNext]_tableVars => [\A n \in Names : Spared(n)]_tableVars
  <2>1. SUFFICES ASSUME TablesInv, [TablesNext]_tableVars, NEW n \in Names PROVE Spared(n)
    OBVIOUS
  <2>2. ASSUME NEW o \in Ops, Apply(o) PROVE Spared(n)
    BY <1>1, <2>1, <2>2
  <2>3. ASSUME NEW o \in Ops, Calls(o) \/ Land(o) PROVE db' = db
    <3>1. CASE Calls(o)
      BY <3>1 DEF Calls, Call
    <3>2. CASE Land(o)
      <4>1. op[o].kind \in {"import", "create", "drop", "rename"}
        BY <2>1, <3>2 DEF TablesInv, TablesTypeOK, Land, Call_Type
      <4>2. QED BY <3>2, <4>1 DEF Land, Landed
    <3>3. QED BY <2>3, <3>1, <3>2
  <2>4. CASE (\E ns \in SUBSET Names : Attach(ns)) \/ Detach \/ Reopen \/ Carry \/ UNCHANGED tableVars
    <3>1. db' = db
      BY <2>4 DEF Attach, Detach, Reopen, Carry, Anew, tableVars
    <3>2. QED BY <3>1 DEF Overwrites
  <2>5. CASE db' = db
    BY <2>5 DEF Overwrites
  <2>6. QED BY <1>2, <2>1, <2>2, <2>3, <2>4, <2>5 DEF TablesNext
<1>4. QED
  BY TablesInductive, <1>3, PTL DEF TablesSpec, KeepsData

-----------------------------------------------------------------------------
(* QueryLanes and Console. *)


\* What executes is out, and is the one the connection knows.
Executing == conn # None => at[conn] = "executing"

\* A run cancelled before its last statement never gets to it.
EarlyStops ==
  \A q \in early :
    /\ q \in stopped /\ at[q] # "off"
    /\ Out(q) => left[q] > 1
    /\ at[q] = "ended" => result[q] # "ok"

IInv == TypeOK /\ Executing /\ NewestInSlot /\ GuardIsTheRuns /\ EarlyStops

\* The console's guard is told from none.
LEMMA AGuard ==
  ASSUME NEW q \in Runs, NEW b \in BOOLEAN
  PROVE  [query |-> q, armed |-> b] # None /\ [query |-> q, armed |-> b].query = q
<1>1. [query |-> q, armed |-> b] \in [query : Runs, armed : BOOLEAN]
  OBVIOUS
<1>2. QED
  BY <1>1, LanesAssumption

-----------------------------------------------------------------------------
(* What each step does to a query, its slot and its guard. *)

LEMMA Starts == Init => IInv
<1> SUFFICES ASSUME Init PROVE IInv
  OBVIOUS
<1>1. TypeOK
  <2>1. /\ at \in [Queries -> {"off", "waiting", "executing", "back", "ended"}]
        /\ left \in [Queries -> 0 .. 2] /\ result \in [Queries -> {"ok", "failed", "interrupted"}]
    BY DEF Init
  <2>2. /\ conn \in Queries \cup {None} /\ {slot, newest} \subseteq Runs \cup Changes \cup {None}
        /\ run \in [query : Runs, armed : BOOLEAN] \cup {None}
    BY DEF Init
  <2>3. stopped \in SUBSET Runs /\ early \in SUBSET Runs
    BY DEF Init
  <2>4. hit \in BOOLEAN /\ stray \in BOOLEAN
    BY DEF Init
  <2>5. QED BY <2>1, <2>2, <2>3, <2>4 DEF TypeOK
<1>2. GuardIsTheRuns
  BY DEF Init, GuardIsTheRuns, Out, Queries
<1>3. Executing /\ NewestInSlot /\ EarlyStops
  BY DEF Init, Executing, NewestInSlot, EarlyStops
<1>4. QED
  BY <1>1, <1>2, <1>3 DEF IInv

\* Every variable keeps its type, and what executes stays what it was.
LEMMA TypeKept == IInv /\ [Next]_vars => TypeOK' /\ Executing'
<1>1. SUFFICES ASSUME IInv, [Next]_vars PROVE TypeOK' /\ Executing'
  OBVIOUS
<1> USE LanesAssumption DEF Queries
<1>2. CASE Cancel
  <2>1. run \in [query : Runs, armed : BOOLEAN] /\ run.query \in Runs
    BY <1>1, <1>2 DEF IInv, TypeOK, Cancel
  <2>2. run' \in [query : Runs, armed : BOOLEAN] /\ stopped' \in SUBSET Runs /\ early' \in SUBSET Runs
    BY <1>1, <1>2, <2>1 DEF IInv, TypeOK, Cancel
  <2>3. hit' \in BOOLEAN /\ stray' \in BOOLEAN
    BY <1>1, <1>2 DEF IInv, TypeOK, Cancel, InterruptScoped, Fire
  <2>4. /\ at' = at /\ left' = left /\ result' = result
        /\ conn' = conn /\ slot' = slot /\ newest' = newest
    BY <1>2 DEF Cancel
  <2>5. QED
    BY <1>1, <2>2, <2>3, <2>4 DEF IInv, TypeOK, Executing
<1>3. ASSUME NEW q \in Queries, Run(q) PROVE TypeOK' /\ Executing'
  BY <1>1, <1>3 DEF IInv, TypeOK, Executing, Run, Ask, Begin
<1>4. ASSUME NEW q \in Queries, Change(q) PROVE TypeOK' /\ Executing'
  <2>1. hit' \in BOOLEAN /\ stray' \in BOOLEAN
    BY <1>1, <1>4 DEF IInv, TypeOK, Change, InterruptViews, Fire
  <2>2. /\ at[q] = "off" /\ slot' = q /\ newest' = q
        /\ at' = [at EXCEPT ![q] = "waiting"] /\ \E n \in {1, 2} : left' = [left EXCEPT ![q] = n]
        /\ UNCHANGED <<result, conn, run, stopped, early>>
    BY <1>4 DEF Change, Ask, Begin
  <2>3. q \in Changes
    BY <1>4 DEF Change
  <2>4. QED
    BY <1>1, <2>1, <2>2, <2>3 DEF IInv, TypeOK, Executing
<1>5. ASSUME NEW q \in Queries, Read(q) PROVE TypeOK' /\ Executing'
  BY <1>1, <1>5 DEF IInv, TypeOK, Executing, Read, Ask, engine
<1>6. ASSUME NEW q \in Queries, Lock(q) PROVE TypeOK' /\ Executing'
  BY <1>1, <1>6 DEF IInv, TypeOK, Executing, Lock
<1>7. ASSUME NEW q \in Queries, Return(q) PROVE TypeOK' /\ Executing'
  BY <1>1, <1>7 DEF IInv, TypeOK, Executing, Return
<1>8. ASSUME NEW q \in Queries, GoOn(q) PROVE TypeOK' /\ Executing'
  BY <1>1, <1>8 DEF IInv, TypeOK, Executing, GoOn, Ask, engine
<1>9. ASSUME NEW q \in Queries, Finish(q) PROVE TypeOK' /\ Executing'
  BY <1>1, <1>9 DEF IInv, TypeOK, Executing, Finish, Over, Close, End
<1>10. ASSUME NEW q \in Queries, Changed(q) PROVE TypeOK' /\ Executing'
  BY <1>1, <1>10 DEF IInv, TypeOK, Executing, Changed, Over, Close, End
<1>11. ASSUME NEW q \in Queries, HaveRead(q) PROVE TypeOK' /\ Executing'
  BY <1>1, <1>11 DEF IInv, TypeOK, Executing, HaveRead, Close, engine
<1>12. CASE UNCHANGED vars
  BY <1>1, <1>12 DEF IInv, TypeOK, Executing, vars, engine
<1>13. QED
  BY <1>1, <1>2, <1>3, <1>4, <1>5, <1>6, <1>7, <1>8, <1>9, <1>10, <1>11, <1>12 DEF Next, Work

\* A run that is out is the guard's, so that its end retires its own token; what
\* has been displaced in the slot leaves it as it is.
LEMMA SlotKept == IInv /\ [Next]_vars => NewestInSlot' /\ GuardIsTheRuns'
<1>1. SUFFICES ASSUME IInv, [Next]_vars PROVE NewestInSlot' /\ GuardIsTheRuns'
  OBVIOUS
<1> DEFINE Good == NewestInSlot' /\ GuardIsTheRuns'
<1> USE LanesAssumption DEF Queries
<1>2. CASE Cancel
  <2>1. run # None /\ run' = [query |-> run.query, armed |-> FALSE] /\ run.query \in Runs
    BY <1>1, <1>2 DEF IInv, TypeOK, Cancel
  <2>2. run' # None /\ run'.query = run.query
    BY <2>1, AGuard
  <2>3. at' = at /\ slot' = slot /\ newest' = newest
    BY <1>2 DEF Cancel
  <2>4. NewestInSlot'
    BY <1>1, <2>3 DEF IInv, NewestInSlot, Out
  <2>5. GuardIsTheRuns'
    BY <1>1, <2>1, <2>2, <2>3 DEF IInv, GuardIsTheRuns, Out
  <2>6. QED BY <2>4, <2>5
<1>3. ASSUME NEW q \in Queries, Run(q) PROVE Good
  <2>1. q \in Runs /\ run = None /\ run' = [query |-> q, armed |-> TRUE] /\ run' # None
    BY <1>3, AGuard DEF Run
  <2>2. at' = [at EXCEPT ![q] = "waiting"] /\ slot' = q /\ newest' = q
    BY <1>3 DEF Run, Ask, Begin
  <2>3. at \in [Queries -> {"off", "waiting", "executing", "back", "ended"}]
    BY <1>1 DEF IInv, TypeOK
  <2>4. NewestInSlot'
    BY <2>2, <2>3 DEF NewestInSlot, Out
  <2>5. GuardIsTheRuns'
    BY <1>1, <2>1, <2>2, <2>3 DEF IInv, GuardIsTheRuns, Out
  <2>6. QED BY <2>4, <2>5
<1>4. ASSUME NEW q \in Queries, Change(q) PROVE Good
  <2>1. q \notin Runs /\ run' = run
    BY <1>4 DEF Change
  <2>2. at' = [at EXCEPT ![q] = "waiting"] /\ slot' = q /\ newest' = q
    BY <1>4 DEF Change, Ask, Begin
  <2>3. at \in [Queries -> {"off", "waiting", "executing", "back", "ended"}]
    BY <1>1 DEF IInv, TypeOK
  <2>4. NewestInSlot'
    BY <2>2, <2>3 DEF NewestInSlot, Out
  <2>5. GuardIsTheRuns'
    BY <1>1, <2>1, <2>2, <2>3 DEF IInv, GuardIsTheRuns, Out
  <2>6. QED BY <2>4, <2>5
<1>5. ASSUME NEW q \in Queries, Read(q) PROVE Good
  BY <1>1, <1>5 DEF IInv, TypeOK, NewestInSlot, GuardIsTheRuns, Out, Read, Ask, engine
<1>6. ASSUME NEW q \in Queries, Lock(q) PROVE Good
  BY <1>1, <1>6 DEF IInv, TypeOK, NewestInSlot, GuardIsTheRuns, Out, Lock
<1>7. ASSUME NEW q \in Queries, Return(q) PROVE Good
  BY <1>1, <1>7 DEF IInv, TypeOK, Executing, NewestInSlot, GuardIsTheRuns, Out, Return
<1>8. ASSUME NEW q \in Queries, GoOn(q) PROVE Good
  BY <1>1, <1>8 DEF IInv, TypeOK, NewestInSlot, GuardIsTheRuns, Out, GoOn, Ask, engine
<1>9. ASSUME NEW q \in Queries, Finish(q) PROVE Good
  <2>1. q \in Runs /\ Out(q)
    BY <1>9 DEF Finish, Over, Out
  <2>2. run # None /\ run.query = q
    BY <1>1, <2>1 DEF IInv, GuardIsTheRuns
  <2>3. run' = None /\ slot' = (IF slot = q THEN None ELSE slot) /\ newest' = newest
    BY <1>9, <2>2 DEF Finish, End
  <2>4. at' = [at EXCEPT ![q] = "ended"] /\ at \in [Queries -> {"off", "waiting", "executing", "back", "ended"}]
    BY <1>1, <1>9 DEF Finish, Close, IInv, TypeOK
  <2>5. NewestInSlot'
    BY <1>1, <2>1, <2>3, <2>4 DEF IInv, TypeOK, NewestInSlot, Out
  <2>6. GuardIsTheRuns'
    BY <1>1, <2>2, <2>3, <2>4 DEF IInv, GuardIsTheRuns, Out
  <2>7. QED BY <2>5, <2>6
<1>10. ASSUME NEW q \in Queries, Changed(q) PROVE Good
  BY <1>1, <1>10 DEF IInv, TypeOK, NewestInSlot, GuardIsTheRuns, Out, Changed, Over, Close, End
<1>11. ASSUME NEW q \in Queries, HaveRead(q) PROVE Good
  BY <1>1, <1>11 DEF IInv, TypeOK, NewestInSlot, GuardIsTheRuns, Out, HaveRead, Close, engine
<1>12. CASE UNCHANGED vars
  BY <1>1, <1>12 DEF IInv, NewestInSlot, GuardIsTheRuns, Out, vars, engine
<1>13. QED
  BY <1>1, <1>2, <1>3, <1>4, <1>5, <1>6, <1>7, <1>8, <1>9, <1>10, <1>11, <1>12 DEF Next, Work

\* A run stopped with statements to go has some to go until it has ended, and
\* ends as one that was interrupted or failed.
LEMMA EarlyKept == IInv /\ [Next]_vars => EarlyStops'
<1>1. SUFFICES ASSUME IInv, [Next]_vars PROVE EarlyStops'
  OBVIOUS
<1> USE LanesAssumption DEF Queries
<1>2. CASE Cancel
  BY <1>1, <1>2 DEF IInv, TypeOK, GuardIsTheRuns, EarlyStops, Out, Cancel
<1>3. ASSUME NEW q \in Queries, Run(q) PROVE EarlyStops'
  BY <1>1, <1>3 DEF IInv, TypeOK, EarlyStops, Out, Run, Ask
<1>4. ASSUME NEW q \in Queries, Change(q) PROVE EarlyStops'
  BY <1>1, <1>4 DEF IInv, TypeOK, EarlyStops, Out, Change, Ask
<1>5. ASSUME NEW q \in Queries, Read(q) PROVE EarlyStops'
  BY <1>1, <1>5 DEF IInv, TypeOK, EarlyStops, Out, Read, Ask
<1>6. ASSUME NEW q \in Queries, Lock(q) PROVE EarlyStops'
  BY <1>1, <1>6 DEF IInv, TypeOK, EarlyStops, Out, Lock
<1>7. ASSUME NEW q \in Queries, Return(q) PROVE EarlyStops'
  BY <1>1, <1>7 DEF IInv, TypeOK, Executing, EarlyStops, Out, Return
<1>8. ASSUME NEW q \in Queries, GoOn(q) PROVE EarlyStops'
  BY <1>1, <1>8 DEF IInv, TypeOK, EarlyStops, Out, GoOn, Ask
<1>9. ASSUME NEW q \in Queries, Finish(q) PROVE EarlyStops'
  BY <1>1, <1>9 DEF IInv, TypeOK, EarlyStops, Out, Finish, Over, Close
<1>10. ASSUME NEW q \in Queries, Changed(q) PROVE EarlyStops'
  BY <1>1, <1>10 DEF IInv, TypeOK, EarlyStops, Out, Changed, Over, Close
<1>11. ASSUME NEW q \in Queries, HaveRead(q) PROVE EarlyStops'
  BY <1>1, <1>11 DEF IInv, TypeOK, EarlyStops, Out, HaveRead, Close
<1>12. CASE UNCHANGED vars
  BY <1>1, <1>12 DEF IInv, EarlyStops, Out, vars
<1>13. QED
  BY <1>1, <1>2, <1>3, <1>4, <1>5, <1>6, <1>7, <1>8, <1>9, <1>10, <1>11, <1>12 DEF Next, Work

LEMMA Inductive == Spec => []IInv
<1>1. IInv /\ [Next]_vars => IInv'
  BY TypeKept, SlotKept, EarlyKept DEF IInv
<1>2. QED
  BY Starts, <1>1, PTL DEF Spec

-----------------------------------------------------------------------------
(* The theorems. *)

\* The queries, the connection, the slot and the console's guard stay well
\* formed, for any number of queries.
THEOREM LanesTypeCorrect == Spec => []TypeOK
<1>1. IInv => TypeOK
  BY DEF IInv
<1>2. QED
  BY Inductive, <1>1, PTL

\* The engine's slot is the query that began last, while that is out, and else
\* nobody's.
THEOREM NewestInSlotAlways == Spec => []NewestInSlot
<1>1. IInv => NewestInSlot
  BY DEF IInv
<1>2. QED
  BY Inductive, <1>1, PTL

\* The console's guard is that of the one run that is out.
THEOREM GuardAlways == Spec => []GuardIsTheRuns
<1>1. IInv => GuardIsTheRuns
  BY DEF IInv
<1>2. QED
  BY Inductive, <1>1, PTL

\* A run cancelled before its rows were being counted never ends well.
THEOREM CancelHeardAlways == Spec => []CancelHeard
<1>1. IInv => CancelHeard
  BY DEF IInv, EarlyStops, CancelHeard
<1>2. QED
  BY Inductive, <1>1, PTL

\* The console with its tabs makes no step the lanes could not: what is proved
\* of the lanes holds of it.
THEOREM ConsoleImplementsLanes == ConsoleSpec => Spec
<1>1. ConsoleInit => Init
  BY DEF ConsoleInit
<1>2. [ConsoleNext]_consoleVars => [Next]_vars
  BY DEF ConsoleNext, consoleVars, Start, Back, ShowOrNot, Apart, Next, Work
<1>3. QED
  BY <1>1, <1>2, PTL DEF ConsoleSpec, Spec

-----------------------------------------------------------------------------
(* The tabs of the console. *)

UnderWay == [place : T!Places, title : Nat, stage : {"create", "count"}]

Titles == {queries[i].title : i \in DOMAIN queries}

\* There is always a query tab, and as many titles were enough as tabs opened.
TabsType ==
  /\ queries \in Seq([id : Nat, title : Nat]) /\ opened \in T!Places
  /\ shownQ \in 1 .. Len(queries) /\ Len(queries) <= opened
  /\ Titles \subseteq 1 .. opened
  /\ views \in [T!Places -> Nat \cup {None}] /\ spoilt \subseteq T!Places
  /\ results \in Seq([place : T!Places, label : Nat])
  /\ runs \in 0 .. MaxRuns /\ by \in Seq(Nat) /\ Len(by) = runs
  /\ current \in UnderWay \cup {None}

\* No two query tabs have one title.
OwnTitles == \A i, j \in DOMAIN queries : queries[i].title = queries[j].title => i = j

\* The run under way is the last, and once it has its view nobody else's rows are
\* in it; the view a tab of rows has, unless a later run spoilt it, is of the run
\* of its label; and it has it alone.
Filed ==
  /\ current # None =>
       /\ runs >= 1 /\ by[runs] = current.title
       /\ current.stage = "count" => views[current.place] = runs /\ current.place \in spoilt
  /\ \A i \in DOMAIN results : results[i].place \notin spoilt =>
       views[results[i].place] \in 1 .. runs /\ results[i].label = by[views[results[i].place]]
  /\ \A i, j \in DOMAIN results : results[i].place = results[j].place => i = j

\* The largest of a set of naturals that is bounded and not empty.
LEMMA LargestIs ==
  ASSUME NEW n \in Nat, NEW S \in SUBSET (1 .. n)
  PROVE  T!Largest(S) \in 0 .. n /\ \A k \in S : k <= T!Largest(S)
<1>1. CASE S = {}
  BY <1>1 DEF T!Largest
<1>2. CASE S # {}
  <2> DEFINE D == {d \in Nat : \E k \in S : k + d = n}
  <2>1. D \subseteq Nat /\ D # {}
    <3>1. PICK k \in S : TRUE
      BY <1>2
    <3>2. n - k \in D
      BY <3>1
    <3>3. QED BY <3>2
  <2>2. PICK d \in D : \A c \in D : <<c, d>> \notin OpToRel(<, Nat)
    <3> HIDE DEF D
    <3>1. QED BY <2>1, NatLessThanWellFounded, WFMin
  <2>3. \A c \in D : ~(c < d)
    BY <2>2 DEF OpToRel
  <2>4. PICK m \in S : m + d = n
    BY <2>2
  <2>5. \A k \in S : k <= m
    <3>1. SUFFICES ASSUME NEW k \in S PROVE k <= m
      OBVIOUS
    <3>2. n - k \in D
      OBVIOUS
    <3>3. ~(n - k < d)
      BY <3>2, <2>3
    <3>4. k \in 1 .. n /\ m \in 1 .. n /\ d \in Nat
      OBVIOUS
    <3> HIDE DEF D
    <3>5. QED BY <3>3, <3>4, <2>4
  <2>6. T!Largest(S) \in S /\ \A k \in S : k <= T!Largest(S)
    BY <1>2, <2>5 DEF T!Largest
  <2>7. \A k \in S : k \in 0 .. n
    OBVIOUS
  <2>8. QED BY <2>6, <2>7
<1>3. QED BY <1>1, <1>2

\* A sequence without its k-th element.
LEMMA RemoveAtFacts ==
  ASSUME NEW S, NEW s \in Seq(S), NEW k \in 1..Len(s)
  PROVE  LET r == T!RemoveAt(s, k)
         IN  /\ r \in Seq(S) /\ Len(r) = Len(s) - 1
             /\ \A i \in 1..Len(r) : r[i] = IF i < k THEN s[i] ELSE s[i + 1]
<1> DEFINE a == SubSeq(s, 1, k - 1)
           b == SubSeq(s, k + 1, Len(s))
           r == a \o b
<1>1. a \in Seq(S) /\ Len(a) = k - 1 /\ \A i \in 1..(k - 1) : a[i] = s[i]
  OBVIOUS
<1>2. b \in Seq(S) /\ Len(b) = Len(s) - k /\ \A i \in 1..(Len(s) - k) : b[i] = s[k + i]
  OBVIOUS
<1> HIDE DEF a, b
<1>3. /\ r \in Seq(S) /\ Len(r) = Len(a) + Len(b)
      /\ \A i \in 1..Len(a) + Len(b) : r[i] = IF i <= Len(a) THEN a[i] ELSE b[i - Len(a)]
  BY <1>1, <1>2, ConcatProperties
<1>4. ASSUME NEW i \in 1..Len(s) - 1 PROVE r[i] = IF i < k THEN s[i] ELSE s[i + 1]
  <2>1. CASE i < k
    BY <2>1, <1>1, <1>2, <1>3
  <2>2. CASE i >= k
    <3>1. r[i] = b[i - (k - 1)] /\ i - (k - 1) \in 1..(Len(s) - k)
      BY <2>2, <1>1, <1>2, <1>3
    <3>2. b[i - (k - 1)] = s[k + (i - (k - 1))]
      BY <3>1, <1>2
    <3> QED
      BY <2>2, <3>1, <3>2
  <2>3. i < k \/ i >= k
    BY LenProperties
  <2> QED
    BY <2>1, <2>2, <2>3
<1>5. T!RemoveAt(s, k) = r
  BY DEF T!RemoveAt, a, b
<1>6. r \in Seq(S) /\ Len(r) = Len(s) - 1
  BY <1>1, <1>2, <1>3, LenProperties
<1> HIDE DEF r
<1> QED
  BY <1>4, <1>5, <1>6

LEMMA InitTabs == T!Init => TabsType /\ OwnTitles /\ Filed
<1> SUFFICES ASSUME T!Init PROVE TabsType /\ OwnTitles /\ Filed
  OBVIOUS
<1> USE ConsoleAssumption
<1>1. /\ queries = <<[id |-> 1, title |-> 1]>> /\ shownQ = 1 /\ opened = 1
      /\ views = [i \in T!Places |-> None] /\ results = <<>>
      /\ current = None /\ runs = 0 /\ by = <<>> /\ spoilt = {}
  BY DEF T!Init
<1>2. queries \in Seq([id : Nat, title : Nat]) /\ Len(queries) = 1 /\ queries[1].title = 1
  BY <1>1
<1>3. opened \in T!Places /\ Titles \subseteq 1 .. opened
  BY <1>1, <1>2 DEF Titles, T!Places
<1>4. TabsType
  BY <1>1, <1>2, <1>3 DEF TabsType
<1>5. OwnTitles
  BY <1>2 DEF OwnTitles
<1>6. Filed
  BY <1>1 DEF Filed
<1>7. QED BY <1>4, <1>5, <1>6

TabsInv == TabsType /\ OwnTitles /\ Filed

\* What the tabs and the tabs of rows are.
LEMMA TabsAre ==
  ASSUME TabsInv
  PROVE  /\ queries \in Seq([id : Nat, title : Nat]) /\ DOMAIN queries = 1 .. Len(queries)
         /\ Len(queries) \in Nat /\ opened \in Nat /\ shownQ \in 1 .. Len(queries)
         /\ Len(queries) <= opened /\ opened <= MaxTabs /\ opened >= 1
         /\ \A i \in 1 .. Len(queries) : queries[i].title \in 1 .. opened
         /\ DOMAIN results = 1 .. Len(results) /\ Len(results) \in Nat
         /\ \A i \in 1 .. Len(results) : results[i] \in [place : T!Places, label : Nat]
<1>1. /\ queries \in Seq([id : Nat, title : Nat]) /\ opened \in 1 .. MaxTabs /\ Titles \subseteq 1 .. opened
      /\ shownQ \in 1 .. Len(queries) /\ Len(queries) <= opened
      /\ results \in Seq([place : T!Places, label : Nat])
  BY DEF TabsInv, TabsType, T!Places
<1>2. DOMAIN queries = 1 .. Len(queries) /\ Len(queries) \in Nat
  BY <1>1
<1>3. \A i \in 1 .. Len(queries) : queries[i].title \in 1 .. opened
  BY <1>1, <1>2 DEF Titles
<1>4. DOMAIN results = 1 .. Len(results) /\ Len(results) \in Nat
  BY <1>1
<1>5. \A i \in 1 .. Len(results) : results[i] \in [place : T!Places, label : Nat]
  BY <1>1, ElementOfSeq
<1>6. opened \in Nat /\ opened <= MaxTabs /\ opened >= 1
  BY <1>1, ConsoleAssumption
<1>7. QED BY <1>1, <1>2, <1>3, <1>4, <1>5, <1>6

\* A new tab has a title above those in use.
LEMMA OpenWithKeeps == ASSUME TabsInv, T!OpenWith PROVE TabsInv'
<1> USE ConsoleAssumption DEF T!Places
<1> DEFINE new == [id |-> opened + 1, title |-> T!NextTitle]
<1>1. /\ opened < MaxTabs /\ opened' = opened + 1 /\ queries' = Append(queries, new)
      /\ shownQ' = Len(queries')
      /\ UNCHANGED <<views, results, current, runs, by, spoilt>>
  BY DEF T!OpenWith
<1>2. queries \in Seq([id : Nat, title : Nat]) /\ Len(queries) <= opened /\ opened \in 1 .. MaxTabs
  BY TabsAre
<1>3. T!NextTitle \in 1 .. opened + 1 /\ \A t \in Titles : t < T!NextTitle
  <2>1. Titles \subseteq 1 .. opened
    BY DEF TabsInv, TabsType
  <2>2. T!Largest(Titles) \in 0 .. opened /\ \A t \in Titles : t <= T!Largest(Titles)
    BY <1>2, <2>1, LargestIs
  <2>3. T!NextTitle = T!Largest(Titles) + 1
    BY DEF T!NextTitle, Titles
  <2>4. QED BY <1>2, <2>1, <2>2, <2>3
<1>4. new \in [id : Nat, title : Nat] /\ new.title = T!NextTitle
  BY <1>2, <1>3
<1> HIDE DEF new
<1>5. /\ queries' \in Seq([id : Nat, title : Nat]) /\ Len(queries') = Len(queries) + 1
      /\ \A i \in 1 .. Len(queries) : queries'[i] = queries[i]
      /\ queries'[Len(queries) + 1] = new
  BY <1>1, <1>2, <1>4
<1>6. \A i \in 1 .. Len(queries) : queries[i].title \in Titles
  BY <1>2 DEF Titles
<1>7. \A i \in DOMAIN queries' : i \in 1 .. Len(queries) \/ i = Len(queries) + 1
  BY <1>2, <1>5
<1>8. TabsType'
  <2>1. Titles' \subseteq 1 .. opened'
    <3>1. SUFFICES ASSUME NEW i \in DOMAIN queries' PROVE queries'[i].title \in 1 .. opened + 1
      BY <1>1 DEF Titles
    <3>2. CASE i \in 1 .. Len(queries)
      <4>1. queries'[i].title \in 1 .. opened /\ opened \in Nat
        BY <3>2, <1>5, TabsAre
      <4>2. QED BY <4>1
    <3>3. CASE i = Len(queries) + 1
      BY <3>3, <1>3, <1>4, <1>5
    <3>4. QED BY <1>7, <3>2, <3>3
  <2>2. opened' \in T!Places /\ Len(queries') <= opened' /\ shownQ' \in 1 .. Len(queries')
    BY <1>1, <1>2, <1>5
  <2>3. QED BY <1>1, <1>5, <2>1, <2>2 DEF TabsInv, TabsType
<1>9. OwnTitles'
  <2>1. SUFFICES ASSUME NEW i \in DOMAIN queries', NEW j \in DOMAIN queries',
                        queries'[i].title = queries'[j].title
                 PROVE  i = j
    BY DEF OwnTitles
  <2>2. CASE i \in 1 .. Len(queries) /\ j \in 1 .. Len(queries)
    <3>1. i \in DOMAIN queries /\ j \in DOMAIN queries /\ queries[i].title = queries[j].title
      BY <2>1, <2>2, <1>5, TabsAre
    <3>2. QED BY <3>1 DEF TabsInv, OwnTitles
  <2>3. ASSUME NEW k \in 1 .. Len(queries) PROVE queries'[k].title # queries'[Len(queries) + 1].title
    <3>1. queries'[k].title \in Titles /\ queries'[Len(queries) + 1].title = T!NextTitle
      BY <1>4, <1>5, <1>6
    <3>2. queries'[k].title \in 1 .. opened /\ queries'[k].title < T!NextTitle
      BY <3>1, <1>3 DEF TabsInv, TabsType
    <3>3. QED BY <3>1, <3>2, <1>2
  <2>4. QED BY <1>7, <2>1, <2>2, <2>3
<1>10. Filed'
  BY <1>1 DEF TabsInv, Filed
<1>11. QED BY <1>8, <1>9, <1>10 DEF TabsInv

LEMMA CloseActiveKeeps == ASSUME TabsInv, T!CloseActive PROVE TabsInv'
<1> USE ConsoleAssumption DEF T!Places
<1>1. /\ Len(queries) > 1 /\ queries' = T!RemoveAt(queries, shownQ)
      /\ shownQ' = (IF shownQ > Len(queries') THEN Len(queries') ELSE shownQ)
      /\ UNCHANGED <<opened, views, results, current, runs, by, spoilt>>
  BY DEF T!CloseActive
<1>2. /\ queries \in Seq([id : Nat, title : Nat]) /\ Len(queries) <= opened /\ opened \in 1 .. MaxTabs
      /\ shownQ \in 1 .. Len(queries) /\ Len(queries) \in Nat /\ DOMAIN queries = 1 .. Len(queries)
  BY TabsAre
<1>3. /\ queries' \in Seq([id : Nat, title : Nat]) /\ Len(queries') = Len(queries) - 1
      /\ DOMAIN queries' = 1 .. Len(queries) - 1
      /\ \A i \in 1 .. Len(queries) - 1 : queries'[i] = IF i < shownQ THEN queries[i] ELSE queries[i + 1]
  <2>1. /\ queries' \in Seq([id : Nat, title : Nat]) /\ Len(queries') = Len(queries) - 1
        /\ \A i \in 1 .. Len(queries') : queries'[i] = IF i < shownQ THEN queries[i] ELSE queries[i + 1]
    BY <1>1, <1>2, RemoveAtFacts
  <2>2. DOMAIN queries' = 1 .. Len(queries')
    BY <2>1
  <2>3. QED BY <2>1, <2>2
<1>4. TabsType'
  <2>1. Titles' \subseteq 1 .. opened'
    <3>1. SUFFICES ASSUME NEW i \in DOMAIN queries' PROVE queries'[i].title \in 1 .. opened
      BY <1>1 DEF Titles
    <3>2. PICK j \in DOMAIN queries : queries'[i] = queries[j]
      <4>1. i \in 1 .. Len(queries) - 1
        BY <1>3
      <4>2. i \in 1 .. Len(queries) /\ i + 1 \in 1 .. Len(queries)
        <5>1. Len(queries) \in Nat
          BY <1>2
        <5>2. QED BY <4>1, <5>1
      <4>3. queries'[i] = queries[i] \/ queries'[i] = queries[i + 1]
        BY <4>1, <1>3
      <4>4. QED BY <4>2, <4>3, <1>2
    <3>3. queries[j].title \in Titles
      BY DEF Titles
    <3>4. QED BY <3>2, <3>3 DEF TabsInv, TabsType
  <2>2. Len(queries') <= opened' /\ shownQ' \in 1 .. Len(queries')
    <3>1. Len(queries) \in Nat /\ Len(queries') = Len(queries) - 1
      BY <1>2, <1>3
    <3>2. QED BY <3>1, <1>1, <1>2
  <2>3. QED BY <1>1, <1>3, <2>1, <2>2 DEF TabsInv, TabsType
<1>5. OwnTitles'
  <2>1. SUFFICES ASSUME NEW i \in DOMAIN queries', NEW j \in DOMAIN queries',
                        queries'[i].title = queries'[j].title
                 PROVE  i = j
    BY DEF OwnTitles
  <2> DEFINE From(n) == IF n < shownQ THEN n ELSE n + 1
  <2>2. ASSUME NEW n \in DOMAIN queries'
        PROVE  n \in 1 .. Len(queries) - 1 /\ From(n) \in DOMAIN queries /\ queries'[n] = queries[From(n)]
    <3>1. n \in 1 .. Len(queries) - 1
      BY <1>3
    <3>2. From(n) \in DOMAIN queries
      <4>1. Len(queries) \in Nat /\ shownQ \in 1 .. Len(queries) /\ DOMAIN queries = 1 .. Len(queries)
        BY <1>2
      <4>2. QED BY <3>1, <4>1
    <3>3. QED BY <3>1, <3>2, <1>3
  <2>3. From(i) = From(j)
    <3> HIDE DEF From
    <3>1. QED BY <2>1, <2>2 DEF TabsInv, OwnTitles
  <2>4. i \in Nat /\ j \in Nat /\ shownQ \in Nat
    <3>1. Len(queries) \in Nat /\ shownQ \in 1 .. Len(queries)
      BY <1>2
    <3>2. i \in 1 .. Len(queries) - 1 /\ j \in 1 .. Len(queries) - 1
      BY <2>2
    <3>3. QED BY <3>1, <3>2
  <2>5. QED BY <2>3, <2>4
<1>6. Filed'
  BY <1>1 DEF TabsInv, Filed
<1>7. QED BY <1>4, <1>5, <1>6 DEF TabsInv

\* A run is of a tab there is, and takes its title.
LEMMA RunKeeps == ASSUME TabsInv, NEW id, T!Run(id) PROVE TabsInv'
<1> USE ConsoleAssumption DEF T!Places
<1> DEFINE pl == IF T!PlaceOf(id) = {} THEN shownQ ELSE CHOOSE i \in T!PlaceOf(id) : TRUE
           new == [place |-> pl, title |-> queries[pl].title, stage |-> "create"]
<1>1. /\ current = None /\ runs < MaxRuns /\ current' = new
      /\ by' = Append(by, queries[pl].title) /\ runs' = runs + 1
      /\ UNCHANGED <<queries, shownQ, opened, views, results, spoilt>>
  BY DEF T!Run
<1>2. /\ queries \in Seq([id : Nat, title : Nat]) /\ Len(queries) <= opened /\ opened \in 1 .. MaxTabs
      /\ shownQ \in 1 .. Len(queries) /\ runs \in 0 .. MaxRuns /\ by \in Seq(Nat) /\ Len(by) = runs
  BY DEF TabsInv, TabsType
<1>3. pl \in 1 .. Len(queries)
  <2>1. T!PlaceOf(id) \subseteq 1 .. Len(queries)
    BY <1>2 DEF T!PlaceOf
  <2>2. QED BY <1>2, <2>1
<1> HIDE DEF pl
<1>4. new \in UnderWay /\ new.title = queries[pl].title /\ new.stage = "create" /\ queries[pl].title \in Nat
  <2>1. queries[pl].title \in Nat
    <3>1. opened \in Nat /\ \A i \in 1 .. Len(queries) : queries[i].title \in 1 .. opened
      BY TabsAre
    <3>2. queries[pl].title \in 1 .. opened
      BY <1>3, <3>1
    <3>3. QED BY <3>1, <3>2
  <2>2. pl \in T!Places
    BY <1>2, <1>3
  <2>3. QED BY <2>1, <2>2 DEF UnderWay
<1> HIDE DEF new
<1>5. /\ by' \in Seq(Nat) /\ Len(by') = runs + 1 /\ by'[runs + 1] = queries[pl].title
      /\ \A k \in 1 .. runs : by'[k] = by[k]
  <2>1. by' = Append(by, queries[pl].title) /\ queries[pl].title \in Nat
    BY <1>1, <1>4
  <2>2. QED BY <1>2, <2>1
<1>6. TabsType'
  <2>1. runs' \in 0 .. MaxRuns /\ current' \in UnderWay \cup {None} /\ Titles' = Titles
    BY <1>1, <1>2, <1>4 DEF Titles
  <2>2. QED BY <1>1, <1>5, <2>1 DEF TabsInv, TabsType, UnderWay
<1>7. OwnTitles'
  BY <1>1 DEF TabsInv, OwnTitles
<1>8. Filed'
  <2>1. runs' >= 1 /\ by'[runs'] = current'.title /\ current'.stage # "count"
    BY <1>1, <1>2, <1>4, <1>5
  <2>2. ASSUME NEW i \in DOMAIN results, results[i].place \notin spoilt
        PROVE  views[results[i].place] \in 1 .. runs' /\ results[i].label = by'[views[results[i].place]]
    <3>1. views[results[i].place] \in 1 .. runs /\ results[i].label = by[views[results[i].place]]
      BY <2>2 DEF TabsInv, Filed
    <3>2. QED BY <3>1, <1>1, <1>2, <1>5
  <2>3. QED BY <1>1, <2>1, <2>2 DEF TabsInv, Filed
<1>9. QED BY <1>6, <1>7, <1>8 DEF TabsInv

\* A view that is made over another spoils the place until its rows are shown.
LEMMA BindKeeps == ASSUME TabsInv, T!Bind PROVE TabsInv'
<1> USE ConsoleAssumption DEF T!Places
<1>1. /\ current # None /\ current.stage = "create"
      /\ views' = [views EXCEPT ![current.place] = runs]
      /\ current' = [current EXCEPT !.stage = "count"]
      /\ spoilt' = spoilt \cup {current.place}
      /\ UNCHANGED <<queries, shownQ, opened, results, runs, by>>
  BY DEF T!Bind
<1>2. current \in UnderWay /\ views \in [T!Places -> Nat \cup {None}] /\ runs \in 0 .. MaxRuns
  BY <1>1 DEF TabsInv, TabsType
<1>3. /\ current' \in UnderWay /\ current'.place = current.place
      /\ current'.title = current.title /\ current'.stage = "count" /\ current.place \in T!Places
  BY <1>1, <1>2 DEF UnderWay
<1>4. TabsType'
  <2>1. views' \in [T!Places -> Nat \cup {None}] /\ spoilt' \subseteq T!Places /\ Titles' = Titles
    BY <1>1, <1>2, <1>3 DEF TabsInv, TabsType, Titles
  <2>2. QED BY <1>1, <1>3, <2>1 DEF TabsInv, TabsType, UnderWay
<1>5. OwnTitles'
  BY <1>1 DEF TabsInv, OwnTitles
<1>6. Filed'
  <2>1. runs' >= 1 /\ by'[runs'] = current'.title /\ views'[current'.place] = runs' /\ current'.place \in spoilt'
    BY <1>1, <1>2, <1>3 DEF TabsInv, Filed
  <2>2. ASSUME NEW i \in DOMAIN results, results[i].place \notin spoilt'
        PROVE  /\ views'[results[i].place] \in 1 .. runs
               /\ results[i].label = by[views'[results[i].place]]
    <3>1. results[i].place \notin spoilt /\ results[i].place # current.place
      BY <1>1, <2>2
    <3>2. results[i].place \in T!Places
      <4>1. results[i] \in [place : T!Places, label : Nat]
        BY TabsAre
      <4>2. QED BY <4>1
    <3>3. views'[results[i].place] = views[results[i].place]
      BY <1>1, <1>2, <3>1, <3>2
    <3>4. QED BY <3>1, <3>3 DEF TabsInv, Filed
  <2>3. QED BY <1>1, <2>1, <2>2 DEF TabsInv, Filed
<1>7. QED BY <1>4, <1>5, <1>6 DEF TabsInv

\* The rows of a run are shown in one tab, and the others stay as they are.
LEMMA ShowRowsIs ==
  ASSUME TabsInv, NEW p \in T!Places, NEW t \in Nat, T!ShowRows(p, t)
  PROVE  /\ results' \in Seq([place : T!Places, label : Nat])
         /\ \A i \in DOMAIN results' :
              \/ results'[i].place = p /\ results'[i].label = t
              \/ i \in DOMAIN results /\ results'[i] = results[i] /\ results'[i].place # p
         /\ \A i, j \in DOMAIN results' : results'[i].place = results'[j].place => i = j
<1> DEFINE R == [place : T!Places, label : Nat]
           same == {i \in DOMAIN results : results[i].place = p}
<1>1. /\ results \in Seq(R) /\ DOMAIN results = 1 .. Len(results) /\ Len(results) \in Nat
      /\ \A i \in 1 .. Len(results) : results[i] \in R
  BY TabsAre DEF TabsInv, TabsType
<1>2. \A i, j \in DOMAIN results : results[i].place = results[j].place => i = j
  BY DEF TabsInv, Filed
<1>3. CASE same # {}
  <2>1. PICK c \in same : results' = [results EXCEPT ![c].label = t]
    BY <1>3 DEF T!ShowRows
  <2>2. /\ DOMAIN results' = 1 .. Len(results) /\ c \in DOMAIN results /\ results[c].place = p
        /\ \A i \in DOMAIN results : i # c => results'[i] = results[i]
    BY <1>1, <2>1
  <2>3. results'[c] \in R /\ results'[c].place = p /\ results'[c].label = t
    BY <1>1, <2>1, <2>2
  <2>4. results' \in Seq(R)
    <3> HIDE DEF R
    <3>1. \A i \in 1 .. Len(results) : results'[i] \in R
      BY <1>1, <2>2, <2>3
    <3>2. results' = [i \in 1 .. Len(results) |-> results'[i]]
      BY <1>1, <2>1
    <3>3. QED BY <1>1, <3>1, <3>2
  <2>5. \A i \in DOMAIN results' : results'[i].place = results[i].place
    BY <1>1, <2>2, <2>3
  <2>6. QED
    BY <1>1, <1>2, <2>2, <2>3, <2>4, <2>5
<1>4. CASE same = {}
  <2> DEFINE new == [place |-> p, label |-> t]
  <2>1. results' = Append(results, new)
    BY <1>4 DEF T!ShowRows
  <2>2. new \in R /\ new.place = p /\ new.label = t
    OBVIOUS
  <2> HIDE DEF new
  <2>3. /\ results' \in Seq(R) /\ Len(results') = Len(results) + 1
        /\ \A i \in 1 .. Len(results) : results'[i] = results[i]
        /\ results'[Len(results) + 1] = new
    BY <1>1, <2>1, <2>2, AppendProperties
  <2>4. \A i \in DOMAIN results' : i \in DOMAIN results \/ i = Len(results) + 1
    BY <1>1, <2>3
  <2>5. \A i \in DOMAIN results : results'[i] = results[i] /\ results'[i].place # p
    BY <1>1, <1>4, <2>3
  <2>6. \A i, j \in DOMAIN results' : results'[i].place = results'[j].place => i = j
    BY <1>2, <2>2, <2>3, <2>4, <2>5
  <2>7. QED
    BY <2>2, <2>3, <2>4, <2>5, <2>6
<1>5. QED BY <1>3, <1>4

\* The rows that were counted are those of the place's view, which is whole again.
LEMMA FinishKeeps == ASSUME TabsInv, T!Finish PROVE TabsInv'
<1> USE ConsoleAssumption
<1>1. /\ current # None /\ current.stage = "count" /\ current' = None
      /\ T!ShowRows(current.place, current.title) /\ spoilt' = spoilt \ {current.place}
      /\ UNCHANGED <<queries, shownQ, opened, views, runs, by>>
  BY DEF T!Finish
<1>2. current.place \in T!Places /\ current.title \in Nat /\ runs \in Nat
  BY <1>1 DEF TabsInv, TabsType, UnderWay
<1>3. /\ results' \in Seq([place : T!Places, label : Nat])
      /\ \A i \in DOMAIN results' :
           \/ results'[i].place = current.place /\ results'[i].label = current.title
           \/ i \in DOMAIN results /\ results'[i] = results[i] /\ results'[i].place # current.place
      /\ \A i, j \in DOMAIN results' : results'[i].place = results'[j].place => i = j
  BY <1>1, <1>2, ShowRowsIs
<1>4. TabsType'
  BY <1>1, <1>3 DEF TabsInv, TabsType, Titles
<1>5. OwnTitles'
  BY <1>1 DEF TabsInv, OwnTitles
<1>6. Filed'
  <2>1. ASSUME NEW i \in DOMAIN results', results'[i].place \notin spoilt'
        PROVE  /\ views[results'[i].place] \in 1 .. runs
               /\ results'[i].label = by[views[results'[i].place]]
    <3>1. CASE results'[i].place = current.place /\ results'[i].label = current.title
      BY <1>1, <1>2, <3>1 DEF TabsInv, Filed
    <3>2. CASE i \in DOMAIN results /\ results'[i] = results[i] /\ results'[i].place # current.place
      BY <1>1, <2>1, <3>2 DEF TabsInv, Filed
    <3>3. QED BY <1>3, <3>1, <3>2
  <2>2. QED BY <1>1, <1>3, <2>1 DEF Filed
<1>7. QED BY <1>4, <1>5, <1>6 DEF TabsInv

\* The tabs of rows that are left are those there were, in their order.
LEMMA CloseResultIs ==
  ASSUME TabsInv, NEW k, T!CloseResult(k)
  PROVE  /\ k \in Nat /\ results' \in Seq([place : T!Places, label : Nat])
         /\ \A n \in DOMAIN results' :
              LET from == IF n < k THEN n ELSE n + 1
              IN  n \in Nat /\ from \in DOMAIN results /\ results'[n] = results[from]
<1> DEFINE R == [place : T!Places, label : Nat]
<1>1. k \in DOMAIN results /\ results' = T!RemoveAt(results, k)
  BY DEF T!CloseResult
<1>2. results \in Seq(R) /\ DOMAIN results = 1 .. Len(results) /\ Len(results) \in Nat
  BY TabsAre DEF TabsInv, TabsType
<1> HIDE DEF R
<1>3. /\ results' \in Seq(R) /\ Len(results') = Len(results) - 1
      /\ \A i \in 1 .. Len(results') : results'[i] = IF i < k THEN results[i] ELSE results[i + 1]
  BY <1>1, <1>2, RemoveAtFacts
<1>4. DOMAIN results' = 1 .. Len(results) - 1
  BY <1>3
<1>5. QED BY <1>1, <1>2, <1>3, <1>4 DEF R

LEMMA CloseResultKeeps == ASSUME TabsInv, NEW k, T!CloseResult(k) PROVE TabsInv'
<1> DEFINE From(n) == IF n < k THEN n ELSE n + 1
<1>1. UNCHANGED <<queries, shownQ, opened, views, current, runs, by, spoilt>>
  BY DEF T!CloseResult
<1>3. results' \in Seq([place : T!Places, label : Nat])
  BY CloseResultIs
<1>5. ASSUME NEW n \in DOMAIN results'
      PROVE  n \in Nat /\ From(n) \in DOMAIN results /\ results'[n] = results[From(n)]
  BY CloseResultIs
<1>6. k \in Nat
  BY CloseResultIs
<1>7. TabsType'
  BY <1>1, <1>3 DEF TabsInv, TabsType, Titles
<1>8. OwnTitles'
  BY <1>1 DEF TabsInv, OwnTitles
<1>9. Filed'
  <2> HIDE DEF From
  <2>1. \A i \in DOMAIN results' : results'[i].place \notin spoilt =>
           views[results'[i].place] \in 1 .. runs /\ results'[i].label = by[views[results'[i].place]]
    BY <1>5 DEF TabsInv, Filed
  <2>2. ASSUME NEW i \in DOMAIN results', NEW j \in DOMAIN results', results'[i].place = results'[j].place
        PROVE  i = j
    <3>1. From(i) = From(j)
      BY <1>5, <2>2 DEF TabsInv, Filed
    <3>2. i \in Nat /\ j \in Nat
      BY <1>5
    <3>3. QED BY <1>6, <3>1, <3>2 DEF From
  <2>3. QED BY <1>1, <2>1, <2>2 DEF TabsInv, Filed
<1>10. QED BY <1>7, <1>8, <1>9 DEF TabsInv

LEMMA NextTabs == ASSUME TabsInv, [T!Next]_tabs PROVE TabsInv'
<1>1. ASSUME NEW i, T!Select(i) PROVE TabsInv'
  <2>1. i \in DOMAIN queries /\ shownQ' = i
        /\ UNCHANGED <<queries, opened, views, results, current, runs, by, spoilt>>
    BY <1>1 DEF T!Select
  <2>2. shownQ' \in 1 .. Len(queries)
    BY <2>1, TabsAre
  <2>3. TabsType'
    BY <2>1, <2>2 DEF TabsInv, TabsType, Titles
  <2>4. OwnTitles' /\ Filed'
    BY <2>1 DEF TabsInv, OwnTitles, Filed
  <2>5. QED BY <2>3, <2>4 DEF TabsInv
<1>2. CASE T!Over
  BY <1>2 DEF T!Over, TabsInv, TabsType, Titles, OwnTitles, Filed
<1>3. CASE UNCHANGED tabs
  BY <1>3 DEF tabs, TabsInv, TabsType, Titles, OwnTitles, Filed
<1>4. QED
  BY <1>1, <1>2, <1>3, OpenWithKeeps, CloseActiveKeeps, RunKeeps, BindKeeps, FinishKeeps,
     CloseResultKeeps DEF T!Next

\* There are no more tabs of rows than places.
LEMMA FewResults == ASSUME TabsInv PROVE Len(results) <= MaxTabs
<1> DEFINE S == 1 .. Len(results)
           place == [i \in S |-> results[i].place]
<1>1. /\ DOMAIN results = S /\ Len(results) \in Nat
      /\ \A i \in S : results[i] \in [place : T!Places, label : Nat]
  BY TabsAre
<1>2. MaxTabs \in Nat /\ T!Places = 1 .. MaxTabs
  BY ConsoleAssumption DEF T!Places
<1>3. \A i, j \in S : place[i] = place[j] => i = j
  BY <1>1 DEF TabsInv, Filed
<1>4. place \in [S -> T!Places]
  BY <1>1
<1>5. place \in Injection(S, T!Places)
  <2> HIDE DEF place, S
  <2>1. QED BY <1>3, <1>4 DEF Injection, IsInjective
<1>6. IsFiniteSet(T!Places) /\ Cardinality(T!Places) = MaxTabs /\ Cardinality(S) = Len(results)
  <2>1. IsFiniteSet(1 .. MaxTabs) /\ Cardinality(1 .. MaxTabs) = MaxTabs
    BY <1>2, FS_Interval
  <2>2. Cardinality(1 .. Len(results)) = Len(results)
    BY <1>1, FS_Interval
  <2>3. QED BY <1>2, <2>1, <2>2
<1>7. Cardinality(S) <= Cardinality(T!Places)
  <2> HIDE DEF place, S
  <2>1. QED BY <1>5, <1>6, FS_Injection
<1>8. QED BY <1>6, <1>7

LEMMA TabsInductive == T!Spec => []TabsInv
<1>1. T!Init => TabsInv
  BY InitTabs DEF TabsInv
<1>2. TabsInv /\ [T!Next]_tabs => TabsInv'
  BY NextTabs
<1>3. QED BY <1>1, <1>2, PTL DEF T!Spec, tabs, T!vars

-----------------------------------------------------------------------------
(* The console's runs and the tabs of their rows. *)

\* The run the lanes have out is the one the tabs have under way, the last begun;
\* and rows that are shown whole are of a run that ended well.
RunsAgree ==
  /\ order \in Seq(Runs) /\ Len(order) = runs
  /\ run # None <=> current # None
  /\ run # None => runs >= 1 /\ order[runs] = run.query
  /\ RowsRan

\* What has ended stays as it ended.
LEMMA EndedStays ==
  ASSUME IInv, [Next]_vars, NEW q \in Runs, at[q] = "ended"
  PROVE  at'[q] = "ended" /\ result'[q] = result[q] /\ (q \in early' => q \in early)
<1> DEFINE Stays == at'[q] = "ended" /\ result'[q] = result[q] /\ (q \in early' => q \in early)
<1> USE LanesAssumption DEF Queries
<1>1. TypeOK /\ ~Out(q)
  BY DEF IInv, Out
<1>2. CASE Cancel
  <2>1. run.query # q
    BY <1>1, <1>2 DEF Cancel, IInv, GuardIsTheRuns
  <2>2. QED BY <1>2, <2>1 DEF Cancel
<1>3. ASSUME NEW p \in Queries, p # q, Run(p) \/ Change(p) \/ Read(p) \/ Work(p) PROVE Stays
  BY <1>1, <1>3 DEF TypeOK, Run, Change, Read, Work, Lock, Return, GoOn, Finish, Changed, HaveRead, Ask, Close
<1>4. ~(Run(q) \/ Change(q) \/ Read(q) \/ Lock(q) \/ GoOn(q) \/ Finish(q) \/ Changed(q) \/ HaveRead(q))
  BY DEF Run, Change, Read, Lock, GoOn, Finish, Changed, HaveRead, Over
<1>5. ~Return(q)
  BY LanesAssumption DEF IInv, Executing, Return
<1>6. CASE UNCHANGED vars
  BY <1>6 DEF vars
<1>7. QED
  BY <1>2, <1>3, <1>4, <1>5, <1>6 DEF Next, Work

\* Every step of the console is one of the lanes and one of the tabs.
LEMMA BothStep == ASSUME [ConsoleNext]_consoleVars PROVE [Next]_vars /\ [T!Next]_tabs
<1>1. [Next]_vars
  BY DEF ConsoleNext, consoleVars, Start, Back, ShowOrNot, Apart, Next, Work
<1>2. [T!Next]_tabs
  BY DEF ConsoleNext, consoleVars, Start, Back, ShowOrNot, Apart, T!Next, T!Places
<1>3. QED BY <1>1, <1>2

LEMMA InitRuns == ConsoleInit => RunsAgree
BY DEF ConsoleInit, Init, T!Init, RunsAgree, RowsRan

\* Rows that stay where they were, whole and of the view they had, stay the rows
\* of a run that ended well.
LEMMA RowsStay ==
  ASSUME IInv, TabsInv, RunsAgree, [Next]_vars, NEW i \in DOMAIN results, results[i].place \notin spoilt,
         \A k \in 1 .. runs : order'[k] = order[k]
  PROVE  LET q == order'[views[results[i].place]]
         IN  at'[q] = "ended" /\ result'[q] = "ok" /\ q \notin early'
<1> DEFINE k == views[results[i].place]
<1>1. k \in 1 .. runs /\ order'[k] = order[k]
  BY DEF TabsInv, Filed
<1>2. order[k] \in Runs
  BY <1>1 DEF RunsAgree
<1>3. at[order[k]] = "ended" /\ result[order[k]] = "ok" /\ order[k] \notin early
  BY DEF RunsAgree, RowsRan
<1>4. QED BY <1>1, <1>2, <1>3, EndedStays

LEMMA StartRuns ==
  ASSUME IInv, TabsInv, RunsAgree, [Next]_vars, NEW q, NEW id, Start(q, id)
  PROVE  RunsAgree'
<1>1. q \in Runs /\ run' = [query |-> q, armed |-> TRUE]
  BY DEF Start, Run
<1>2. /\ runs' = runs + 1 /\ order' = Append(order, q) /\ UNCHANGED <<views, results, spoilt>>
  BY DEF Start, T!Run
<1>3. current' # None
  <2> DEFINE pl == IF T!PlaceOf(id) = {} THEN shownQ ELSE CHOOSE i \in T!PlaceOf(id) : TRUE
  <2>1. current' = [place |-> pl, title |-> queries[pl].title, stage |-> "create"]
    BY DEF Start, T!Run
  <2>2. pl \in 1 .. Len(queries)
    BY TabsAre DEF T!PlaceOf
  <2>3. pl \in T!Places /\ queries[pl].title \in Nat
    <3>1. opened \in Nat /\ opened <= MaxTabs /\ Len(queries) <= opened /\ Len(queries) \in Nat
          /\ \A i \in 1 .. Len(queries) : queries[i].title \in 1 .. opened
      BY TabsAre
    <3> HIDE DEF pl
    <3>2. QED BY <2>2, <3>1, ConsoleAssumption DEF T!Places
  <2> HIDE DEF pl
  <2>4. current' \in UnderWay
    BY <2>1, <2>3 DEF UnderWay
  <2>5. QED BY <2>4, ConsoleAssumption DEF UnderWay, T!Places
<1>4. /\ order' \in Seq(Runs) /\ Len(order') = runs' /\ order'[runs'] = q /\ runs' >= 1
      /\ \A k \in 1 .. runs : order'[k] = order[k]
  BY <1>1, <1>2 DEF RunsAgree
<1>5. RowsRan'
  BY <1>2, <1>4, RowsStay DEF RowsRan
<1>6. run' # None /\ run'.query = q
  BY <1>1, AGuard
<1>7. QED BY <1>3, <1>4, <1>5, <1>6 DEF RunsAgree

LEMMA BackRuns ==
  ASSUME IInv, TabsInv, RunsAgree, [Next]_vars, NEW q, Back(q)
  PROVE  RunsAgree'
<1>1. UNCHANGED <<order, run>> /\ (T!Bind \/ UNCHANGED tabs)
  BY DEF Back, Return
<1>2. CASE UNCHANGED tabs
  <2>1. RowsRan'
    BY <1>1, <1>2, RowsStay DEF RowsRan, tabs
  <2>2. QED BY <1>1, <1>2, <2>1 DEF RunsAgree, tabs
<1>3. CASE T!Bind
  <2>1. /\ current # None /\ current' = [current EXCEPT !.stage = "count"]
        /\ views' = [views EXCEPT ![current.place] = runs]
        /\ spoilt' = spoilt \cup {current.place} /\ UNCHANGED <<results, runs>>
    BY <1>3 DEF T!Bind
  <2>2. current' # None
    <3>1. current \in UnderWay
      BY <2>1 DEF TabsInv, TabsType
    <3>2. current' \in UnderWay
      BY <2>1, <3>1 DEF UnderWay
    <3>3. QED BY <3>2, ConsoleAssumption DEF UnderWay, T!Places
  <2>3. RowsRan'
    <3>1. SUFFICES ASSUME NEW i \in DOMAIN results, results[i].place \notin spoilt'
                   PROVE  LET p == order'[views'[results[i].place]]
                          IN  at'[p] = "ended" /\ result'[p] = "ok" /\ p \notin early'
      BY <2>1 DEF RowsRan
    <3>2. results[i].place \notin spoilt /\ results[i].place # current.place
      BY <2>1, <3>1
    <3>3. results[i].place \in T!Places /\ views \in [T!Places -> Nat \cup {None}]
      <4>1. results[i] \in [place : T!Places, label : Nat]
        BY TabsAre
      <4>2. QED BY <4>1 DEF TabsInv, TabsType
    <3>4. views'[results[i].place] = views[results[i].place]
      BY <2>1, <3>2, <3>3
    <3>5. QED BY <1>1, <3>2, <3>4, RowsStay
  <2>4. QED BY <1>1, <2>1, <2>2, <2>3 DEF RunsAgree
<1>4. QED BY <1>1, <1>2, <1>3

\* What is shown now is of the run that ended now.
LEMMA ShownRuns ==
  ASSUME IInv, IInv', TabsInv, RunsAgree, [Next]_vars, NEW q \in Queries, ShowOrNot(q)
  PROVE  RunsAgree'
<1>1. q \in Runs /\ Out(q) /\ Finish(q) /\ UNCHANGED order
  BY DEF ShowOrNot, Finish, Over, Out
<1>2. run # None /\ run.query = q
  BY <1>1 DEF IInv, GuardIsTheRuns
<1>3. run' = None /\ at'[q] = "ended"
  BY <1>1, <1>2 DEF Finish, Close, IInv, TypeOK
<1>4. CASE T!Over
  <2>1. current' = None /\ UNCHANGED <<views, results, runs, spoilt>>
    BY <1>4 DEF T!Over
  <2>2. RowsRan'
    BY <1>1, <2>1, RowsStay DEF RowsRan
  <2>3. QED BY <1>1, <1>3, <2>1, <2>2 DEF RunsAgree
<1>5. CASE result'[q] = "ok" /\ T!Finish
  <2>1. /\ current # None /\ current.stage = "count" /\ current' = None
        /\ T!ShowRows(current.place, current.title) /\ spoilt' = spoilt \ {current.place}
        /\ UNCHANGED <<views, runs>>
    BY <1>5 DEF T!Finish
  <2>2. current.place \in T!Places /\ current.title \in Nat
    BY <2>1 DEF TabsInv, TabsType, UnderWay
  <2>3. \A i \in DOMAIN results' :
          \/ results'[i].place = current.place
          \/ i \in DOMAIN results /\ results'[i] = results[i] /\ results'[i].place # current.place
    BY <2>1, <2>2, ShowRowsIs
  <2>4. order[views[current.place]] = q
    BY <1>2, <2>1 DEF TabsInv, Filed, RunsAgree
  <2>5. q \notin early'
    BY <1>3, <1>5 DEF IInv, EarlyStops
  <2>6. ASSUME NEW i \in DOMAIN results', results'[i].place \notin spoilt'
        PROVE  LET p == order'[views'[results'[i].place]]
               IN  at'[p] = "ended" /\ result'[p] = "ok" /\ p \notin early'
    <3>1. CASE results'[i].place = current.place
      BY <1>1, <1>3, <1>5, <2>1, <2>4, <2>5, <3>1
    <3>2. CASE i \in DOMAIN results /\ results'[i] = results[i] /\ results'[i].place # current.place
      <4>1. results[i].place \notin spoilt
        BY <2>1, <2>6, <3>2
      <4>2. QED BY <1>1, <2>1, <3>2, <4>1, RowsStay
    <3>3. QED BY <2>3, <3>1, <3>2
  <2>7. RowsRan'
    BY <2>6 DEF RowsRan
  <2>8. QED BY <1>1, <1>3, <2>1, <2>7 DEF RunsAgree
<1>6. QED BY <1>4, <1>5 DEF ShowOrNot

LEMMA ApartRuns ==
  ASSUME IInv, TabsInv, RunsAgree, [Next]_vars, Apart
  PROVE  RunsAgree'
<1>1. CASE UNCHANGED <<tabs, order>>
      /\ (Cancel \/ \E q \in Queries : Change(q) \/ Read(q) \/ Lock(q) \/ GoOn(q) \/ Changed(q) \/ HaveRead(q))
  <2>1. run' = run \/ (run # None /\ run' = [query |-> run.query, armed |-> FALSE])
    BY <1>1 DEF Cancel, Change, Read, Lock, GoOn, Changed, HaveRead, InterruptViews
  <2>2. run' = run \/ (run # None /\ run' # None /\ run'.query = run.query)
    <3>1. run # None => run.query \in Runs
      BY DEF IInv, TypeOK
    <3>2. QED BY <2>1, <3>1, AGuard
  <2>3. RowsRan'
    BY <1>1, RowsStay DEF RowsRan, tabs
  <2>4. QED BY <1>1, <2>2, <2>3 DEF RunsAgree, tabs
<1>2. ASSUME UNCHANGED <<vars, order>>, NEW k, T!CloseResult(k) PROVE RunsAgree'
  <2>1. UNCHANGED <<views, current, runs, spoilt>>
    BY <1>2 DEF T!CloseResult
  <2>2. \A i \in DOMAIN results' : \E j \in DOMAIN results : results'[i] = results[j]
    BY <1>2, CloseResultIs
  <2>3. RowsRan'
    BY <1>2, <2>1, <2>2, RowsStay DEF RowsRan
  <2>4. QED BY <1>2, <2>1, <2>3 DEF RunsAgree, vars
<1>3. ASSUME UNCHANGED <<vars, order>>, UNCHANGED <<views, results, current, runs, spoilt>> PROVE RunsAgree'
  <2>1. RowsRan'
    BY <1>3, RowsStay DEF RowsRan
  <2>2. QED BY <1>3, <2>1 DEF RunsAgree, vars
<1>4. QED
  BY <1>1, <1>2, <1>3 DEF Apart, T!OpenWith, T!CloseActive, T!Select

LEMMA ConsoleInductive == ConsoleSpec => [](IInv /\ TabsInv /\ RunsAgree)
<1>1. ConsoleInit => IInv /\ TabsInv /\ RunsAgree
  BY Starts, InitTabs, InitRuns DEF ConsoleInit, TabsInv
<1>2. ASSUME IInv, TabsInv, RunsAgree, [ConsoleNext]_consoleVars PROVE IInv' /\ TabsInv' /\ RunsAgree'
  <2>1. [Next]_vars /\ [T!Next]_tabs
    BY <1>2, BothStep
  <2>2. IInv' /\ TabsInv'
    BY <1>2, <2>1, TypeKept, SlotKept, EarlyKept, NextTabs DEF IInv
  <2>3. CASE UNCHANGED consoleVars
    <3>1. RowsRan'
      BY <1>2, <2>1, <2>3, RowsStay DEF RowsRan, consoleVars, tabs
    <3>2. UNCHANGED <<run, current, runs, order>>
      BY <2>3 DEF consoleVars, tabs, vars
    <3>3. QED BY <1>2, <2>2, <3>1, <3>2 DEF RunsAgree
  <2>4. QED
    BY <1>2, <2>1, <2>2, <2>3, StartRuns, BackRuns, ShownRuns, ApartRuns DEF ConsoleNext
<1>3. QED
  BY <1>1, <1>2, PTL DEF ConsoleSpec

\* A tab of rows is labelled with the query tab whose run made them, for any
\* number of tabs opened and closed and any number of runs.
THEOREM LabelledAlways == ConsoleSpec => []Labelled
<1>1. TabsInv => Labelled
  BY DEF TabsInv, Filed, Labelled, T!Labelled
<1>2. QED BY ConsoleInductive, <1>1, PTL

\* The rows a tab shows are those of a run that was neither stopped before they
\* were counted nor failed, whatever was open, closed and run since.
THEOREM RowsRanAlways == ConsoleSpec => []RowsRan
<1>1. RunsAgree => RowsRan
  BY DEF RunsAgree
<1>2. QED BY ConsoleInductive, <1>1, PTL

\* The lanes and the tabs stay well formed together; there is always a query tab,
\* and no two have one title.
THEOREM ConsoleTypeCorrect == ConsoleSpec => []ConsoleTypeOK
<1>1. ASSUME IInv, TabsInv, RunsAgree PROVE ConsoleTypeOK
  <2>1. T!TypeOK
    <3>1. DOMAIN queries = 1 .. Len(queries)
      BY <1>1, TabsAre
    <3>2. Len(results) <= MaxTabs
      BY <1>1, FewResults
    <3>3. QED BY <1>1, <3>1, <3>2 DEF TabsInv, TabsType, OwnTitles, T!TypeOK
  <2>2. QED BY <1>1, <2>1 DEF IInv, RunsAgree, ConsoleTypeOK
<1>2. QED BY ConsoleInductive, <1>1, PTL

\* The tabs beside the lanes make no step they could not make alone.
THEOREM ConsoleImplementsTabs == ConsoleSpec => T!Spec
<1>1. ConsoleInit => T!Init
  BY DEF ConsoleInit
<1>2. [ConsoleNext]_consoleVars => [T!Next]_tabs
  BY BothStep
<1>3. QED
  BY <1>1, <1>2, PTL DEF ConsoleSpec, T!Spec, tabs, T!vars
=============================================================================
