------------------------------ MODULE EngineTables ------------------------------
(***************************************************************************)
(* The tables of one engine and what it knows of where they came from: the *)
(* database, the rows of __dat0_meta_origins in it, and the map in memory  *)
(* that decides whether a file is read into its own table again or into a  *)
(* new one beside it.                                                      *)
(*                                                                         *)
(* An operation changes database and rows in one step, under the lock of   *)
(* the connection, and the map when it is back.  Rows are written as best  *)
(* they can be: one that cannot be fails no operation.  SQL of the user's  *)
(* own changes the database alone.  An engine opened again knows what the  *)
(* rows say, and over that what it is told: by the session's tabs, or by   *)
(* the map of the engine before it.                                        *)
(***************************************************************************)
EXTENDS Naturals, FiniteSets

CONSTANTS
  Last,     \* names are 1 .. Last: the files' common stem, stem_2, ...
  Files,    \* files of one stem
  Ops,      \* operations that may be in flight at once
  MaxCalls, \* bound: operations, statements and attachments
  Nothing   \* no table, no origin, no operation

Names == 1 .. Last
Sources == Files \cup {"made"}
Call_Type == [kind : {"import", "create", "drop", "rename"}, name : Names, to : Names,
              file : Files \cup {Nothing}, own : SUBSET Names,
              applied : BOOLEAN, alone : BOOLEAN, raced : BOOLEAN]

ASSUME TablesAssumption ==
  /\ {Last, MaxCalls} \subseteq Nat \ {0}
  /\ Nothing \notin Sources \cup {"attached"} /\ {"made", "attached"} \cap Files = {}
  /\ Nothing \notin Call_Type

VARIABLES
  db,       \* each name's table, as where its data is from
  meta,     \* each name's row in the database
  origins,  \* each name's entry in memory
  linked,   \* names of the tables of an attached database
  tabbed,   \* the session's record: the files of the tabs of each name
  op,       \* operations in flight
  calls,    \* calls so far
  unkept,   \* history: names whose row could not be written
  loose,    \* history: names whose table the user's SQL changed, was left
            \* half made, or was changed by an operation that a drop, a
            \* rename or SQL raced with; and, of an engine opened again, names whose row
            \* had not been kept or an older tab's file was given to
  masked    \* history: names an attached table had while they were a table's

tableVars == <<db, meta, origins, linked, tabbed, op, calls, unkept, loose, masked>>

Another == calls < MaxCalls /\ calls' = calls + 1

Put(f, n, x) == [f EXCEPT ![n] = x]
Exists(n) == db[n] # Nothing \/ n \in linked

\* Mutant: a name is free when the map has no entry for it.
MutantCanName(own) == {n \in Names : n \in own \/ origins[n] = Nothing}

\* table_name_for: the first candidate that is this file's, or free.
CanName(own) == {n \in Names : n \in own \/ ~Exists(n)}
NameFor(own) == CHOOSE n \in CanName(own) : \A k \in CanName(own) : n <= k

-----------------------------------------------------------------------------
(* Operations. *)

\* One is called: an import looks at the map before it has the lock.
\* A drop or a rename races with every other operation in flight.
Call(o, kind, n, to, f) ==
  /\ op[o] = Nothing /\ Another
  /\ LET Races(p) == op[p] # Nothing /\ {kind, op[p].kind} \cap {"drop", "rename"} # {}
         new == [kind |-> kind, name |-> n, to |-> to, file |-> f,
                 own |-> IF kind = "import" THEN {k \in Names : origins[k] = f} ELSE {},
                 applied |-> FALSE,
                 alone |-> \A p \in Ops : op[p] = Nothing, raced |-> \E p \in Ops : Races(p)]
     IN  op' = [p \in Ops |-> IF p = o THEN new
                              ELSE IF op[p] = Nothing THEN Nothing
                              ELSE [op[p] EXCEPT !.alone = FALSE, !.raced = @ \/ Races(p)]]
  /\ UNCHANGED <<db, meta, origins, linked, tabbed, unkept, loose, masked>>

Applied(o, n) == op' = Put(op, o, [op[o] EXCEPT !.applied = TRUE, !.name = n])

\* save and forget: the name's row is what it should be, or is left as it was.
Row(n, src) ==
  \/ meta' = Put(meta, n, src) /\ unkept' = unkept \ {n}
  \/ UNCHANGED meta /\ unkept' = unkept \cup {n}

\* Mutant: the row is copied, and the old one stays.
MutantMoveRow(old, new) ==
  meta' = Put(meta, new, meta[old]) /\ unkept' = (unkept \ {old, new}) \cup {n \in {new} : old \in unkept}

\* rename: the row goes with the table and replaces one there was, or it is
\* left as it was, or both names' rows are gone.
MoveRow(old, new) ==
  \/ /\ meta' = Put(Put(meta, old, Nothing), new, meta[old])
     /\ unkept' = (unkept \ {old, new}) \cup {n \in {new} : old \in unkept}
  \/ /\ meta' \in {meta, Put(Put(meta, old, Nothing), new, Nothing)}
     /\ unkept' = unkept \cup {old, new}

\* The table is there, and then an error: no row says what it is.
Half(o, n, src) ==
  /\ db' = Put(db, n, src) /\ op' = Put(op, o, Nothing)
  /\ loose' = IF db[n] = src THEN loose ELSE loose \cup {n}
  /\ UNCHANGED <<meta, unkept>>

\* register_file_as_table, under the lock.
Import(o) ==
  /\ op[o].kind = "import" /\ CanName(op[o].own) # {}
  /\ LET f == op[o].file
         n == NameFor(op[o].own)
     IN  \/ /\ db' = Put(db, n, f) /\ Row(n, f)
            /\ Applied(o, n) /\ UNCHANGED loose
         \/ Half(o, n, f)

\* create_table
Create(o) ==
  /\ op[o].kind = "create" /\ db[op[o].name] = Nothing
  /\ LET n == op[o].name IN
     \/ /\ db' = Put(db, n, "made") /\ Row(n, "made")
        /\ Applied(o, n) /\ UNCHANGED loose
     \/ Half(o, n, "made")

\* drop_table
Drop(o) ==
  /\ op[o].kind = "drop" /\ db[op[o].name] # Nothing
  /\ LET n == op[o].name IN
     /\ db' = Put(db, n, Nothing) /\ Row(n, Nothing)
     /\ Applied(o, n) /\ UNCHANGED loose

\* rename_table
Rename(o) ==
  LET old == op[o].name
      new == op[o].to
  IN  /\ op[o].kind = "rename" /\ db[old] # Nothing /\ db[new] = Nothing
      /\ db' = Put(Put(db, old, Nothing), new, db[old])
      /\ MoveRow(old, new)
      /\ Applied(o, old)
      /\ loose' = IF {old, new} \cap loose # {} THEN loose \cup {old, new} ELSE loose

\* The database's part of an operation; or it fails, and nothing has changed.
Apply(o) ==
  /\ op[o] # Nothing /\ ~op[o].applied
  /\ \/ Import(o) \/ Create(o) \/ Drop(o) \/ Rename(o)
     \/ op' = Put(op, o, Nothing) /\ UNCHANGED <<db, meta, unkept, loose>>
  /\ UNCHANGED <<origins, linked, tabbed, calls, masked>>

\* An operation is back, and the map says what its names' tables are: for
\* certain, if nothing else was under way from its call on.
Landed(o, ns) ==
  /\ op' = Put(op, o, Nothing)
  /\ masked' = masked \ ns
  /\ loose' = IF op[o].raced THEN loose \cup ns
              ELSE IF op[o].alone THEN loose \ ns ELSE loose
  /\ UNCHANGED <<db, meta, linked, unkept, calls>>

\* Back from the database, the map follows; a name without an entry has none
\* to give.  A file has a tab from then on.
Land(o) ==
  /\ op[o] # Nothing /\ op[o].applied
  /\ LET n == op[o].name
         to == op[o].to
     IN  CASE op[o].kind = "import" -> origins' = Put(origins, n, op[o].file) /\ Landed(o, {n})
           [] op[o].kind = "create" -> origins' = Put(origins, n, "made") /\ Landed(o, {n})
           [] op[o].kind = "drop"   -> origins' = Put(origins, n, Nothing) /\ Landed(o, {n})
           [] op[o].kind = "rename" ->
                /\ origins' = IF origins[n] = Nothing THEN origins
                              ELSE Put(Put(origins, n, Nothing), to, origins[n])
                /\ op' = Put(op, o, Nothing)
                /\ masked' = IF n \in masked THEN masked \cup {to} ELSE masked \ {to}
                /\ loose' = IF op[o].raced THEN loose \cup {n, to} ELSE loose
                /\ UNCHANGED <<db, meta, linked, unkept, calls>>
  /\ tabbed' = IF op[o].kind = "import" THEN Put(tabbed, op[o].name, tabbed[op[o].name] \cup {op[o].file})
             ELSE tabbed

-----------------------------------------------------------------------------
(* What goes past the map. *)

\* execute: a statement of the user's own.  It races with what is in flight.
Execute(n, src) ==
  /\ src \in {"made", Nothing} /\ db[n] # src /\ Another
  /\ db' = Put(db, n, src) /\ loose' = loose \cup {n}
  /\ op' = [o \in Ops |-> IF op[o] = Nothing THEN Nothing ELSE [op[o] EXCEPT !.raced = TRUE]]
  /\ UNCHANGED <<meta, origins, linked, tabbed, unkept, masked>>

\* attach, of a database with these tables: their entries go over a table's.
Attach(ns) ==
  /\ linked = {} /\ ns # {} /\ Another
  /\ linked' = ns
  /\ origins' = [n \in Names |-> IF n \in ns THEN "attached" ELSE origins[n]]
  /\ masked' = masked \cup ns
  /\ UNCHANGED <<db, meta, tabbed, op, unkept, loose>>

\* detach: the tables go, and every entry of an attached one.
Detach ==
  /\ linked # {} /\ linked' = {}
  /\ origins' = [n \in Names |-> IF origins[n] = "attached" THEN Nothing ELSE origins[n]]
  /\ UNCHANGED <<db, meta, tabbed, op, calls, unkept, loose, masked>>

\* load: the rows of tables that are gone go, and the others are read; either
\* may fail.
Pruned == [n \in Names |-> IF db[n] = Nothing THEN Nothing ELSE meta[n]]
Load(read) ==
  \/ meta' = Pruned /\ read = meta'
  \/ UNCHANGED meta /\ read = meta
  \/ meta' \in {meta, Pruned} /\ read = [n \in Names |-> Nothing]

Anew == linked' = {} /\ op' = [o \in Ops |-> Nothing] /\ UNCHANGED <<db, tabbed, calls>>

\* The engine goes, whatever it was doing, and another opens its database: it
\* knows what the rows say, and then what the tabs that are restored say, of
\* the tables there are.  A tab may have been closed.
Reopen ==
  \E read \in {meta, Pruned, [n \in Names |-> Nothing]}, told \in [Names -> Files \cup {Nothing}] :
    /\ \A n \in Names : told[n] \in tabbed[n] \cup {Nothing} /\ (told[n] # Nothing => db[n] # Nothing)
    /\ Load(read)
    /\ origins' = [n \in Names |-> IF told[n] # Nothing THEN told[n] ELSE read[n]]
    /\ loose' = {n \in Names :
                   IF db[n] = Nothing THEN meta'[n] # Nothing
                   ELSE \/ n \in loose \cup unkept \/ read[n] # meta[n]
                        \/ told[n] \notin {Nothing, meta[n]}}
    /\ unkept' = {} /\ masked' = {} /\ Anew

\* A save has the only hold on the engine: it goes, and the one that opens the
\* database after it is given the whole of its map, over what the rows say.
Carry ==
  /\ \A o \in Ops : op[o] = Nothing
  /\ \E read \in {meta, Pruned, [n \in Names |-> Nothing]} :
       /\ Load(read)
       /\ origins' = [n \in Names |-> IF origins[n] # Nothing THEN origins[n] ELSE read[n]]
       /\ loose' = loose \cup {n \in unkept : origins[n] = Nothing}
  /\ UNCHANGED <<unkept, masked>> /\ Anew

TablesInit ==
  /\ db = [n \in Names |-> Nothing] /\ meta = db /\ origins = db
  /\ linked = {} /\ op = [o \in Ops |-> Nothing] /\ calls = 0 /\ unkept = {} /\ loose = {} /\ masked = {}
  /\ tabbed = [n \in Names |-> {}]

Calls(o) ==
  \/ \E f \in Files : Call(o, "import", 1, 1, f)
  \/ \E n \in Names : Call(o, "create", n, n, Nothing) \/ Call(o, "drop", n, n, Nothing)
  \/ \E n, to \in Names : n # to /\ Call(o, "rename", n, to, Nothing)

TablesNext ==
  \/ \E o \in Ops : Calls(o) \/ Apply(o) \/ Land(o)
  \/ \E n \in Names, src \in {"made", Nothing} : Execute(n, src)
  \/ \E ns \in SUBSET Names : Attach(ns)
  \/ Detach \/ Reopen \/ Carry

TablesSpec == TablesInit /\ [][TablesNext]_tableVars

-----------------------------------------------------------------------------
(* Properties. *)

\* The type of every variable.
TablesTypeOK ==
  /\ db \in [Names -> Sources \cup {Nothing}] /\ meta \in [Names -> Sources \cup {Nothing}]
  /\ origins \in [Names -> Sources \cup {"attached", Nothing}]
  /\ op \in [Ops -> Call_Type \cup {Nothing}] /\ tabbed \in [Names -> SUBSET Files]
  /\ {linked, unkept, loose, masked} \subseteq SUBSET Names /\ calls \in 0 .. MaxCalls

Overwrites(n) == db[n] # Nothing /\ db'[n] \in Files /\ db'[n] # db[n]

\* A file is read into a table only if the table is the file's or there is
\* none, through overlapping imports, renames, drops, attached tables of the
\* same name, failures halfway, rows that cannot be written and engines opened
\* again.  The exceptions are the names in `loose`, and an import that a drop,
\* a rename or the user's SQL races with.
KeepsData ==
  [][\A n \in Names : Overwrites(n) =>
       n \in loose \/ \E o \in Ops : op[o] # Nothing /\ op[o].raced]_tableVars

\* With nothing under way the rows are the tables', but for those that could
\* not be written, and the map has nothing else, but where an attached table
\* has had the name; the names in `loose` apart.
Known ==
  (\A o \in Ops : op[o] = Nothing) =>
    \A n \in Names \ loose :
      /\ n \in unkept \/ meta[n] = db[n]
      /\ origins[n] = db[n] \/ (n \in masked /\ origins[n] \in {"attached", Nothing})
=============================================================================
