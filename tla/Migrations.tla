----------------------------- MODULE Migrations -----------------------------
(***************************************************************************)
(* The migration runner (migrations/migrations.go): Up applies every       *)
(* version that is not recorded, in ascending order, Down rolls back the   *)
(* highest recorded one.  On SQLite a migration and its record are one     *)
(* transaction; on D1 they are applied statement by statement and nothing  *)
(* is undone.  `migrate up` and `migrate down` are commands: several       *)
(* processes may run them on one database, and any of them may stop.       *)
(*                                                                         *)
(* The schema is the set of tables, columns, indexes and triggers there    *)
(* are.  A statement is [op, object, needs, bars]:                         *)
(*   create    CREATE or ADD COLUMN: fails if the object is there          *)
(*   ensure    CREATE ... IF NOT EXISTS                                    *)
(*   drop      DROP COLUMN: fails if the column is not there, or indexed   *)
(*   discard   DROP ... IF EXISTS, with everything made on the object      *)
(*   change    a statement about rows                                      *)
(* Each fails when something it needs is not there, and when rows are in   *)
(* its way: of the rows only that is kept, the objects that hold some      *)
(* which a statement may trip over, as `bars` says of each statement.  A   *)
(* table that is dropped may be referenced (foreign keys are on), a unique *)
(* index may meet rows that are alike.                                     *)
(***************************************************************************)
EXTENDS Integers, Sequences

CONSTANTS
  Script,      \* the embedded files, ascending: [version, up, down]
  Processes,   \* the migrate commands that may run at the same time
  Recorded,    \* the records a database may have had under earlier builds
  Obstacles    \* the objects in which servers leave rows to trip over

Stmt == [op : {"create", "ensure", "drop", "discard", "change"},
         object : STRING, needs : SUBSET STRING, bars : SUBSET STRING]

VARIABLES
  schema,      \* the objects the database has
  rows,        \* those of them that hold rows to trip over
  recorded,    \* the rows of schema_migrations
  run,         \* what each command is doing
  atomic,      \* Capabilities().AtomicTransactions of the adapter
  cut,         \* history: the modes of the commands that were cut short
  downRaced    \* history: whether a Down ran while another command did

vars == <<schema, rows, recorded, run, atomic, cut, downRaced>>

Versions == {Script[k].version : k \in DOMAIN Script}
Migration(v) == Script[CHOOSE k \in DOMAIN Script : Script[k].version = v]

(* `todo` is what is left of what the command decided to do when it read   *)
(* the record, and `next` the statement of its version that comes next on  *)
(* D1.                                                                     *)
Idle == [mode |-> "idle", todo |-> {}, next |-> 1]

-----------------------------------------------------------------------------
(* Statements. *)

Creates(stmt) == stmt.op \in {"create", "ensure"}

(* What the first n statements of a version's Up create.                   *)
CreatedBy(v, n) ==
  {Migration(v).up[k].object : k \in {j \in 1 .. n : Creates(Migration(v).up[j])}}
Created(v) == CreatedBy(v, Len(Migration(v).up))
SchemaOf(versions) == UNION {Created(v) : v \in versions}

(* All the objects there can be, and what each is made on.                 *)
Objects == SchemaOf(Versions)
Needs == [object \in Objects |->
  UNION {UNION {Migration(v).up[k].needs : k \in
           {j \in DOMAIN Migration(v).up : /\ Creates(Migration(v).up[j])
                                          /\ Migration(v).up[j].object = object}} : v \in Versions}]

(* What goes with an object: what was made on it, and on what was made on  *)
(* it: indexes and triggers of a table, columns added to it, indexes of    *)
(* those.                                                                  *)
MadeOn == [object \in Objects |->
  {o \in Objects : object \in Needs[o] \cup UNION {Needs[n] : n \in Needs[o]}}]

Takes(stmt) ==
  IF stmt.op \notin {"drop", "discard"} \/ stmt.object \notin Objects THEN {}
  ELSE {stmt.object} \cup MadeOn[stmt.object]

(* What the schema asks of a statement.                                    *)
Accepts(objects, stmt) ==
  /\ \/ stmt.op = "ensure" /\ stmt.object \in objects
     \/ stmt.needs \subseteq objects
  /\ stmt.op = "create" => stmt.object \notin objects
  /\ stmt.op = "drop" => /\ stmt.object \in objects
                         /\ ~ \E o \in objects : stmt.object \in Needs[o]

Gives(stmt) == IF Creates(stmt) THEN {stmt.object} ELSE {}

Effect(objects, stmt) == (objects \ Takes(stmt)) \cup Gives(stmt)

(* What the first n statements of a list leave: what one of them made, or  *)
(* what was there, and no later one took.                                  *)
Taken(stmts, m, n) == UNION {Takes(stmts[k]) : k \in m .. n}
After(objects, stmts, n) ==
  (objects \ Taken(stmts, 1, n))
    \cup UNION {Gives(stmts[k]) \ Taken(stmts, k + 1, n) : k \in 1 .. n}

Succeeds(objects, stmts) ==
  \A k \in DOMAIN stmts : Accepts(After(objects, stmts, k - 1), stmts[k])

(* What the rows ask of it, unless it finds nothing to do.                 *)
Acts(objects, stmt) ==
  CASE stmt.op = "ensure"  -> stmt.object \notin objects
    [] stmt.op = "discard" -> stmt.object \in objects
    [] OTHER               -> TRUE

Barred(objects, held, stmt) == stmt.bars \cap held # {} /\ Acts(objects, stmt)

(* One statement of a list trips over the rows the ones before it left.    *)
BarredIn(objects, held, stmts) ==
  \E k \in DOMAIN stmts :
    /\ Barred(After(objects, stmts, k - 1), held \ Taken(stmts, 1, k - 1), stmts[k])
    /\ \A j \in 1 .. k : Accepts(After(objects, stmts, j - 1), stmts[j])

-----------------------------------------------------------------------------
(* How the files of a repository are written, as far as the results rest   *)
(* on it.                                                                  *)

(* An Up makes every object once, of what it or lower versions made, and   *)
(* takes nothing away.                                                     *)
UpsCreate ==
  \A v \in Versions : \A k \in DOMAIN Migration(v).up :
    LET stmt == Migration(v).up[k] IN
    /\ stmt.op \notin {"drop", "discard"}
    /\ stmt.needs \subseteq SchemaOf({w \in Versions : w < v}) \cup CreatedBy(v, k - 1)
    /\ Creates(stmt) =>
         \A w \in Versions : \A j \in DOMAIN Migration(w).up :
           (Creates(Migration(w).up[j]) /\ Migration(w).up[j].object = stmt.object)
             => w = v /\ j = k

(* What a version's Up needs of lower ones.                                *)
Wants(v) ==
  (UNION {Migration(v).up[k].needs : k \in DOMAIN Migration(v).up}) \ Created(v)

(* A Down takes all its Up made, and nothing of a lower version; it drops  *)
(* what nothing is made on any more.                                       *)
DownsUndo ==
  \A v \in Versions :
    LET down == Migration(v).down IN
    /\ Created(v) \subseteq Taken(down, 1, Len(down))
    /\ \A k \in DOMAIN down :
         /\ ~ Creates(down[k])
         /\ Takes(down[k]) \cap SchemaOf({w \in Versions : w < v}) = {}
         /\ down[k].needs \subseteq Wants(v) \cup (Created(v) \ Taken(down, 1, k - 1))
         /\ down[k].op = "drop" =>
              /\ down[k].object \in Created(v) \ Taken(down, 1, k - 1)
              /\ \A o \in SchemaOf(Versions) :
                   down[k].object \in Needs[o] => o \in Taken(down, 1, k - 1)

(* What an earlier build recorded: versions this one has, none without     *)
(* what it wants.                                                          *)
Complete(versions) ==
  \A v \in versions : Wants(v) \subseteq SchemaOf({w \in versions : w < v})

ASSUME MigrationsAssumption ==
  /\ Script \in Seq([version : Nat, up : Seq(Stmt), down : Seq(Stmt)])
  /\ \A j, k \in DOMAIN Script : Script[j].version = Script[k].version => j = k
  /\ UpsCreate /\ DownsUndo
  /\ \A versions \in Recorded : versions \subseteq Versions /\ Complete(versions)

-----------------------------------------------------------------------------
(* The version a command is at: the lowest it has still to do.             *)
First(versions) == CHOOSE v \in versions : \A w \in versions : v <= w
Current(p) == First(run[p].todo)

Statements(p) ==
  IF run[p].mode = "up" THEN Migration(Current(p)).up ELSE Migration(Current(p)).down

(* recordApplied inserts a primary key; recordRolledBack deletes whatever  *)
(* row there is.                                                           *)
Records(p) == run[p].mode = "up" => Current(p) \notin recorded
Record(p) ==
  recorded' = IF run[p].mode = "up" THEN recorded \cup {Current(p)}
              ELSE recorded \ {Current(p)}

-----------------------------------------------------------------------------
(* A file that is new to a build may have a lower number than one that the *)
(* database has recorded already.                                          *)
Init ==
  /\ recorded \in Recorded
  /\ schema = SchemaOf(recorded)
  /\ rows \in SUBSET (Obstacles \cap schema)
  /\ run = [p \in Processes |-> Idle]
  /\ atomic \in BOOLEAN
  /\ cut = {}
  /\ downRaced = FALSE

(* A command ensures the version table, reads it once, and plans.          *)
Start(p, mode, todo) ==
  /\ run[p] = Idle
  /\ run' = [run EXCEPT ![p] =
       IF todo = {} THEN Idle ELSE [mode |-> mode, todo |-> todo, next |-> 1]]
  /\ downRaced' = (downRaced \/ \E q \in Processes \ {p} :
       todo # {} /\ run[q] # Idle /\ "down" \in {mode, run[q].mode})
  /\ UNCHANGED <<schema, rows, recorded, atomic, cut>>

(* Mutant: the record is read as a high-water mark.                        *)
PendingAbove == {v \in Versions : \A w \in recorded : w < v}

(* Every version that is not recorded: gaps are filled.                    *)
Pending == Versions \ recorded

Up(p) == Start(p, "up", Pending)

(* Mutant: the lowest recorded version is rolled back.                     *)
Lowest == {v \in recorded \cap Versions : \A w \in recorded \cap Versions : v <= w}

Highest == {v \in recorded \cap Versions : \A w \in recorded \cap Versions : w <= v}

(* Nothing recorded that this build knows: nothing is rolled back.         *)
Down(p) == Start(p, "down", Highest)

(* What comes after a version: the next one, or the command returns.       *)
Proceed(p) ==
  LET left == run[p].todo \ {Current(p)} IN
  run' = [run EXCEPT ![p] =
    IF left = {} THEN Idle ELSE [mode |-> run[p].mode, todo |-> left, next |-> 1]]

Refused(p) == run' = [run EXCEPT ![p] = Idle]

(* SQLite: the statements and the record of one version, or none of them.  *)
Transaction(p) ==
  /\ atomic
  /\ run[p] # Idle
  /\ ~ BarredIn(schema, rows, Statements(p))
  /\ IF Succeeds(schema, Statements(p)) /\ Records(p)
     THEN /\ schema' = After(schema, Statements(p), Len(Statements(p)))
          /\ rows' = rows \ Taken(Statements(p), 1, Len(Statements(p)))
          /\ Record(p) /\ Proceed(p)
     ELSE Refused(p) /\ UNCHANGED <<schema, rows, recorded>>
  /\ UNCHANGED <<atomic, cut, downRaced>>

(* D1: the next statement, ...                                             *)
Statement(p) ==
  /\ ~ atomic
  /\ run[p] # Idle
  /\ run[p].next <= Len(Statements(p))
  /\ LET stmt == Statements(p)[run[p].next] IN
     /\ ~ Barred(schema, rows, stmt)
     /\ IF Accepts(schema, stmt)
        THEN /\ schema' = Effect(schema, stmt)
             /\ rows' = rows \ Takes(stmt)
             /\ run' = [run EXCEPT ![p].next = @ + 1]
        ELSE Refused(p) /\ UNCHANGED <<schema, rows>>
  /\ UNCHANGED <<recorded, atomic, cut, downRaced>>

(* ... and after the last one the record.                                  *)
RecordStatement(p) ==
  /\ ~ atomic
  /\ run[p] # Idle
  /\ run[p].next = Len(Statements(p)) + 1
  /\ IF Records(p) THEN Record(p) /\ Proceed(p) ELSE Refused(p) /\ UNCHANGED recorded
  /\ UNCHANGED <<schema, rows, atomic, cut, downRaced>>

(* Mutant: what failed in the middle of a transaction is not rolled back.  *)
FaultKeepsHalf(p) ==
  /\ run[p] # Idle
  /\ Refused(p)
  /\ cut' = cut \cup {run[p].mode}
  /\ IF atomic /\ Accepts(schema, Statements(p)[1])
     THEN schema' = Effect(schema, Statements(p)[1]) ELSE UNCHANGED schema
  /\ rows' = rows \cap schema'
  /\ UNCHANGED <<recorded, atomic, downRaced>>

(* Mutant: the error of a statement is dropped on D1.                      *)
FaultIgnored(p) ==
  /\ ~ atomic /\ run[p] # Idle
  /\ run[p].next <= Len(Statements(p))
  /\ run' = [run EXCEPT ![p].next = @ + 1]
  /\ cut' = cut \cup {run[p].mode}
  /\ UNCHANGED <<schema, rows, recorded, atomic, downRaced>>

(* A statement fails for another reason, the five minutes of the command   *)
(* are over, or the process stops.                                         *)
Fault(p) ==
  /\ run[p] # Idle
  /\ Refused(p)
  /\ cut' = cut \cup {run[p].mode}
  /\ UNCHANGED <<schema, rows, recorded, atomic, downRaced>>

(* A statement trips over rows: the transaction is rolled back, on D1 the  *)
(* statements before it stay.                                              *)
Trips(p) ==
  /\ run[p] # Idle
  /\ \/ atomic /\ BarredIn(schema, rows, Statements(p))
     \/ /\ ~ atomic /\ run[p].next <= Len(Statements(p))
        /\ Barred(schema, rows, Statements(p)[run[p].next])
  /\ Fault(p)

(* Servers, of this build or an earlier one, write and delete rows.        *)
Serve ==
  /\ rows' \in SUBSET (Obstacles \cap schema)
  /\ UNCHANGED <<schema, recorded, run, atomic, cut, downRaced>>

Next ==
  \/ Serve
  \/ \E p \in Processes :
       \/ Up(p) \/ Down(p) \/ Transaction(p) \/ Statement(p) \/ RecordStatement(p)
       \/ Trips(p) \/ Fault(p)

Spec == Init /\ [][Next]_vars

-----------------------------------------------------------------------------
(* The commands' plans name known versions, and a command is always at a   *)
(* statement of its version or at its record; rows are in objects that are *)
(* there, whatever was dropped.                                            *)
RunnerOK ==
  /\ schema \subseteq SchemaOf(Versions) /\ recorded \subseteq Versions
  /\ \A p \in Processes :
       /\ run[p].mode \in {"idle", "up", "down"}
       /\ run[p] = Idle <=> run[p].todo = {}
       /\ run[p].todo \subseteq Versions
       /\ run[p] # Idle => run[p].next \in 1 .. Len(Statements(p)) + 1
  /\ atomic \in BOOLEAN /\ cut \subseteq {"up", "down"} /\ downRaced \in BOOLEAN

TypeOK == RunnerOK /\ rows \subseteq Obstacles \cap schema

Quiet == \A p \in Processes : run[p] = Idle

(* "Applied" means one thing: between commands the schema is exactly what  *)
(* the recorded versions create.  Commands cut short do not matter on      *)
(* SQLite, nor do several Ups at once anywhere (Up and Down of             *)
(* migrations.go; the runner's doc comment).                               *)
SchemaMatchesRecord ==
  Quiet /\ ~ downRaced /\ (atomic \/ cut = {}) => schema = SchemaOf(recorded)

(* A version is never recorded before all it creates is there, whatever is *)
(* cut short, as long as no Down was: the record is the last statement of  *)
(* apply.                                                                  *)
RecordedIsComplete ==
  /\ TypeOK
  /\ (/\ ~ downRaced
      /\ \A p \in Processes : run[p].mode # "down"
      /\ atomic \/ "down" \notin cut)
     => SchemaOf(recorded) \subseteq schema

(* An Up that applies its last version leaves nothing pending, gaps of an  *)
(* older build included.                                                   *)
UpLeavesNothingPending ==
  [][\A p \in Processes :
       (run[p].mode = "up" /\ run'[p] = Idle /\ recorded' # recorded /\ ~ downRaced)
         => recorded' = Versions]_vars

(* Between commands the schema refuses no file: every one still to be      *)
(* applied fits what the database has then, one after the other, and so    *)
(* does the one a Down would take back.  What one command leaves is what   *)
(* the files of the next expect.  That its rows refuse none is not said:   *)
(* an order of a customer refuses 0001's Down, for one.                    *)
FilesFitTheSchema ==
  Quiet /\ ~ downRaced /\ (atomic \/ cut = {}) =>
    /\ \A v \in Pending :
         Succeeds(schema \cup SchemaOf({w \in Pending : w < v}), Migration(v).up)
    /\ \A v \in Highest : Succeeds(schema, Migration(v).down)
=============================================================================
