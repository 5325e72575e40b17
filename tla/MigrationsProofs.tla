-------------------------- MODULE MigrationsProofs --------------------------
(***************************************************************************)
(* What holds of the migration runner for every repository of files that   *)
(* MigrationsAssumption describes and any number of commands at once, and  *)
(* of the scanners of SQL text for every text.                             *)
(***************************************************************************)
EXTENDS Migrations, SqlText, Sections, TLAPS, FiniteSetTheorems, SequenceTheorems

-----------------------------------------------------------------------------
(* The files. *)

LEMMA FileOf ==
  ASSUME NEW v \in Versions
  PROVE  /\ v \in Nat
         /\ Migration(v).up \in Seq(Stmt) /\ Migration(v).down \in Seq(Stmt)
<1> DEFINE File == [version : Nat, up : Seq(Stmt), down : Seq(Stmt)]
           n == CHOOSE k \in DOMAIN Script : Script[k].version = v
<1>1. Script \in Seq(File)
  BY MigrationsAssumption
<1>2. n \in DOMAIN Script /\ Script[n].version = v
  BY DEF Versions
<1> HIDE DEF n, File
<1>3. Script[n] \in File
  BY <1>1, <1>2, LenProperties, ElementOfSeq
<1>4. Migration(v) = Script[n]
  BY DEF Migration, n
<1> QED
  BY <1>2, <1>3, <1>4 DEF File

LEMMA VersionsAreFinite == IsFiniteSet(Versions)
<1> DEFINE f == [k \in DOMAIN Script |-> Script[k].version]
<1>1. IsFiniteSet(DOMAIN Script)
  BY MigrationsAssumption, FS_Interval
<1>2. f \in Surjection(DOMAIN Script, Versions)
  BY DEF Surjection, Versions
<1> QED
  BY <1>1, <1>2, FS_Surjection

(* Of some versions one is the lowest.                                     *)
LEMMA FirstIsLowest ==
  ASSUME NEW T, T \subseteq Versions, T # {}
  PROVE  First(T) \in T /\ \A w \in T : First(T) <= w
<1> DEFINE Under(v) == {w \in T : w < v}
           Unders == {Under(v) : v \in T}
<1>1. T \subseteq Nat /\ IsFiniteSet(T)
  BY FileOf, VersionsAreFinite, FS_Subset
<1>2. Unders \subseteq FiniteSubsetsOf(T) /\ Unders # {}
  <2>1. ASSUME NEW v \in T PROVE Under(v) \subseteq T /\ IsFiniteSet(Under(v))
    BY <1>1, FS_Subset
  <2> QED
    BY <2>1 DEF FiniteSubsetsOf
<1> HIDE DEF Unders
<1>3. PICK U \in Unders : \A V \in Unders : ~ (<<V, U>> \in StrictSubsetOrdering(T))
  BY <1>2, FS_StrictSubsetOrderingWellFounded, WFMin
<1> USE DEF Unders
<1>4. PICK v \in T : U = Under(v)
  OBVIOUS
<1>5. ASSUME NEW w \in T, w < v PROVE FALSE
  <2>1. Under(w) \in Unders /\ Under(w) \subseteq U /\ w \in U /\ w \notin Under(w)
    <3>1. Under(w) \in Unders
      OBVIOUS
    <3>2. w \in Nat /\ v \in Nat /\ \A x \in Under(w) : x \in T /\ x \in Nat /\ x < w
      BY <1>1
    <3>3. \A x \in Under(w) : x < v
      BY <1>5, <3>2
    <3>4. Under(w) \subseteq U
      BY <1>4, <3>2, <3>3
    <3>5. w \in U
      BY <1>4, <1>5
    <3>6. w \notin Under(w)
      BY <3>2
    <3> HIDE DEF Unders, Under
    <3> QED
      BY <3>1, <3>4, <3>5, <3>6
  <2> QED
    BY <2>1, <1>1, <1>2, <1>3 DEF StrictSubsetOrdering, FiniteSubsetsOf
<1>6. \A w \in T : v <= w
  BY <1>1, <1>5
<1> QED
  BY <1>6 DEF First

(* The statements of a file.                                               *)
LEMMA StatementsOfFile ==
  ASSUME NEW v \in Versions
  PROVE  /\ Len(Migration(v).up) \in Nat
         /\ DOMAIN Migration(v).up = 1 .. Len(Migration(v).up)
         /\ \A k \in 1 .. Len(Migration(v).up) : Migration(v).up[k] \in Stmt
         /\ Len(Migration(v).down) \in Nat
         /\ DOMAIN Migration(v).down = 1 .. Len(Migration(v).down)
         /\ \A k \in 1 .. Len(Migration(v).down) : Migration(v).down[k] \in Stmt
BY FileOf, LenProperties, ElementOfSeq

(* Which objects a version has created after each statement of its Up.     *)
LEMMA CreatedStep ==
  ASSUME NEW v \in Versions, NEW k \in 1 .. Len(Migration(v).up)
  PROVE  /\ CreatedBy(v, k) = CreatedBy(v, k - 1) \cup Gives(Migration(v).up[k])
         /\ Gives(Migration(v).up[k]) \cap CreatedBy(v, k - 1) = {}
<1> DEFINE up == Migration(v).up
<1>0. Len(up) \in Nat /\ DOMAIN up = 1 .. Len(up)
  BY StatementsOfFile
<1>1. 1 .. k = (1 .. k - 1) \cup {k}
  BY <1>0
<1>2. CreatedBy(v, k) = CreatedBy(v, k - 1) \cup Gives(up[k])
  BY <1>1 DEF CreatedBy, Gives
<1>3. ASSUME NEW j \in 1 .. k - 1, Creates(up[j]), Creates(up[k]), up[j].object = up[k].object
      PROVE  FALSE
  BY <1>0, <1>3, MigrationsAssumption DEF UpsCreate
<1>4. Gives(up[k]) \cap CreatedBy(v, k - 1) = {}
  BY <1>3 DEF CreatedBy, Gives
<1> QED
  BY <1>2, <1>4

LEMMA CreatedSpan ==
  ASSUME NEW v \in Versions
  PROVE  /\ CreatedBy(v, 0) = {}
         /\ \A n \in 0 .. Len(Migration(v).up) : \A m \in 0 .. n : CreatedBy(v, m) \subseteq CreatedBy(v, n)
         /\ \A n \in 0 .. Len(Migration(v).up) : CreatedBy(v, n) \subseteq Created(v)
         /\ \A o \in Created(v) : \E k \in 1 .. Len(Migration(v).up) :
              Creates(Migration(v).up[k]) /\ Migration(v).up[k].object = o
BY StatementsOfFile DEF CreatedBy, Created

(* No two versions create one object.                                      *)
LEMMA OneMaker ==
  ASSUME NEW v \in Versions, NEW w \in Versions, v # w
  PROVE  Created(v) \cap Created(w) = {}
<1>1. ASSUME NEW o \in Created(v), o \in Created(w) PROVE FALSE
  <2>1. PICK k \in DOMAIN Migration(v).up :
          Creates(Migration(v).up[k]) /\ Migration(v).up[k].object = o
    BY CreatedSpan, StatementsOfFile
  <2>2. PICK j \in DOMAIN Migration(w).up :
          Creates(Migration(w).up[j]) /\ Migration(w).up[j].object = o
    BY <1>1, CreatedSpan, StatementsOfFile
  <2> QED
    BY <2>1, <2>2, MigrationsAssumption DEF UpsCreate
<1> QED
  BY <1>1

(* An Up takes nothing away: what its first n statements leave.            *)
LEMMA UpTakesNothing ==
  ASSUME NEW v \in Versions, NEW k \in 1 .. Len(Migration(v).up)
  PROVE  Takes(Migration(v).up[k]) = {}
BY StatementsOfFile, MigrationsAssumption DEF UpsCreate, Takes

LEMMA UpAfter ==
  ASSUME NEW v \in Versions, NEW n \in 0 .. Len(Migration(v).up), NEW objects
  PROVE  After(objects, Migration(v).up, n) = objects \cup CreatedBy(v, n)
<1> DEFINE up == Migration(v).up
<1>0. Len(up) \in Nat
  BY StatementsOfFile
<1>1. \A m \in Nat : m >= 1 => Taken(up, m, n) = {}
  <2>1. \A k \in 1 .. Len(up) : Takes(up[k]) = {}
    BY UpTakesNothing
  <2>2. ASSUME NEW m \in Nat, m >= 1 PROVE m .. n \subseteq 1 .. Len(up)
    BY <1>0, <2>2
  <2> QED
    BY <2>1, <2>2 DEF Taken
<1>2. \A k \in 1 .. n : Taken(up, k + 1, n) = {}
  BY <1>0, <1>1
<1>3. UNION {Gives(up[k]) \ Taken(up, k + 1, n) : k \in 1 .. n} = CreatedBy(v, n)
  BY <1>2 DEF CreatedBy, Gives
<1> QED
  BY <1>1, <1>3 DEF After

(* A Down makes nothing.                                                   *)
LEMMA DownGivesNothing ==
  ASSUME NEW v \in Versions, NEW k \in 1 .. Len(Migration(v).down)
  PROVE  Gives(Migration(v).down[k]) = {}
BY StatementsOfFile, MigrationsAssumption DEF DownsUndo, Gives

LEMMA DownAfter ==
  ASSUME NEW v \in Versions, NEW n \in 0 .. Len(Migration(v).down), NEW objects
  PROVE  After(objects, Migration(v).down, n) = objects \ Taken(Migration(v).down, 1, n)
<1>0. Len(Migration(v).down) \in Nat
  BY StatementsOfFile
<1>1. \A k \in 1 .. n : Gives(Migration(v).down[k]) = {}
  <2>1. \A k \in 1 .. Len(Migration(v).down) : Gives(Migration(v).down[k]) = {}
    BY DownGivesNothing
  <2>2. 1 .. n \subseteq 1 .. Len(Migration(v).down)
    BY <1>0
  <2> QED
    BY <2>1, <2>2
<1> QED
  BY <1>1 DEF After

LEMMA TakenStep ==
  ASSUME NEW stmts, NEW k \in Nat \ {0}
  PROVE  /\ Taken(stmts, 1, k) = Taken(stmts, 1, k - 1) \cup Takes(stmts[k])
         /\ Taken(stmts, 1, 0) = {}
<1>1. 1 .. k = (1 .. k - 1) \cup {k} /\ 1 .. 0 = {}
  OBVIOUS
<1> QED
  BY <1>1 DEF Taken

(* What a list of statements leaves is what one statement after another    *)
(* leaves.                                                                 *)
LEMMA AfterIsOneByOne ==
  ASSUME NEW objects, NEW stmts
  PROVE  /\ After(objects, stmts, 0) = objects
         /\ \A n \in Nat \ {0} :
              After(objects, stmts, n) = Effect(After(objects, stmts, n - 1), stmts[n])
<1>1. After(objects, stmts, 0) = objects
  BY DEF After, Taken
<1>2. ASSUME NEW n \in Nat \ {0}
      PROVE  After(objects, stmts, n) = Effect(After(objects, stmts, n - 1), stmts[n])
  <2> DEFINE late(m) == UNION {Gives(stmts[k]) \ Taken(stmts, k + 1, m) : k \in 1 .. m}
  <2>1. \A k \in 1 .. n - 1 :
          Taken(stmts, k + 1, n) = Taken(stmts, k + 1, n - 1) \cup Takes(stmts[n])
    <3>1. \A k \in 1 .. n - 1 : k + 1 .. n = (k + 1 .. n - 1) \cup {n}
      OBVIOUS
    <3> QED
      BY <3>1 DEF Taken
  <2>2. Taken(stmts, n + 1, n) = {}
    BY DEF Taken
  <2>3. 1 .. n = (1 .. n - 1) \cup {n}
    OBVIOUS
  <2>4. late(n) = (late(n - 1) \ Takes(stmts[n])) \cup Gives(stmts[n])
    BY <2>1, <2>2, <2>3
  <2>5. Taken(stmts, 1, n) = Taken(stmts, 1, n - 1) \cup Takes(stmts[n])
    BY TakenStep
  <2> QED
    BY <2>4, <2>5 DEF After, Effect
<1> QED
  BY <1>1, <1>2

-----------------------------------------------------------------------------
(* When a statement is accepted. *)

LEMMA UpAccepts ==
  ASSUME NEW v \in Versions, NEW k \in 1 .. Len(Migration(v).up), NEW objects,
         SchemaOf({w \in Versions : w < v}) \subseteq objects,
         objects \cap Created(v) = CreatedBy(v, k - 1)
  PROVE  Accepts(objects, Migration(v).up[k])
<1> DEFINE stmt == Migration(v).up[k]
<1>0. k \in DOMAIN Migration(v).up /\ stmt \in Stmt /\ k \in 0 .. Len(Migration(v).up)
  BY StatementsOfFile
<1>1. stmt.needs \subseteq objects /\ stmt.op \notin {"drop", "discard"}
  BY <1>0, MigrationsAssumption DEF UpsCreate
<1>2. Gives(stmt) \subseteq Created(v) /\ Gives(stmt) \cap CreatedBy(v, k - 1) = {}
  BY <1>0, CreatedStep, CreatedSpan
<1> QED
  BY <1>1, <1>2 DEF Accepts, Gives, Creates

LEMMA DownAccepts ==
  ASSUME NEW v \in Versions, NEW k \in 1 .. Len(Migration(v).down), NEW objects,
         objects \subseteq SchemaOf(Versions), Wants(v) \subseteq objects,
         Created(v) \ Taken(Migration(v).down, 1, k - 1) \subseteq objects,
         objects \cap Taken(Migration(v).down, 1, k - 1) = {}
  PROVE  Accepts(objects, Migration(v).down[k])
<1> DEFINE stmt == Migration(v).down[k]
<1>0. k \in DOMAIN Migration(v).down /\ stmt \in Stmt
  BY StatementsOfFile
<1>1. /\ ~ Creates(stmt)
      /\ stmt.needs \subseteq Wants(v) \cup (Created(v) \ Taken(Migration(v).down, 1, k - 1))
      /\ stmt.op = "drop" =>
           /\ stmt.object \in Created(v) \ Taken(Migration(v).down, 1, k - 1)
           /\ \A o \in SchemaOf(Versions) :
                stmt.object \in Needs[o] => o \in Taken(Migration(v).down, 1, k - 1)
  BY <1>0, MigrationsAssumption DEF DownsUndo
<1> QED
  BY <1>1 DEF Accepts, Creates

(* A Down takes what its Up made, and nothing of lower versions.           *)
LEMMA DownUndoes ==
  ASSUME NEW v \in Versions, NEW versions, versions \subseteq Versions,
         \A w \in versions : w < v
  PROVE  /\ Created(v) \subseteq Taken(Migration(v).down, 1, Len(Migration(v).down))
         /\ \A k \in 0 .. Len(Migration(v).down) :
              Taken(Migration(v).down, 1, k) \cap SchemaOf(versions) = {}
<1>1. Created(v) \subseteq Taken(Migration(v).down, 1, Len(Migration(v).down))
  BY MigrationsAssumption DEF DownsUndo
<1>2. \A k \in 1 .. Len(Migration(v).down) :
        Takes(Migration(v).down[k]) \cap SchemaOf({w \in Versions : w < v}) = {}
  BY StatementsOfFile, MigrationsAssumption DEF DownsUndo
<1>3. SchemaOf(versions) \subseteq SchemaOf({w \in Versions : w < v})
  BY DEF SchemaOf
<1>4. \A k \in 0 .. Len(Migration(v).down) :
        Taken(Migration(v).down, 1, k) \cap SchemaOf(versions) = {}
  <2> SUFFICES ASSUME NEW k \in 0 .. Len(Migration(v).down)
               PROVE  Taken(Migration(v).down, 1, k) \cap SchemaOf(versions) = {}
    OBVIOUS
  <2>1. 1 .. k \subseteq 1 .. Len(Migration(v).down)
    BY StatementsOfFile
  <2> QED
    BY <1>2, <1>3, <2>1 DEF Taken
<1> QED
  BY <1>1, <1>4

-----------------------------------------------------------------------------
(* The inductive invariant. *)

Typed ==
  /\ RunnerOK
  /\ run \in [Processes -> [mode : {"idle", "up", "down"}, todo : SUBSET Versions, next : Nat]]
  /\ \A p \in Processes : run[p].mode = "idle" => run[p] = Idle
  /\ atomic => \A p \in Processes : run[p].next = 1

NoDown == \A p \in Processes : run[p].mode # "down"

(* Every Up still has all that is not recorded before it; a Down is alone, *)
(* and has the highest version.                                            *)
Planned ==
  /\ Complete(recorded)
  /\ \A p \in Processes :
       /\ run[p].mode = "up" => Versions \ recorded \subseteq run[p].todo
       /\ run[p].mode = "down" =>
            /\ run[p].todo = Highest
            /\ \A q \in Processes \ {p} : run[q] = Idle

TakenBy(v, n) == Taken(Migration(v).down, 1, n - 1)

(* What is there at least.                                                 *)
AtLeast ==
  /\ NoDown => SchemaOf(recorded) \subseteq schema
  /\ \A p \in Processes :
       /\ run[p].mode = "up" => CreatedBy(Current(p), run[p].next - 1) \subseteq schema
       /\ run[p].mode = "down" =>
            /\ SchemaOf(recorded \ {Current(p)}) \subseteq schema
            /\ Created(Current(p)) \ TakenBy(Current(p), run[p].next) \subseteq schema
            /\ schema \cap TakenBy(Current(p), run[p].next) = {}

(* An Up that has done all that was done of the first unrecorded version.  *)
Leads(p) ==
  /\ run[p].mode = "up" /\ Current(p) \notin recorded
  /\ schema = SchemaOf(recorded) \cup CreatedBy(Current(p), run[p].next - 1)

(* What is there exactly.                                                  *)
Exactly ==
  /\ NoDown => schema = SchemaOf(recorded) \/ \E p \in Processes : Leads(p)
  /\ \A p \in Processes : run[p].mode = "down" =>
       schema = SchemaOf(recorded \ {Current(p)})
                  \cup (Created(Current(p)) \ TakenBy(Current(p), run[p].next))

MInv ==
  /\ Typed
  /\ ~ downRaced => Planned
  /\ ~ downRaced /\ (atomic \/ "down" \notin cut) => AtLeast
  /\ ~ downRaced /\ (atomic \/ cut = {}) => Exactly

(* Where a command is.                                                     *)
LEMMA AtVersion ==
  ASSUME Typed, NEW p \in Processes, run[p] # Idle
  PROVE  /\ Current(p) \in run[p].todo /\ Current(p) \in Versions
         /\ \A w \in run[p].todo : Current(p) <= w
         /\ run[p].mode \in {"up", "down"} /\ run[p].next \in Nat \ {0}
         /\ run[p].next <= Len(Statements(p)) + 1
         /\ Len(Statements(p)) \in Nat
<1>1. run[p].todo \subseteq Versions /\ run[p].todo # {}
  BY DEF Typed, RunnerOK
<1>2. Current(p) \in run[p].todo /\ \A w \in run[p].todo : Current(p) <= w
  BY <1>1, FirstIsLowest DEF Current
<1>3. Len(Statements(p)) \in Nat
  BY <1>1, <1>2, StatementsOfFile DEF Statements
<1> QED
  BY <1>1, <1>2, <1>3 DEF Typed, RunnerOK

(* Of the recorded versions one at most is the highest.                    *)
LEMMA OneHighest ==
  ASSUME NEW v \in Highest, NEW w \in Highest PROVE v = w
BY FileOf DEF Highest

(* All below the version of an Up that is not recorded are recorded.       *)
LEMMA UpIsNext ==
  ASSUME MInv, ~ downRaced, NEW p \in Processes, run[p].mode = "up", Current(p) \notin recorded
  PROVE  /\ \A w \in Versions : w < Current(p) => w \in recorded
         /\ \A w \in Versions \ recorded : Current(p) <= w
<1>1. run[p] # Idle /\ Versions \ recorded \subseteq run[p].todo
  BY DEF MInv, Planned, Idle
<1>2. \A w \in Versions \ recorded : Current(p) <= w
  BY <1>1, AtVersion DEF MInv
<1> QED
  BY <1>1, <1>2, AtVersion, FileOf DEF MInv

(* What is wanted of recorded versions is there when they are.             *)
LEMMA WantsAreThere ==
  ASSUME Complete(recorded), recorded \subseteq Versions, NEW v \in Highest
  PROVE  /\ Wants(v) \subseteq SchemaOf(recorded \ {v})
         /\ \A w \in recorded \ {v} : w < v
         /\ SchemaOf(recorded) = SchemaOf(recorded \ {v}) \cup Created(v)
<1>1. \A w \in recorded \ {v} : w < v
  BY FileOf DEF Highest
<1>2. {w \in recorded : w < v} \subseteq recorded \ {v} /\ v \in recorded
  BY FileOf DEF Highest
<1>3. Wants(v) \subseteq SchemaOf({w \in recorded : w < v})
  BY <1>2 DEF Complete
<1> QED
  BY <1>1, <1>2, <1>3 DEF SchemaOf

(* A record that loses its highest version stays complete, ...             *)
LEMMA CompleteWithout ==
  ASSUME Complete(recorded), recorded \subseteq Versions, NEW v \in Highest
  PROVE  Complete(recorded \ {v})
<1>1. ASSUME NEW w \in recorded \ {v}
      PROVE  {x \in recorded : x < w} = {x \in recorded \ {v} : x < w}
  BY WantsAreThere, FileOf DEF Highest
<1> QED
  BY <1>1 DEF Complete

(* ... and so does one that gains the first it does not have.              *)
LEMMA WantsAreLower ==
  ASSUME NEW v \in Versions
  PROVE  Wants(v) \subseteq SchemaOf({w \in Versions : w < v})
<1>1. \A k \in 1 .. Len(Migration(v).up) :
        Migration(v).up[k].needs \subseteq
          SchemaOf({w \in Versions : w < v}) \cup CreatedBy(v, k - 1)
  BY StatementsOfFile, MigrationsAssumption DEF UpsCreate
<1>2. \A k \in 1 .. Len(Migration(v).up) : CreatedBy(v, k - 1) \subseteq Created(v)
  BY CreatedSpan, StatementsOfFile
<1>3. \A k \in DOMAIN Migration(v).up :
        Migration(v).up[k].needs \subseteq SchemaOf({w \in Versions : w < v}) \cup Created(v)
  <2>1. DOMAIN Migration(v).up = 1 .. Len(Migration(v).up)
    BY StatementsOfFile
  <2> QED
    BY <1>1, <1>2, <2>1
<1>4. ASSUME NEW o \in Wants(v) PROVE o \in SchemaOf({w \in Versions : w < v})
  <2>1. PICK N \in {Migration(v).up[k].needs : k \in DOMAIN Migration(v).up} :
          o \in N /\ o \notin Created(v)
    BY DEF Wants
  <2>2. PICK k \in DOMAIN Migration(v).up : N = Migration(v).up[k].needs
    OBVIOUS
  <2> QED
    BY <1>3, <2>1, <2>2
<1> QED
  BY <1>4

LEMMA CompleteWith ==
  ASSUME Complete(recorded), recorded \subseteq Versions, NEW v \in Versions,
         \A w \in Versions : w < v => w \in recorded
  PROVE  Complete(recorded \cup {v})
<1>1. Wants(v) \subseteq SchemaOf({w \in recorded \cup {v} : w < v})
  <2>1. {w \in Versions : w < v} = {w \in recorded \cup {v} : w < v}
    OBVIOUS
  <2> QED
    BY <2>1, WantsAreLower
<1>2. ASSUME NEW w \in recorded
      PROVE  SchemaOf({x \in recorded : x < w}) \subseteq SchemaOf({x \in recorded \cup {v} : x < w})
  BY DEF SchemaOf
<1> QED
  BY <1>1, <1>2 DEF Complete

-----------------------------------------------------------------------------
(* The steps. *)

LEMMA StartKeeps ==
  ASSUME MInv, NEW p \in Processes, NEW mode \in {"up", "down"}, NEW todo,
         mode = "up" => todo = Pending, mode = "down" => todo = Highest,
         Start(p, mode, todo)
  PROVE  MInv'
<1>0. Typed /\ run[p] = Idle /\ UNCHANGED <<schema, recorded, atomic, cut>>
  BY DEF MInv, Start
<1>1. CASE todo = {}
  <2>1. run' = run /\ (downRaced' <=> downRaced) /\ downRaced \in BOOLEAN /\ downRaced' \in BOOLEAN
    BY <1>0, <1>1 DEF Start, Typed, RunnerOK
  <2>2. downRaced' = downRaced
    BY <2>1
  <2> QED
    BY <1>0, <2>1, <2>2 DEF MInv, Typed, RunnerOK, Planned, AtLeast, Exactly, Leads, NoDown,
         Current, Statements, Highest, TakenBy
<1>2. CASE todo # {}
  <2>1. todo \subseteq Versions /\ todo \subseteq (Versions \ recorded) \cup recorded
    BY <1>0 DEF Pending, Highest, Typed, RunnerOK
  <2>2. run' = [run EXCEPT ![p] = [mode |-> mode, todo |-> todo, next |-> 1]]
    BY <1>2 DEF Start
  <2>3. /\ run'[p] = [mode |-> mode, todo |-> todo, next |-> 1]
        /\ \A q \in Processes \ {p} : run'[q] = run[q]
        /\ run' \in [Processes -> [mode : {"idle", "up", "down"}, todo : SUBSET Versions, next : Nat]]
    BY <1>0, <2>1, <2>2 DEF Typed
  <2>4. First(todo) \in todo /\ Len(Statements(p)') \in Nat
    <3>1. First(todo) \in todo
      BY <1>2, <2>1, FirstIsLowest
    <3> QED
      BY <2>1, <2>3, <3>1, StatementsOfFile DEF Statements, Current
  <2>5. Typed'
    <3>1. run'[p] # Idle
      BY <2>3 DEF Idle
    <3>2. downRaced' \in BOOLEAN
      BY <1>0 DEF Start, Typed, RunnerOK
    <3>3. \A q \in Processes \ {p} : Statements(q)' = Statements(q)
      BY <2>3 DEF Statements, Current
    <3>4. ASSUME NEW q \in Processes
          PROVE  /\ run'[q].mode \in {"idle", "up", "down"}
                 /\ run'[q] = Idle <=> run'[q].todo = {}
                 /\ run'[q].todo \subseteq Versions
                 /\ run'[q] # Idle => run'[q].next \in 1 .. Len(Statements(q)') + 1
                 /\ run'[q].mode = "idle" => run'[q] = Idle
                 /\ atomic => run'[q].next = 1
      <4>1. CASE q = p
        <5>1. run'[p].todo = todo /\ run'[p].next = 1 /\ run'[p].mode = mode
          BY <2>3
        <5>2. 1 \in 1 .. Len(Statements(p)') + 1
          BY <2>4
        <5> QED
          BY <1>0, <1>2, <2>1, <3>1, <4>1, <5>1, <5>2
      <4>2. CASE q # p
        BY <1>0, <2>3, <3>3, <4>2 DEF Typed, RunnerOK
      <4> QED
        BY <4>1, <4>2
    <3> QED
      BY <1>0, <1>2, <2>1, <2>3, <3>2, <3>4 DEF Typed, RunnerOK
  <2>6. ASSUME ~ downRaced'
        PROVE  /\ ~ downRaced
               /\ \A q \in Processes \ {p} : run[q] # Idle => mode # "down" /\ run[q].mode # "down"
    BY <1>2, <2>6 DEF Start
  <2>7. ~ downRaced' => Planned'
    BY <1>0, <2>3, <2>6 DEF MInv, Planned, Highest, Pending, Idle
  <2>8. ASSUME ~ downRaced' PROVE NoDown
    BY <1>0, <2>6, <2>8 DEF NoDown, Idle, Typed
  <2>9. CreatedBy(First(todo), 0) = {} /\ TakenBy(First(todo), 1) = {}
    <3>1. TakenBy(First(todo), 1) = Taken(Migration(First(todo)).down, 1, 0)
      BY DEF TakenBy
    <3>2. 1 \in Nat \ {0}
      OBVIOUS
    <3>3. First(todo) \in Versions
      BY <2>1, <2>4
    <3> QED
      BY <3>1, <3>2, <3>3, CreatedSpan, TakenStep
  <2>10. ASSUME ~ downRaced', (atomic \/ "down" \notin cut) PROVE AtLeast'
    <3>1. AtLeast /\ SchemaOf(recorded) \subseteq schema
      BY <2>6, <2>8, <2>10 DEF MInv, AtLeast
    <3>2. SchemaOf(recorded \ {First(todo)}) \subseteq SchemaOf(recorded)
      BY DEF SchemaOf
    <3>3. mode = "down" => Created(First(todo)) \subseteq SchemaOf(recorded)
      BY <2>4 DEF SchemaOf, Highest
    <3>4. Current(p)' = First(todo) /\ \A q \in Processes \ {p} : Current(q)' = Current(q)
      BY <2>3 DEF Current
    <3>5. NoDown' => SchemaOf(recorded') \subseteq schema'
      BY <1>0, <3>1
    <3>6. ASSUME NEW q \in Processes \ {p}
          PROVE  /\ run'[q].mode = "up" => CreatedBy(Current(q)', run'[q].next - 1) \subseteq schema'
                 /\ run'[q].mode # "down"
      BY <1>0, <2>3, <2>8, <2>10, <3>1, <3>4 DEF AtLeast, NoDown
    <3>7. /\ CreatedBy(Current(p)', run'[p].next - 1) = {}
          /\ TakenBy(Current(p)', run'[p].next) = {}
      BY <2>3, <2>9, <3>4
    <3>8. mode = "down" => /\ SchemaOf(recorded' \ {Current(p)'}) \subseteq schema'
                           /\ Created(Current(p)') \subseteq schema'
      BY <1>0, <3>1, <3>2, <3>3, <3>4
    <3>9. /\ run'[p].mode = "up" => CreatedBy(Current(p)', run'[p].next - 1) \subseteq schema'
          /\ run'[p].mode = "down" =>
               /\ SchemaOf(recorded' \ {Current(p)'}) \subseteq schema'
               /\ Created(Current(p)') \ TakenBy(Current(p)', run'[p].next) \subseteq schema'
               /\ schema' \cap TakenBy(Current(p)', run'[p].next) = {}
      <4>1. run'[p].mode = mode
        BY <2>3
      <4> QED
        BY <3>7, <3>8, <4>1
    <3> QED
      BY <3>5, <3>6, <3>9 DEF AtLeast
  <2>11. ASSUME ~ downRaced', (atomic \/ cut = {}) PROVE Exactly'
    <3>0. \A q \in Processes \ {p} : Current(q)' = Current(q)
      BY <2>3 DEF Current
    <3>1. schema = SchemaOf(recorded) \/ \E q \in Processes : Leads(q)
      BY <2>6, <2>8, <2>11 DEF MInv, Exactly
    <3>2. CASE mode = "up"
      <4>1. NoDown'
        <5>1. \A q \in Processes : run[q].mode # "down"
          BY <2>8, <2>11 DEF NoDown
        <5> QED
          BY <2>3, <3>2, <5>1 DEF NoDown
      <4>2. \A q \in Processes : Leads(q) => Leads(q)'
        BY <1>0, <2>3, <3>0 DEF Leads, Idle
      <4> QED
        <5>1. schema' = SchemaOf(recorded') \/ \E q \in Processes : Leads(q)'
          BY <1>0, <3>1, <4>2
        <5>2. \A q \in Processes : run'[q].mode # "down"
          BY <4>1 DEF NoDown
        <5> QED
          BY <5>1, <5>2 DEF Exactly
    <3>3. CASE mode = "down"
      <4>1. \A q \in Processes : run[q].mode = "idle"
        BY <1>0, <2>6, <2>11, <3>3 DEF Idle
      <4>2. schema = SchemaOf(recorded)
        BY <3>1, <4>1 DEF Leads
      <4>3. SchemaOf(recorded) = SchemaOf(recorded \ {First(todo)}) \cup Created(First(todo))
        BY <2>4, <3>3 DEF SchemaOf, Highest
      <4>4. Current(p)' = First(todo) /\ \A q \in Processes \ {p} : run'[q].mode = "idle"
        BY <2>3, <4>1 DEF Current
      <4> QED
        <5>1. ~ NoDown'
          BY <2>3, <3>3 DEF NoDown
        <5>2. \A q \in Processes : run'[q].mode = "down" => q = p
          BY <4>4
        <5>3. schema' = SchemaOf(recorded' \ {Current(p)'})
                          \cup (Created(Current(p)') \ TakenBy(Current(p)', run'[p].next))
          BY <1>0, <2>3, <2>9, <4>2, <4>3, <4>4
        <5> QED
          BY <5>1, <5>2, <5>3 DEF Exactly
    <3> QED
      BY <3>2, <3>3
  <2> QED
    BY <1>0, <2>5, <2>7, <2>10, <2>11 DEF MInv
<1> QED
  BY <1>1, <1>2

(* A command that is refused, or cut short.                                *)
LEMMA QuitKeeps ==
  ASSUME MInv, NEW p \in Processes, run[p] # Idle, Refused(p),
         UNCHANGED <<schema, recorded, atomic, downRaced>>,
         cut \subseteq cut', cut' \subseteq {"up", "down"},
         run[p].mode = "down" /\ ~ downRaced => atomic \/ "down" \in cut',
         run[p].mode = "up" /\ ~ downRaced => atomic \/ cut' # {} \/ ~ Leads(p)
  PROVE  MInv'
<1>0. /\ Typed /\ run' = [run EXCEPT ![p] = Idle]
      /\ run'[p] = Idle /\ \A q \in Processes \ {p} : run'[q] = run[q]
      /\ \A q \in Processes \ {p} : Current(q)' = Current(q) /\ Statements(q)' = Statements(q)
  BY DEF MInv, Refused, Typed, Current, Statements
<1>1. Typed'
  <2>1. Idle \in [mode : {"idle", "up", "down"}, todo : SUBSET Versions, next : Nat] /\ Idle.todo = {}
        /\ Idle.mode = "idle" /\ Idle.next = 1
    BY DEF Idle
  <2>2. run' \in [Processes -> [mode : {"idle", "up", "down"}, todo : SUBSET Versions, next : Nat]]
    BY <1>0, <2>1 DEF Typed
  <2> QED
    BY <1>0, <2>1, <2>2 DEF Typed, RunnerOK
<1>2. ~ downRaced => Planned'
  BY <1>0 DEF MInv, Planned, Highest, Idle
<1>3. ASSUME ~ downRaced, run[p].mode = "down"
      PROVE  \A q \in Processes \ {p} : run[q] = Idle
  BY <1>3 DEF MInv, Planned
<1>4. ASSUME ~ downRaced, atomic \/ "down" \notin cut' PROVE AtLeast'
  <2>1. AtLeast
    BY <1>4 DEF MInv
  <2>2. CASE run[p].mode = "down"
    <3>1. /\ SchemaOf(recorded \ {Current(p)}) \subseteq schema
          /\ Created(Current(p)) \ TakenBy(Current(p), run[p].next) \subseteq schema
      BY <2>1, <2>2 DEF AtLeast
    <3>2. run[p].next = 1 /\ Current(p) \in Versions
      BY <1>0, <1>4, <2>2, AtVersion DEF Typed
    <3>3. TakenBy(Current(p), 1) = {}
      BY TakenStep DEF TakenBy
    <3>4. SchemaOf(recorded) \subseteq SchemaOf(recorded \ {Current(p)}) \cup Created(Current(p))
      BY DEF SchemaOf
    <3>5. \A q \in Processes : run'[q] = Idle
      BY <1>0, <1>3, <1>4, <2>2
    <3> QED
      BY <3>1, <3>2, <3>3, <3>4, <3>5 DEF AtLeast, Idle
  <2>3. CASE run[p].mode # "down"
    <3>1. NoDown' => NoDown
      BY <1>0, <2>3 DEF NoDown
    <3> QED
      BY <1>0, <2>1, <3>1 DEF AtLeast, Idle
  <2> QED
    BY <2>2, <2>3
<1>5. ASSUME ~ downRaced, atomic \/ cut' = {} PROVE Exactly'
  <2>1. Exactly
    BY <1>5 DEF MInv
  <2>2. CASE run[p].mode = "down"
    <3>1. schema = SchemaOf(recorded \ {Current(p)})
                     \cup (Created(Current(p)) \ TakenBy(Current(p), run[p].next))
      BY <2>1, <2>2 DEF Exactly
    <3>2. run[p].next = 1 /\ Current(p) \in Versions /\ Current(p) \in run[p].todo
      BY <1>0, <1>5, <2>2, AtVersion DEF Typed
    <3>3. TakenBy(Current(p), 1) = {}
      BY TakenStep DEF TakenBy
    <3>4. Current(p) \in recorded
      BY <1>5, <2>2, <3>2 DEF MInv, Planned, Highest
    <3>5. SchemaOf(recorded) = SchemaOf(recorded \ {Current(p)}) \cup Created(Current(p))
      BY <3>4 DEF SchemaOf
    <3>6. \A q \in Processes : run'[q] = Idle
      BY <1>0, <1>3, <1>5, <2>2
    <3> QED
      BY <3>1, <3>2, <3>3, <3>5, <3>6 DEF Exactly, Idle
  <2>3. CASE run[p].mode = "up"
    <3>1. NoDown' => NoDown
      BY <1>0, <2>3 DEF NoDown
    <3>2. \A q \in Processes \ {p} : Leads(q) => Leads(q)'
      BY <1>0 DEF Leads
    <3>3. Leads(p) => schema = SchemaOf(recorded)
      <4>1. CASE ~ Leads(p)
        BY <4>1
      <4>2. CASE atomic
        <5>1. run[p].next = 1 /\ Current(p) \in Versions
          BY <1>0, <4>2, AtVersion DEF Typed
        <5> QED
          BY <5>1, CreatedSpan DEF Leads
      <4> QED
        BY <1>5, <2>3, <4>1, <4>2
    <3>4. \A q \in Processes : run'[q].mode = "down" => run[q].mode = "down" /\ q # p
      BY <1>0 DEF Idle
    <3> QED
      BY <1>0, <2>1, <3>1, <3>2, <3>3, <3>4 DEF Exactly
  <2> QED
    BY <1>0, <2>2, <2>3, AtVersion
<1> QED
  BY <1>1, <1>2, <1>4, <1>5 DEF MInv

(* A command that records its version.                                     *)
LEMMA RecordKeeps ==
  ASSUME MInv, NEW p \in Processes, run[p] # Idle, Records(p), Record(p), Proceed(p),
         UNCHANGED <<atomic, cut, downRaced>>,
         schema' \subseteq SchemaOf(Versions),
         ~ downRaced /\ (atomic \/ "down" \notin cut) =>
           /\ run[p].mode = "up" => schema \cup Created(Current(p)) \subseteq schema'
           /\ run[p].mode = "down" => SchemaOf(recorded \ {Current(p)}) \subseteq schema',
         ~ downRaced /\ (atomic \/ cut = {}) =>
           /\ run[p].mode = "up" => schema' = SchemaOf(recorded) \cup Created(Current(p))
           /\ run[p].mode = "down" => schema' = SchemaOf(recorded \ {Current(p)})
  PROVE  MInv'
<1> DEFINE v == Current(p)
           later == [mode |-> run[p].mode, todo |-> run[p].todo \ {v}, next |-> 1]
<1>0. /\ Typed /\ v \in run[p].todo /\ v \in Versions /\ run[p].mode \in {"up", "down"}
      /\ \A q \in Processes \ {p} : run'[q] = run[q]
      /\ \A q \in Processes \ {p} : Current(q)' = Current(q) /\ Statements(q)' = Statements(q)
      /\ run[p].todo \subseteq Versions
  BY AtVersion DEF MInv, Proceed, Typed, RunnerOK, Current, Statements
<1>1. /\ run[p].todo = {v} => run' = [run EXCEPT ![p] = Idle] /\ run'[p] = Idle
      /\ run[p].todo # {v} => run' = [run EXCEPT ![p] = later] /\ run'[p] = later
  <2>1. run' = [run EXCEPT ![p] = IF run[p].todo \ {v} = {} THEN Idle ELSE later]
    BY DEF Proceed
  <2>2. p \in DOMAIN run
    BY <1>0 DEF Typed
  <2> QED
    BY <1>0, <2>1, <2>2
<1>2. Idle.todo = {} /\ Idle.mode = "idle" /\ Idle.next = 1
      /\ Idle \in [mode : {"idle", "up", "down"}, todo : SUBSET Versions, next : Nat]
  BY DEF Idle
<1>3. /\ later.mode = run[p].mode /\ later.todo = run[p].todo \ {v} /\ later.next = 1
      /\ later \in [mode : {"idle", "up", "down"}, todo : SUBSET Versions, next : Nat]
  BY <1>0 DEF Typed
<1>4. recorded' \subseteq Versions
  BY <1>0 DEF Record, Typed, RunnerOK
<1>5. Typed'
  <2>1. run' \in [Processes -> [mode : {"idle", "up", "down"}, todo : SUBSET Versions, next : Nat]]
    BY <1>0, <1>1, <1>2, <1>3 DEF Typed
  <2>2. CASE run[p].todo = {v}
    <3>1. run'[p] = Idle
      BY <1>1, <2>2
    <3>2. ASSUME NEW q \in Processes
          PROVE  /\ run'[q].mode \in {"idle", "up", "down"}
                 /\ run'[q] = Idle <=> run'[q].todo = {}
                 /\ run'[q].todo \subseteq Versions
                 /\ run'[q] # Idle => run'[q].next \in 1 .. Len(Statements(q)') + 1
                 /\ run'[q].mode = "idle" => run'[q] = Idle
                 /\ atomic => run'[q].next = 1
      <4>1. CASE q = p
        BY <1>2, <3>1, <4>1
      <4>2. CASE q # p
        BY <1>0, <4>2 DEF Typed, RunnerOK
      <4> QED
        BY <4>1, <4>2
    <3> QED
      BY <1>0, <1>4, <2>1, <3>2 DEF Typed, RunnerOK
  <2>3. CASE run[p].todo # {v}
    <3>1. later.todo # {} /\ later # Idle
      BY <1>0, <1>2, <1>3, <2>3
    <3>2. First(later.todo) \in Versions
      BY <1>0, <1>3, <3>1, FirstIsLowest
    <3>3. Len(Statements(p)') \in Nat
      BY <1>1, <1>3, <2>3, <3>2, StatementsOfFile DEF Statements, Current
    <3>4. run'[p] = later /\ run'[p].next = 1
      BY <1>1, <1>3, <2>3
    <3>7. run'[p].next \in 1 .. Len(Statements(p)') + 1
      BY <3>3, <3>4
    <3>5. /\ run'[p].mode \in {"idle", "up", "down"}
          /\ run'[p] # Idle /\ run'[p].todo # {} /\ run'[p].todo \subseteq Versions
          /\ run'[p].mode # "idle" /\ run'[p].next = 1
      BY <1>0, <1>3, <3>1, <3>4
    <3>6. ASSUME NEW q \in Processes \ {p}
          PROVE  /\ run'[q].mode \in {"idle", "up", "down"}
                 /\ run'[q] = Idle <=> run'[q].todo = {}
                 /\ run'[q].todo \subseteq Versions
                 /\ run'[q] # Idle => run'[q].next \in 1 .. Len(Statements(q)') + 1
                 /\ run'[q].mode = "idle" => run'[q] = Idle
                 /\ atomic => run'[q].next = 1
      BY <1>0 DEF Typed, RunnerOK
    <3> QED
      BY <1>0, <1>4, <2>1, <3>5, <3>6, <3>7 DEF Typed, RunnerOK
  <2> QED
    BY <2>2, <2>3
<1>6. CASE downRaced
  BY <1>5, <1>6 DEF MInv
<1>7. CASE ~ downRaced /\ run[p].mode = "up"
  <2>1. recorded' = recorded \cup {v} /\ v \notin recorded
    BY <1>7 DEF Record, Records
  <2>2. /\ \A w \in Versions : w < v => w \in recorded
        /\ \A w \in Versions \ recorded : v <= w
    BY <1>7, <2>1, UpIsNext
  <2>3. NoDown /\ NoDown'
    <3>1. \A q \in Processes : run[q].mode # "down"
      BY <1>2, <1>7 DEF MInv, Planned
    <3> QED
      BY <1>0, <1>1, <1>2, <1>3, <1>7, <3>1 DEF NoDown
  <2>4. Planned'
    <3>1. Complete(recorded')
      BY <1>0, <1>7, <2>1, <2>2, CompleteWith DEF MInv, Planned, Typed, RunnerOK
    <3>2. ASSUME NEW q \in Processes, run'[q].mode = "up"
          PROVE  Versions \ recorded' \subseteq run'[q].todo
      BY <1>0, <1>1, <1>2, <1>3, <1>7, <2>1, <3>2 DEF MInv, Planned
    <3> QED
      BY <2>3, <3>1, <3>2 DEF Planned, NoDown
  <2>5. SchemaOf(recorded') = SchemaOf(recorded) \cup Created(v)
    BY <2>1 DEF SchemaOf
  <2>6. ASSUME atomic \/ "down" \notin cut PROVE AtLeast'
    <3>1. AtLeast /\ SchemaOf(recorded) \subseteq schema
      BY <1>7, <2>3, <2>6 DEF MInv, AtLeast
    <3>2. SchemaOf(recorded') \subseteq schema' /\ schema \subseteq schema'
      BY <1>7, <2>5, <2>6, <3>1
    <3>3. ASSUME NEW q \in Processes, run'[q].mode = "up"
          PROVE  CreatedBy(Current(q)', run'[q].next - 1) \subseteq schema'
      <4>1. CASE q = p
        <5>1. run[p].todo # {v} /\ run'[p].next = 1 /\ Current(p)' = First(later.todo)
          BY <1>1, <1>2, <1>3, <3>3, <4>1 DEF Current
        <5>2. First(later.todo) \in Versions
          BY <1>0, <1>3, <5>1, FirstIsLowest
        <5>3. CreatedBy(First(later.todo), 0) = {}
          BY <5>2, CreatedSpan
        <5>4. run'[q].next - 1 = 0 /\ Current(q)' = First(later.todo)
          BY <4>1, <5>1
        <5> QED
          BY <5>3, <5>4
      <4>2. CASE q # p
        BY <1>0, <3>1, <3>2, <3>3, <4>2 DEF AtLeast
      <4> QED
        BY <4>1, <4>2
    <3> QED
      BY <2>3, <3>2, <3>3 DEF AtLeast, NoDown
  <2>7. ASSUME atomic \/ cut = {} PROVE Exactly'
    <3>1. schema' = SchemaOf(recorded')
      BY <1>7, <2>5, <2>7
    <3> QED
      BY <2>3, <3>1 DEF Exactly, NoDown
  <2> QED
    BY <1>5, <1>7, <2>4, <2>6, <2>7 DEF MInv
<1>8. CASE ~ downRaced /\ run[p].mode = "down"
  <2>1. recorded' = recorded \ {v}
    BY <1>8 DEF Record
  <2>2. run[p].todo = Highest /\ \A q \in Processes \ {p} : run[q] = Idle
    BY <1>8 DEF MInv, Planned
  <2>3. run[p].todo = {v}
    BY <1>0, <2>2, OneHighest
  <2>4. \A q \in Processes : run'[q] = Idle
    BY <1>0, <1>1, <2>2, <2>3
  <2>5. Planned'
    <3>1. Complete(recorded')
      BY <1>0, <1>8, <2>1, <2>2, CompleteWithout DEF MInv, Planned, Typed, RunnerOK
    <3> QED
      BY <1>2, <2>4, <3>1 DEF Planned
  <2>6. ASSUME atomic \/ "down" \notin cut PROVE AtLeast'
    BY <1>2, <1>8, <2>1, <2>4, <2>6 DEF AtLeast
  <2>7. ASSUME atomic \/ cut = {} PROVE Exactly'
    BY <1>2, <1>8, <2>1, <2>4, <2>7 DEF Exactly
  <2> QED
    BY <1>5, <1>8, <2>5, <2>6, <2>7 DEF MInv
<1> QED
  BY <1>0, <1>6, <1>7, <1>8 DEF Typed, RunnerOK

(* What one statement does to what a version has left to take.             *)
LEMMA TransactionKeeps ==
  ASSUME MInv, NEW p \in Processes, Transaction(p)
  PROVE  MInv'
<1> DEFINE v == Current(p)
<1>0. /\ Typed /\ atomic /\ run[p] # Idle /\ run[p].next = 1
      /\ v \in run[p].todo /\ v \in Versions /\ run[p].mode \in {"up", "down"}
      /\ UNCHANGED <<atomic, cut, downRaced>>
      /\ cut \subseteq {"up", "down"} /\ recorded \subseteq Versions /\ schema \subseteq SchemaOf(Versions)
  BY AtVersion DEF MInv, Transaction, Typed, RunnerOK
<1>1. CASE ~ (Succeeds(schema, Statements(p)) /\ Records(p))
  BY <1>0, <1>1, QuitKeeps DEF Transaction
<1>2. CASE Succeeds(schema, Statements(p)) /\ Records(p)
  <2>1. /\ schema' = After(schema, Statements(p), Len(Statements(p)))
        /\ Record(p) /\ Proceed(p)
    BY <1>2 DEF Transaction
  <2>2. CASE run[p].mode = "up"
    <3>1. Statements(p) = Migration(v).up
      BY <2>2 DEF Statements
    <3>2. schema' = schema \cup Created(v)
      BY <1>0, <2>1, <3>1, UpAfter, StatementsOfFile DEF Created
    <3>3. schema' \subseteq SchemaOf(Versions)
      BY <1>0, <3>2 DEF SchemaOf
    <3>4. ASSUME ~ downRaced PROVE schema = SchemaOf(recorded)
      <4>1. NoDown
        BY <2>2, <3>4 DEF MInv, Planned, NoDown, Idle
      <4>2. \A q \in Processes : Leads(q) => schema = SchemaOf(recorded)
        <5>1. SUFFICES ASSUME NEW q \in Processes, Leads(q) PROVE schema = SchemaOf(recorded)
          OBVIOUS
        <5>2. run[q].next = 1 /\ run[q] # Idle
          BY <1>0, <5>1 DEF Typed, Leads, Idle
        <5>3. Current(q) \in Versions
          BY <1>0, <5>2, AtVersion
        <5> QED
          BY <5>1, <5>2, <5>3, CreatedSpan DEF Leads
      <4> QED
        BY <1>0, <3>4, <4>1, <4>2 DEF MInv, Exactly
    <3> QED
      BY <1>0, <1>2, <2>1, <2>2, <3>2, <3>3, <3>4, RecordKeeps
  <2>3. CASE run[p].mode = "down"
    <3>1. Statements(p) = Migration(v).down
      BY <2>3 DEF Statements
    <3>2. schema' = schema \ Taken(Migration(v).down, 1, Len(Migration(v).down))
      <4>1. Len(Migration(v).down) \in 0 .. Len(Migration(v).down)
        BY <1>0, StatementsOfFile
      <4>2. schema' = After(schema, Migration(v).down, Len(Migration(v).down))
        BY <2>1, <3>1
      <4> HIDE DEF v
      <4> QED
        BY <1>0, <4>1, <4>2, DownAfter
    <3>3. schema' \subseteq SchemaOf(Versions)
      BY <1>0, <3>2
    <3>4. ASSUME ~ downRaced PROVE schema' = SchemaOf(recorded \ {v})
      <4>1. v \in Highest /\ Complete(recorded)
        BY <1>0, <2>3, <3>4 DEF MInv, Planned
      <4>2. TakenBy(v, 1) = {}
        BY TakenStep DEF TakenBy
      <4>3. schema = SchemaOf(recorded \ {v}) \cup Created(v)
        BY <1>0, <2>3, <3>4, <4>2 DEF MInv, Exactly
      <4>4. \A w \in recorded \ {v} : w < v
        BY <1>0, <4>1, WantsAreThere
      <4>5. /\ Created(v) \subseteq Taken(Migration(v).down, 1, Len(Migration(v).down))
            /\ Taken(Migration(v).down, 1, Len(Migration(v).down)) \cap SchemaOf(recorded \ {v}) = {}
        <5>1. Len(Migration(v).down) \in 0 .. Len(Migration(v).down)
          BY <1>0, StatementsOfFile
        <5>2. recorded \ {v} \subseteq Versions
          BY <1>0
        <5> HIDE DEF v
        <5> QED
          BY <1>0, <4>4, <5>1, <5>2, DownUndoes
      <4> QED
        BY <3>2, <4>3, <4>5
    <3> QED
      BY <1>0, <1>2, <2>1, <2>3, <3>3, <3>4, RecordKeeps
  <2> QED
    BY <1>0, <2>2, <2>3
<1> QED
  BY <1>1, <1>2

LEMMA RecordStatementKeeps ==
  ASSUME MInv, NEW p \in Processes, RecordStatement(p)
  PROVE  MInv'
<1> DEFINE v == Current(p)
<1>0. /\ Typed /\ ~ atomic /\ run[p] # Idle /\ run[p].next = Len(Statements(p)) + 1
      /\ v \in run[p].todo /\ v \in Versions /\ run[p].mode \in {"up", "down"}
      /\ UNCHANGED <<schema, atomic, cut, downRaced>>
      /\ cut \subseteq {"up", "down"} /\ recorded \subseteq Versions /\ schema \subseteq SchemaOf(Versions)
  BY AtVersion DEF MInv, RecordStatement, Typed, RunnerOK
<1>1. CASE ~ Records(p)
  <2>1. run[p].mode = "up" /\ ~ Leads(p)
    BY <1>0, <1>1 DEF Records, Leads
  <2> QED
    BY <1>0, <1>1, <2>1, QuitKeeps DEF RecordStatement
<1>2. CASE Records(p)
  <2>1. Record(p) /\ Proceed(p)
    BY <1>2 DEF RecordStatement
  <2>2. CASE run[p].mode = "up"
    <3>1. run[p].next - 1 = Len(Migration(v).up)
      BY <1>0, <2>2, StatementsOfFile DEF Statements
    <3>2. ASSUME ~ downRaced, atomic \/ "down" \notin cut
          PROVE  Created(v) \subseteq schema
      BY <2>2, <3>1, <3>2 DEF MInv, AtLeast, Created
    <3>3. ASSUME ~ downRaced, atomic \/ cut = {}
          PROVE  schema = SchemaOf(recorded) \cup Created(v)
      <4>1. NoDown
        BY <2>2, <3>3 DEF MInv, Planned, NoDown, Idle
      <4>2. v \notin recorded
        BY <1>2, <2>2 DEF Records
      <4>3. SchemaOf(recorded) \subseteq schema /\ Created(v) \subseteq schema
        BY <1>0, <3>2, <3>3, <4>1 DEF MInv, AtLeast
      <4>4. ASSUME NEW q \in Processes, Leads(q)
            PROVE  schema \subseteq SchemaOf(recorded) \cup Created(v)
        <5>1. run[q] # Idle /\ Current(q) \in Versions /\ Current(q) \notin recorded /\ run[q].mode = "up"
          BY <1>0, <4>4, AtVersion DEF Leads, Idle
        <5>2. Current(q) = v
          BY <1>0, <2>2, <3>3, <4>2, <5>1, UpIsNext, FileOf
        <5>3. CreatedBy(v, run[q].next - 1) \subseteq Created(v)
          <6>1. run[q].next - 1 \in 0 .. Len(Migration(v).up)
            BY <1>0, <5>1, <5>2, AtVersion DEF Statements
          <6> QED
            BY <1>0, <6>1, CreatedSpan
        <5> QED
          BY <4>4, <5>2, <5>3 DEF Leads
      <4>5. schema = SchemaOf(recorded) \/ \E q \in Processes : Leads(q)
        BY <3>3, <4>1 DEF MInv, Exactly
      <4> QED
        BY <4>3, <4>4, <4>5
    <3> QED
      BY <1>0, <1>2, <2>1, <2>2, <3>2, <3>3, RecordKeeps
  <2>3. CASE run[p].mode = "down"
    <3>1. run[p].next - 1 = Len(Migration(v).down)
      BY <1>0, <2>3, StatementsOfFile DEF Statements
    <3>2. Created(v) \ TakenBy(v, run[p].next) = {}
      <4>1. Created(v) \subseteq Taken(Migration(v).down, 1, Len(Migration(v).down))
        BY <1>0, MigrationsAssumption DEF DownsUndo
      <4> QED
        BY <3>1, <4>1 DEF TakenBy
    <3>3. ASSUME ~ downRaced, atomic \/ "down" \notin cut
          PROVE  SchemaOf(recorded \ {v}) \subseteq schema
      BY <2>3, <3>3 DEF MInv, AtLeast
    <3>4. ASSUME ~ downRaced, atomic \/ cut = {}
          PROVE  schema = SchemaOf(recorded \ {v})
      BY <2>3, <3>2, <3>4 DEF MInv, Exactly
    <3> QED
      BY <1>0, <1>2, <2>1, <2>3, <3>3, <3>4, RecordKeeps
  <2> QED
    BY <1>0, <2>2, <2>3
<1> QED
  BY <1>1, <1>2

LEMMA FaultKeeps ==
  ASSUME MInv, NEW p \in Processes, Fault(p)
  PROVE  MInv'
<1>1. run[p] # Idle /\ run[p].mode \in {"up", "down"} /\ cut \subseteq {"up", "down"}
  BY AtVersion DEF MInv, Fault, Typed, RunnerOK
<1> QED
  BY <1>1, QuitKeeps DEF Fault

(* A statement of an Up is accepted where the Up leads.                    *)
LEMMA LeaderAccepted ==
  ASSUME MInv, ~ downRaced, NEW p \in Processes, Leads(p),
         run[p].next <= Len(Statements(p))
  PROVE  Accepts(schema, Statements(p)[run[p].next])
<1> DEFINE v == Current(p)
           k == run[p].next
<1>1. run[p] # Idle /\ run[p].mode = "up" /\ v \notin recorded /\ recorded \subseteq Versions
  BY DEF Leads, Idle, MInv, Typed, RunnerOK
<1>2. v \in Versions /\ k \in 1 .. Len(Migration(v).up) /\ Statements(p) = Migration(v).up
  BY <1>1, AtVersion DEF MInv, Statements
<1>3. {w \in Versions : w < v} \subseteq recorded
  BY <1>1, UpIsNext
<1>4. SchemaOf({w \in Versions : w < v}) \subseteq schema
  BY <1>3 DEF Leads, SchemaOf
<1>5. SchemaOf(recorded) \cap Created(v) = {}
  BY <1>1, <1>2, OneMaker DEF SchemaOf
<1>6. CreatedBy(v, k - 1) \subseteq Created(v)
  BY <1>2, CreatedSpan
<1>7. schema \cap Created(v) = CreatedBy(v, k - 1)
  BY <1>5, <1>6 DEF Leads
<1> HIDE DEF v, k
<1>8. Accepts(schema, Migration(v).up[k])
  BY <1>2, <1>4, <1>7, UpAccepts
<1> QED
  BY <1>2, <1>8 DEF v, k

(* So is one of a Down that no other Down was cut short before.            *)
LEMMA DownAccepted ==
  ASSUME MInv, ~ downRaced, atomic \/ "down" \notin cut, NEW p \in Processes,
         run[p].mode = "down", run[p].next <= Len(Statements(p))
  PROVE  Accepts(schema, Statements(p)[run[p].next])
<1> DEFINE v == Current(p)
           k == run[p].next
<1>1. run[p] # Idle /\ recorded \subseteq Versions /\ schema \subseteq SchemaOf(Versions) /\ Typed
  BY DEF Idle, MInv, Typed, RunnerOK
<1>2. v \in Versions /\ k \in 1 .. Len(Migration(v).down) /\ Statements(p) = Migration(v).down
      /\ v \in run[p].todo
  BY <1>1, AtVersion DEF Statements
<1>3. v \in Highest /\ Complete(recorded)
  BY <1>2 DEF MInv, Planned
<1>4. /\ SchemaOf(recorded \ {v}) \subseteq schema
      /\ Created(v) \ Taken(Migration(v).down, 1, k - 1) \subseteq schema
      /\ schema \cap Taken(Migration(v).down, 1, k - 1) = {}
  BY DEF MInv, AtLeast, TakenBy
<1>5. Wants(v) \subseteq schema
  BY <1>1, <1>3, <1>4, WantsAreThere
<1> HIDE DEF v, k
<1>6. Accepts(schema, Migration(v).down[k])
  BY <1>1, <1>2, <1>4, <1>5, DownAccepts
<1> QED
  BY <1>2, <1>6 DEF v, k

LEMMA StatementKeeps ==
  ASSUME MInv, NEW p \in Processes, Statement(p)
  PROVE  MInv'
<1> DEFINE v == Current(p)
           k == run[p].next
           stmt == Statements(p)[k]
<1>0. /\ Typed /\ ~ atomic /\ run[p] # Idle /\ k \in 1 .. Len(Statements(p))
      /\ v \in run[p].todo /\ v \in Versions /\ run[p].mode \in {"up", "down"}
      /\ UNCHANGED <<recorded, atomic, cut, downRaced>>
      /\ cut \subseteq {"up", "down"} /\ recorded \subseteq Versions /\ schema \subseteq SchemaOf(Versions)
  BY AtVersion DEF MInv, Statement, Typed, RunnerOK
<1>1. CASE ~ Accepts(schema, stmt)
  <2>1. Refused(p) /\ UNCHANGED schema
    BY <1>1 DEF Statement
  <2>2. run[p].mode = "up" /\ ~ downRaced => ~ Leads(p)
    BY <1>0, <1>1, LeaderAccepted
  <2>3. run[p].mode = "down" /\ ~ downRaced => "down" \in cut
    BY <1>0, <1>1, DownAccepted
  <2> QED
    BY <1>0, <2>1, <2>2, <2>3, QuitKeeps
<1>2. CASE Accepts(schema, stmt)
  <2>1. /\ schema' = Effect(schema, stmt)
        /\ run' = [run EXCEPT ![p].next = k + 1]
    BY <1>2 DEF Statement
  <2>2. /\ \A q \in Processes \ {p} : run'[q] = run[q]
        /\ run'[p].mode = run[p].mode /\ run'[p].todo = run[p].todo /\ run'[p].next = k + 1
        /\ \A q \in Processes : run'[q].mode = run[q].mode /\ run'[q].todo = run[q].todo
        /\ run' \in [Processes -> [mode : {"idle", "up", "down"}, todo : SUBSET Versions, next : Nat]]
    BY <1>0, <2>1 DEF Typed
  <2>3. \A q \in Processes : Current(q)' = Current(q) /\ Statements(q)' = Statements(q)
    BY <2>2 DEF Current, Statements
  <2>4. NoDown' <=> NoDown
    BY <2>2 DEF NoDown
  <2>7. ASSUME schema' \subseteq SchemaOf(Versions) PROVE Typed'
    <3>1. ASSUME NEW q \in Processes
          PROVE  /\ run'[q].mode \in {"idle", "up", "down"}
                 /\ run'[q] = Idle <=> run'[q].todo = {}
                 /\ run'[q].todo \subseteq Versions
                 /\ run'[q] # Idle => run'[q].next \in 1 .. Len(Statements(q)') + 1
                 /\ run'[q].mode = "idle" => run'[q] = Idle
      <4>1. CASE q = p
        <5>1. run'[p].todo # {} /\ run'[p] # Idle /\ run'[p].mode # "idle"
          BY <1>0, <2>2 DEF Idle
        <5>2. Len(Statements(p)) \in Nat
          BY <1>0, AtVersion
        <5>3. k + 1 \in 1 .. Len(Statements(p)) + 1
          BY <1>0, <5>2
        <5> QED
          BY <1>0, <2>2, <2>3, <4>1, <5>1, <5>3 DEF Typed, RunnerOK
      <4>2. CASE q # p
        BY <1>0, <2>2, <2>3, <4>2 DEF Typed, RunnerOK
      <4> QED
        BY <4>1, <4>2
    <3> QED
      BY <1>0, <2>2, <2>7, <3>1 DEF Typed, RunnerOK
  <2>5. CASE run[p].mode = "up"
    <3>1. Statements(p) = Migration(v).up /\ k \in 1 .. Len(Migration(v).up)
      BY <1>0, <2>5 DEF Statements
    <3>2. Takes(stmt) = {} /\ Gives(stmt) \subseteq Created(v)
      <4>1. Takes(stmt) = {} /\ Gives(stmt) \subseteq CreatedBy(v, k)
        <5>1. stmt = Migration(v).up[k]
          BY <3>1
        <5>2. Takes(Migration(v).up[k]) = {}
          BY <1>0, <3>1, UpTakesNothing
        <5>3. CreatedBy(v, k) = CreatedBy(v, k - 1) \cup Gives(Migration(v).up[k])
          BY <1>0, <3>1, CreatedStep
        <5> HIDE DEF v, k, stmt
        <5> QED
          BY <5>1, <5>2, <5>3
      <4>2. k \in 0 .. Len(Migration(v).up)
        BY <3>1
      <4> QED
        BY <1>0, <4>1, <4>2, CreatedSpan
    <3>3. CreatedBy(v, k) = CreatedBy(v, k - 1) \cup Gives(stmt)
      BY <1>0, <3>1, CreatedStep
    <3>4. schema' = schema \cup Gives(stmt)
      BY <2>1, <3>2 DEF Effect
    <3>5. schema' \subseteq SchemaOf(Versions)
      BY <1>0, <3>2, <3>4 DEF SchemaOf
    <3>6. ASSUME ~ downRaced PROVE NoDown
      BY <2>5, <3>6 DEF MInv, Planned, NoDown, Idle
    <3>7. ASSUME ~ downRaced, atomic \/ "down" \notin cut PROVE AtLeast'
      <4>1. AtLeast /\ NoDown
        BY <3>6, <3>7 DEF MInv
      <4>2. CreatedBy(Current(p)', run'[p].next - 1) \subseteq schema'
        <5>1. run'[p].next - 1 = k /\ Current(p)' = v
          BY <1>0, <2>2, <2>3
        <5>2. CreatedBy(v, k - 1) \subseteq schema
          BY <2>5, <4>1 DEF AtLeast
        <5> QED
          BY <3>3, <3>4, <5>1, <5>2
      <4> QED
        BY <1>0, <2>2, <2>3, <2>4, <3>4, <4>1, <4>2 DEF AtLeast, NoDown
    <3>8. ASSUME ~ downRaced, atomic \/ cut = {} PROVE Exactly'
      <4>1. /\ SchemaOf(recorded) \subseteq schema /\ CreatedBy(v, k - 1) \subseteq schema
            /\ schema = SchemaOf(recorded) \/ \E q \in Processes : Leads(q)
            /\ NoDown
        BY <2>5, <3>6, <3>8 DEF MInv, AtLeast, Exactly
      <4>2. CASE v \in recorded
        <5>1. schema' = schema
          BY <3>2, <3>4, <4>1, <4>2 DEF SchemaOf
        <5>2. \A q \in Processes : Leads(q) => Leads(q)'
          BY <1>0, <2>2, <2>3, <4>2, <5>1 DEF Leads
        <5>3. schema' = SchemaOf(recorded') \/ \E q \in Processes : Leads(q)'
          BY <1>0, <4>1, <5>1, <5>2
        <5> QED
          BY <2>4, <4>1, <5>3 DEF Exactly, NoDown
      <4>3. CASE v \notin recorded
        <5>1. ASSUME schema = SchemaOf(recorded) \cup CreatedBy(v, k - 1) PROVE Leads(p)'
          <6>1. run'[p].next - 1 = k /\ Current(p)' = v
            BY <1>0, <2>2, <2>3
          <6>2. schema' = SchemaOf(recorded) \cup CreatedBy(v, k)
            BY <3>3, <3>4, <5>1
          <6> QED
            BY <1>0, <2>2, <2>5, <4>3, <6>1, <6>2 DEF Leads
        <5>2. schema = SchemaOf(recorded) => Leads(p)'
          BY <4>1, <5>1
        <5>3. ASSUME NEW q \in Processes, Leads(q)
              PROVE  Leads(p)' \/ Leads(q)'
          <6> DEFINE n == run[q].next
          <6>1. run[q] # Idle /\ Current(q) \in Versions /\ Current(q) \notin recorded /\ run[q].mode = "up"
            BY <1>0, <5>3, AtVersion DEF Leads, Idle
          <6>2. Current(q) = v
            BY <1>0, <2>5, <3>8, <4>3, <6>1, UpIsNext, FileOf
          <6>3. n \in 1 .. Len(Migration(v).up) + 1 /\ Len(Migration(v).up) \in Nat
            BY <1>0, <6>1, <6>2, AtVersion DEF Statements
          <6>4. schema = SchemaOf(recorded) \cup CreatedBy(v, n - 1)
            BY <5>3, <6>2 DEF Leads
          <6>5. CASE n <= k
            <7>1. CreatedBy(v, n - 1) \subseteq CreatedBy(v, k - 1)
              <8>1. k - 1 \in 0 .. Len(Migration(v).up) /\ n - 1 \in 0 .. k - 1
                BY <3>1, <6>3, <6>5
              <8> QED
                BY <1>0, <8>1, CreatedSpan
            <7> QED
              BY <4>1, <5>1, <6>4, <7>1
          <6>6. CASE k < n
            <7>1. CreatedBy(v, k) \subseteq CreatedBy(v, n - 1)
              <8>1. n - 1 \in 0 .. Len(Migration(v).up) /\ k \in 0 .. n - 1
                BY <3>1, <6>3, <6>6
              <8> QED
                BY <1>0, <8>1, CreatedSpan
            <7>2. schema' = schema /\ q # p
              BY <3>3, <3>4, <6>4, <6>6, <6>3, <7>1
            <7> QED
              BY <1>0, <2>2, <2>3, <5>3, <7>2 DEF Leads
          <6> QED
            BY <1>0, <3>1, <6>3, <6>5, <6>6
        <5>4. \E q \in Processes : Leads(q)'
          BY <4>1, <5>1, <5>2, <5>3
        <5> QED
          BY <2>4, <4>1, <5>4 DEF Exactly, NoDown
      <4> QED
        BY <4>2, <4>3
    <3>9. ~ downRaced => Planned'
      BY <1>0, <2>2 DEF MInv, Planned, Highest, Idle
    <3>10. Typed'
      BY <2>7, <3>5
    <3> QED
      BY <1>0, <3>7, <3>8, <3>9, <3>10 DEF MInv
  <2>6. CASE run[p].mode = "down"
    <3>1. Statements(p) = Migration(v).down /\ k \in 1 .. Len(Migration(v).down) /\ k \in Nat \ {0}
      BY <1>0, <2>6 DEF Statements
    <3>2. Gives(stmt) = {}
      BY <1>0, <3>1, DownGivesNothing
    <3>3. schema' = schema \ Takes(stmt)
      BY <2>1, <3>2 DEF Effect
    <3>4. TakenBy(v, k + 1) = TakenBy(v, k) \cup Takes(stmt)
      <4>1. k + 1 - 1 = k
        BY <1>0
      <4> QED
        BY <3>1, <4>1, TakenStep DEF TakenBy
    <3>5. /\ run'[p].next = k + 1 /\ Current(p)' = v /\ ~ NoDown'
      BY <2>2, <2>3, <2>6 DEF NoDown
    <3>6. ASSUME ~ downRaced PROVE \A q \in Processes \ {p} : run'[q].mode # "down"
      BY <2>2, <2>6, <3>6 DEF MInv, Planned, Idle
    <3>7. ASSUME ~ downRaced PROVE Takes(stmt) \cap SchemaOf(recorded \ {v}) = {}
      <4>1. v \in Highest /\ Complete(recorded)
        BY <1>0, <2>6, <3>7 DEF MInv, Planned
      <4>2. \A w \in recorded \ {v} : w < v
        BY <1>0, <4>1, WantsAreThere
      <4>3. recorded \ {v} \subseteq {w \in Versions : w < v}
        BY <1>0, <4>2
      <4>4. SchemaOf(recorded \ {v}) \subseteq SchemaOf({w \in Versions : w < v})
        BY <4>3 DEF SchemaOf
      <4>5. Takes(stmt) \cap SchemaOf({w \in Versions : w < v}) = {}
        BY <1>0, <3>1, StatementsOfFile, MigrationsAssumption DEF DownsUndo
      <4> QED
        BY <4>4, <4>5
    <3>8. ASSUME ~ downRaced, atomic \/ "down" \notin cut PROVE AtLeast'
      <4>1. /\ SchemaOf(recorded \ {v}) \subseteq schema
            /\ Created(v) \ TakenBy(v, k) \subseteq schema
            /\ schema \cap TakenBy(v, k) = {}
        BY <2>6, <3>8 DEF MInv, AtLeast
      <4>2. /\ SchemaOf(recorded' \ {v}) \subseteq schema'
            /\ Created(v) \ TakenBy(v, k + 1) \subseteq schema'
            /\ schema' \cap TakenBy(v, k + 1) = {}
        BY <1>0, <3>3, <3>4, <3>7, <3>8, <4>1
      <4>3. \A q \in Processes \ {p} : run'[q].mode # "up"
        BY <2>2, <2>6, <3>8 DEF MInv, Planned, Idle
      <4> QED
        BY <2>2, <2>6, <3>5, <3>6, <3>8, <4>2, <4>3 DEF AtLeast
    <3>9. ASSUME ~ downRaced, atomic \/ cut = {} PROVE Exactly'
      <4>1. schema = SchemaOf(recorded \ {v}) \cup (Created(v) \ TakenBy(v, k))
        BY <2>6, <3>9 DEF MInv, Exactly
      <4>2. schema' = SchemaOf(recorded' \ {v}) \cup (Created(v) \ TakenBy(v, k + 1))
        BY <1>0, <3>3, <3>4, <3>7, <3>9, <4>1
      <4> QED
        BY <2>2, <3>5, <3>6, <3>9, <4>2 DEF Exactly
    <3>10. ~ downRaced => Planned'
      BY <1>0, <2>2 DEF MInv, Planned, Highest, Idle
    <3>11. Typed'
      BY <1>0, <2>7, <3>3
    <3> QED
      BY <1>0, <3>8, <3>9, <3>10, <3>11 DEF MInv
  <2> QED
    BY <1>0, <2>5, <2>6
<1> QED
  BY <1>1, <1>2

LEMMA MInvInit ==
  ASSUME Init PROVE MInv
<1>1. /\ recorded \subseteq Versions /\ Complete(recorded)
      /\ Idle.todo = {} /\ Idle.mode = "idle" /\ Idle.next = 1
      /\ Idle \in [mode : {"idle", "up", "down"}, todo : SUBSET Versions, next : Nat]
      /\ \A p \in Processes : run[p] = Idle
  BY MigrationsAssumption DEF Init, Idle
<1>2. schema \subseteq SchemaOf(Versions)
  BY <1>1 DEF Init, SchemaOf
<1>3. Typed
  BY <1>1, <1>2 DEF Init, Typed, RunnerOK
<1> QED
  BY <1>1, <1>3 DEF Init, MInv, Planned, AtLeast, Exactly

LEMMA MInvStep ==
  ASSUME MInv, [Next]_vars PROVE MInv'
<1>1. CASE UNCHANGED vars
  BY <1>1 DEF vars, MInv, Typed, RunnerOK, Planned, AtLeast, Exactly, NoDown, Leads, TakenBy,
       Current, Statements, Highest
<1>2. ASSUME NEW p \in Processes, Up(p) PROVE MInv'
  BY <1>2, StartKeeps DEF Up
<1>3. ASSUME NEW p \in Processes, Down(p) PROVE MInv'
  BY <1>3, StartKeeps DEF Down
<1>4. ASSUME Serve PROVE MInv'
  BY <1>4 DEF Serve, MInv, Typed, RunnerOK, Planned, AtLeast, Exactly, NoDown, Leads, TakenBy,
       Current, Statements, Highest
<1>5. ASSUME NEW p \in Processes, Trips(p) PROVE MInv'
  BY <1>5, FaultKeeps DEF Trips
<1> QED
  BY <1>1, <1>2, <1>3, <1>4, <1>5, TransactionKeeps, StatementKeeps, RecordStatementKeeps,
     FaultKeeps DEF Next

LEMMA MInvHolds == Spec => []MInv
<1>1. Init => MInv
  BY MInvInit
<1>2. MInv /\ [Next]_vars => MInv'
  BY MInvStep
<1> QED
  BY <1>1, <1>2, PTL DEF Spec

(* Rows go with the table they are in: no statement takes an object and    *)
(* leaves rows that would be in it.                                        *)
RowsFit == rows \subseteq Obstacles \cap schema

LEMMA RowsFitStep ==
  ASSUME MInv, RowsFit, [Next]_vars PROVE RowsFit'
<1>1. CASE UNCHANGED <<schema, rows>> \/ Serve
  BY <1>1 DEF Serve, RowsFit
<1>2. ASSUME NEW p \in Processes, Transaction(p) PROVE RowsFit'
  <2>1. CASE UNCHANGED <<schema, rows>>
    BY <2>1 DEF RowsFit
  <2>2. CASE ~ UNCHANGED <<schema, rows>>
    <3> DEFINE stmts == Statements(p)
    <3>1. /\ schema' = After(schema, stmts, Len(stmts))
          /\ rows' = rows \ Taken(stmts, 1, Len(stmts))
      BY <1>2, <2>2 DEF Transaction
    <3> QED
      BY <3>1 DEF After, RowsFit
  <2> QED
    BY <2>1, <2>2
<1>3. ASSUME NEW p \in Processes, Statement(p) PROVE RowsFit'
  <2>1. CASE UNCHANGED <<schema, rows>>
    BY <2>1 DEF RowsFit
  <2>2. CASE ~ UNCHANGED <<schema, rows>>
    <3> DEFINE stmt == Statements(p)[run[p].next]
    <3>1. schema' = Effect(schema, stmt) /\ rows' = rows \ Takes(stmt)
      BY <1>3, <2>2 DEF Statement
    <3> QED
      BY <3>1 DEF Effect, RowsFit
  <2> QED
    BY <2>1, <2>2
<1>4. ASSUME NEW p \in Processes, Up(p) \/ Down(p) \/ RecordStatement(p) \/ Trips(p) \/ Fault(p)
      PROVE  UNCHANGED <<schema, rows>>
  BY <1>4 DEF Up, Down, Start, RecordStatement, Trips, Fault
<1> QED
  BY <1>1, <1>2, <1>3, <1>4 DEF Next, vars

LEMMA RowsAlwaysFit == Spec => []RowsFit
<1>1. Init => RowsFit
  BY DEF Init, RowsFit
<1>2. MInv /\ RowsFit /\ [Next]_vars => RowsFit'
  BY RowsFitStep
<1> QED
  BY <1>1, <1>2, MInvHolds, PTL DEF Spec

-----------------------------------------------------------------------------
(* Between commands the schema is exactly what the recorded versions       *)
(* create, whatever stopped an Up on SQLite and however many of them ran   *)
(* on D1 (Up, Down and apply of migrations.go).                            *)
THEOREM SchemaAlwaysMatchesRecord == Spec => []SchemaMatchesRecord
<1>1. MInv => SchemaMatchesRecord
  BY DEF MInv, Exactly, NoDown, Leads, SchemaMatchesRecord, Quiet, Idle
<1> QED
  BY <1>1, MInvHolds, PTL

(* No version is ever recorded of which something is missing, at any step  *)
(* of any number of Ups, whichever of them are cut short, while no Down    *)
(* runs; on D1 as long as no Down was cut short either: apply records a    *)
(* version after its last statement.                                       *)
THEOREM RecordedIsAlwaysComplete == Spec => []RecordedIsComplete
<1>1. MInv /\ RowsFit => RecordedIsComplete
  BY DEF MInv, Typed, AtLeast, NoDown, RecordedIsComplete, TypeOK, RowsFit
<1> QED
  BY <1>1, MInvHolds, RowsAlwaysFit, PTL

(* No statement of what is pending between commands is refused for what    *)
(* the schema has or lacks, one file after the other, nor is one of the    *)
(* highest recorded version's Down: no command leaves a schema that the    *)
(* files of the next one do not expect (pending and apply of               *)
(* migrations.go).  That rows refuse none of them does not hold.           *)
THEOREM FilesAlwaysFit == Spec => []FilesFitTheSchema
<1>1. MInv => FilesFitTheSchema
  <2> SUFFICES ASSUME MInv, Quiet, ~ downRaced, atomic \/ cut = {}
               PROVE  /\ \A v \in Pending :
                           Succeeds(schema \cup SchemaOf({w \in Pending : w < v}), Migration(v).up)
                      /\ \A v \in Highest : Succeeds(schema, Migration(v).down)
    BY DEF FilesFitTheSchema
  <2>1. /\ schema = SchemaOf(recorded) /\ Complete(recorded) /\ recorded \subseteq Versions
        /\ schema \subseteq SchemaOf(Versions)
    BY DEF MInv, Exactly, NoDown, Leads, Quiet, Idle, Planned, Typed, RunnerOK
  <2>2. ASSUME NEW v \in Pending
        PROVE  Succeeds(schema \cup SchemaOf({w \in Pending : w < v}), Migration(v).up)
    <3> DEFINE before == schema \cup SchemaOf({w \in Pending : w < v})
               up == Migration(v).up
    <3>1. v \in Versions /\ v \notin recorded
      BY DEF Pending
    <3>2. SchemaOf({w \in Versions : w < v}) \subseteq before
      <4>1. {w \in Versions : w < v} \subseteq recorded \cup {w \in Pending : w < v}
        BY DEF Pending
      <4> QED
        BY <2>1, <4>1 DEF SchemaOf
    <3>3. before \cap Created(v) = {}
      <4>1. \A w \in recorded \cup {x \in Pending : x < v} : w \in Versions /\ w # v
        BY <2>1, <3>1, FileOf DEF Pending
      <4>2. \A w \in recorded \cup {x \in Pending : x < v} : Created(w) \cap Created(v) = {}
        BY <3>1, <4>1, OneMaker
      <4> QED
        BY <2>1, <4>2 DEF SchemaOf
    <3>4. ASSUME NEW k \in 1 .. Len(up)
          PROVE  Accepts(After(before, up, k - 1), up[k])
      <4>1. k - 1 \in 0 .. Len(up) /\ Len(up) \in Nat
        BY <3>1, StatementsOfFile
      <4>2. After(before, up, k - 1) = before \cup CreatedBy(v, k - 1)
        BY <3>1, <4>1, UpAfter
      <4>3. CreatedBy(v, k - 1) \subseteq Created(v)
        BY <3>1, <4>1, CreatedSpan
      <4>4. /\ SchemaOf({w \in Versions : w < v}) \subseteq before \cup CreatedBy(v, k - 1)
            /\ (before \cup CreatedBy(v, k - 1)) \cap Created(v) = CreatedBy(v, k - 1)
        BY <3>2, <3>3, <4>3
      <4> HIDE DEF before
      <4>5. Accepts(before \cup CreatedBy(v, k - 1), Migration(v).up[k])
        BY <3>1, <4>4, UpAccepts
      <4> QED
        BY <4>2, <4>5
    <3> QED
      BY <3>1, <3>4, StatementsOfFile DEF Succeeds
  <2>3. ASSUME NEW v \in Highest
        PROVE  Succeeds(schema, Migration(v).down)
    <3> DEFINE down == Migration(v).down
    <3>1. v \in Versions
      BY DEF Highest
    <3>2. /\ Wants(v) \subseteq SchemaOf(recorded \ {v})
          /\ \A w \in recorded \ {v} : w < v
          /\ schema = SchemaOf(recorded \ {v}) \cup Created(v)
      BY <2>1, WantsAreThere
    <3>3. ASSUME NEW k \in 1 .. Len(down)
          PROVE  Accepts(After(schema, down, k - 1), down[k])
      <4>1. k - 1 \in 0 .. Len(down) /\ Len(down) \in Nat
        BY <3>1, StatementsOfFile
      <4> DEFINE taken == Taken(down, 1, k - 1)
      <4>2. After(schema, down, k - 1) = schema \ taken
        BY <3>1, <4>1, DownAfter
      <4>3. taken \cap SchemaOf(recorded \ {v}) = {}
        <5>1. recorded \ {v} \subseteq Versions
          BY <2>1
        <5> QED
          BY <3>1, <3>2, <4>1, <5>1, DownUndoes
      <4>4. /\ schema \ taken \subseteq SchemaOf(Versions) /\ Wants(v) \subseteq schema \ taken
            /\ Created(v) \ taken \subseteq schema \ taken
            /\ (schema \ taken) \cap taken = {}
        BY <2>1, <3>2, <4>3
      <4>5. Accepts(schema \ taken, Migration(v).down[k])
        BY <3>1, <4>4, DownAccepts
      <4> QED
        BY <4>2, <4>5
    <3> QED
      BY <3>1, <3>3, StatementsOfFile DEF Succeeds
  <2> QED
    BY <2>2, <2>3
<1> QED
  BY <1>1, MInvHolds, PTL

(* An Up that records its last version leaves no version of the build      *)
(* unrecorded, whatever other Ups did meanwhile: its plan was everything   *)
(* that was not recorded, gaps included (pending of migrations.go).        *)
THEOREM UpAlwaysLeavesNothingPending == Spec => UpLeavesNothingPending
<1> DEFINE Done(p) == run[p].mode = "up" /\ run'[p] = Idle /\ recorded' # recorded /\ ~ downRaced
<1>1. ASSUME MInv, [Next]_vars, NEW p \in Processes, Done(p)
      PROVE  recorded' = Versions
  <2>1. /\ Typed /\ Versions \ recorded \subseteq run[p].todo /\ run[p] # Idle
        /\ recorded \subseteq Versions
    BY <1>1 DEF MInv, Planned, Idle, Typed, RunnerOK
  <2>2. PICK q \in Processes : (Transaction(q) \/ RecordStatement(q)) /\ Record(q) /\ Proceed(q)
    BY <1>1 DEF Next, vars, Serve, Up, Down, Start, Statement, Trips, Fault, Transaction,
                RecordStatement
  <2>3. q = p
    BY <1>1, <2>1, <2>2 DEF Proceed, Typed
  <2>4. recorded' = recorded \cup {Current(p)} /\ run[p].todo \ {Current(p)} = {}
    <3>1. recorded' = recorded \cup {Current(p)}
      BY <1>1, <2>2, <2>3 DEF Record
    <3> DEFINE left == run[p].todo \ {Current(p)}
    <3>2. run'[p] = IF left = {} THEN Idle ELSE [mode |-> run[p].mode, todo |-> left, next |-> 1]
      BY <2>1, <2>2, <2>3 DEF Proceed, Typed
    <3>3. [mode |-> run[p].mode, todo |-> left, next |-> 1].todo = left /\ Idle.todo = {}
      BY DEF Idle
    <3>4. left = {}
      BY <1>1, <3>2, <3>3
    <3> QED
      BY <3>1, <3>4
  <2>5. Current(p) \in Versions
    BY <2>1, AtVersion
  <2> QED
    BY <2>1, <2>4, <2>5
<1>2. MInv /\ [Next]_vars => [\A p \in Processes : Done(p) => recorded' = Versions]_vars
  BY <1>1
<1> QED
  BY <1>2, MInvHolds, PTL DEF Spec, UpLeavesNothingPending

-----------------------------------------------------------------------------
(* The scanners of SQL text beside SQLite's tokenizer. *)

(* Where splitStatements is when SQLite's tokenizer is where it is.        *)
InStep ==
  /\ here \in Chars \cup {End}
  /\ split \in [mode : Quotes \cup {"top", "line", "block", "]"}, skip : BOOLEAN]
  /\ lexer \in Outside \cup Comment \cup Quotes \cup {"bracket"}
  /\ IF split.skip
     THEN \/ split.mode = "line" /\ lexer = "dash" /\ here = "-"
          \/ split.mode = "block" /\ lexer = "slash" /\ here = "*"
          \/ split.mode = "top" /\ lexer = "star" /\ here = "/"
          \/ split.mode \in Quotes \cup {"]"} /\ lexer = "start" /\ here = split.mode
     ELSE \/ /\ split.mode = "top" /\ lexer \in Outside
             /\ lexer = "dash" => here # "-"
             /\ lexer = "slash" => here # "*"
          \/ split.mode = "line" /\ lexer = "line"
          \/ split.mode = "block" /\ lexer \in {"block", "star"} /\ (lexer = "star" => here # "/")
          \/ split.mode \in Quotes /\ lexer = split.mode
          \/ split.mode = "]" /\ lexer = "bracket"

LEMMA InStepStep ==
  ASSUME InStep, Read, known'.legal PROVE InStep' /\ CutsWhereSQLiteDoes'
<1>1. /\ here \in Chars /\ here' \in Chars \cup {End}
      /\ split' = SplitNext(here, here') /\ lexer' = Lex(here)
      /\ known' = Known(here, here')
      /\ last' = [char |-> here, cut |-> Cuts(here), kept |-> Keeps(here, here'),
                  ended |-> lexer \in Outside /\ here = ";",
                  comment |-> \/ lexer \in Comment /\ ~ (lexer = "line" /\ here = "newline")
                              \/ lexer \in Outside /\ Lex(here) \in Comment]
  BY DEF Read, InStep, End
<1>2. PICK c \in Chars, after \in Chars \cup {End} : c = here /\ after = here'
  BY <1>1
<1>5. InComment' <=> \/ last'.comment
                     \/ lexer' = "dash" /\ after = "-"
                     \/ lexer' = "slash" /\ after = "*"
  BY <1>2 DEF InComment, Lex, LexOutside, Outside, Comment, Quotes
<1>6. known'.legal = (known.legal /\ ~ (lexer \in Outside /\ c = "]"))
  BY <1>1, <1>2 DEF Known
<1>3. CASE split.skip
  <2>1. split' = [split EXCEPT !.skip = FALSE]
    BY <1>1, <1>3 DEF SplitNext
  <2>2. split'.mode = split.mode /\ split'.skip = FALSE /\ last'.cut = FALSE
        /\ split' \in [mode : Quotes \cup {"top", "line", "block", "]"}, skip : BOOLEAN]
    BY <1>1, <1>3, <2>1 DEF InStep, Cuts
  <2>3. CASE split.mode = "line" /\ lexer = "dash" /\ here = "-"
    <3>1. lexer' = "line"
      BY <1>1, <2>3 DEF Lex, LexOutside, Outside, Quotes
    <3>2. last'.comment = TRUE /\ last'.kept = FALSE /\ last'.ended = FALSE
      BY <1>1, <1>3, <2>3, <3>1 DEF Keeps, Outside, Comment
    <3> QED
      BY <1>1, <1>2, <1>5, <2>2, <2>3, <3>1, <3>2 DEF InStep, CutsWhereSQLiteDoes, Outside, Comment
  <2>4. CASE split.mode = "block" /\ lexer = "slash" /\ here = "*"
    <3>1. lexer' = "block"
      BY <1>1, <2>4 DEF Lex, LexOutside, Outside, Quotes
    <3>2. last'.comment = TRUE /\ last'.kept = FALSE /\ last'.ended = FALSE
      BY <1>1, <1>3, <2>4, <3>1 DEF Keeps, Outside, Comment
    <3> QED
      BY <1>1, <1>2, <1>5, <2>2, <2>4, <3>1, <3>2 DEF InStep, CutsWhereSQLiteDoes, Outside, Comment
  <2>5. CASE split.mode = "top" /\ lexer = "star" /\ here = "/"
    <3>1. lexer' = "start"
      BY <1>1, <2>5 DEF Lex, LexInside, Outside, Quotes
    <3>2. last'.comment = TRUE /\ last'.kept = FALSE /\ last'.ended = FALSE
      BY <1>1, <1>3, <2>5, <3>1 DEF Keeps, Outside, Comment
    <3> QED
      BY <1>1, <1>2, <1>5, <2>2, <2>5, <3>1, <3>2 DEF InStep, CutsWhereSQLiteDoes, Outside, Comment
  <2>6. CASE split.mode \in Quotes \cup {"]"} /\ lexer = "start" /\ here = split.mode
    <3>0. split.mode \in Quotes
      BY <1>2, <1>6, <2>6 DEF Outside
    <3>1. lexer' = c
      BY <1>1, <1>2, <2>6, <3>0 DEF Lex, LexOutside, Outside, Quotes
    <3>2. last'.kept = TRUE /\ last'.comment = FALSE /\ last'.ended = FALSE
      BY <1>1, <1>2, <1>3, <2>2, <2>6, <3>0, <3>1 DEF Keeps, Comment, Quotes
    <3>3. lexer' \notin {"dash", "slash"}
      BY <1>2, <2>6, <3>0, <3>1 DEF Quotes
    <3> QED
      BY <1>1, <1>2, <1>5, <2>2, <2>6, <3>0, <3>1, <3>2, <3>3
         DEF InStep, CutsWhereSQLiteDoes, Outside, Comment, Quotes
  <2> QED
    BY <1>3, <2>3, <2>4, <2>5, <2>6 DEF InStep
<1>4. CASE ~ split.skip
  <2>1. CASE split.mode = "top"
    <3>1. /\ lexer \in Outside /\ lexer' = LexOutside(c)
          /\ lexer = "dash" => c # "-"
          /\ lexer = "slash" => c # "*"
      BY <1>1, <1>2, <1>4, <2>1 DEF InStep, Lex, Quotes
    <3>2. last'.cut = last'.ended /\ (last'.kept <=> ~ InComment' /\ ~ last'.ended)
      <4>1. /\ last'.cut = (c = ";") /\ last'.ended = (c = ";")
            /\ last'.kept = (c # ";" /\ ~ Opens(c, after))
        BY <1>1, <1>2, <1>4, <2>1, <3>1 DEF Cuts, Keeps
      <4>2. ~ last'.comment
        BY <1>1, <1>2, <3>1 DEF LexOutside, Outside, Comment, Quotes
      <4>3. /\ lexer' = "dash" <=> c = "-"
            /\ lexer' = "slash" <=> c = "/"
        BY <3>1 DEF LexOutside, Outside, Quotes
      <4>4. Opens(c, after) <=> (c = "-" /\ after = "-") \/ (c = "/" /\ after = "*")
        BY <2>1 DEF Opens
      <4> QED
        BY <1>5, <4>1, <4>2, <4>3, <4>4
    <3>3. InStep'
      <4>1. CASE Opens(c, after)
        BY <1>1, <1>2, <1>4, <2>1, <3>1, <4>1 DEF InStep, Opens, LexOutside, Outside, Comment, Quotes, Chars, End, SplitNext
      <4>2. CASE ~ Opens(c, after) /\ c \in Quotes
        BY <1>1, <1>2, <1>4, <2>1, <3>1, <4>2 DEF InStep, Closing, LexOutside, Outside, Comment, Quotes, Chars, End, SplitNext
      <4>3. CASE ~ Opens(c, after) /\ c = "["
        BY <1>1, <1>2, <1>4, <2>1, <3>1, <4>3 DEF InStep, Closing, LexOutside, Outside, Comment, Quotes, Chars, End, SplitNext
      <4>4. CASE ~ Opens(c, after) /\ c \notin Quotes \cup {"["}
        <5>1. split' = split
          BY <1>1, <1>2, <1>4, <2>1, <4>4 DEF SplitNext
        <5> QED
          BY <1>1, <1>2, <1>4, <2>1, <3>1, <4>4, <5>1 DEF InStep, Opens, LexOutside, Outside, Comment, Quotes, Chars, End
      <4> QED
        BY <4>1, <4>2, <4>3, <4>4
    <3> QED
      BY <3>2, <3>3 DEF CutsWhereSQLiteDoes
  <2>2. CASE split.mode = "line"
    <3>1. lexer = "line" /\ lexer' = IF c = "newline" THEN "start" ELSE "line"
      BY <1>1, <1>2, <1>4, <2>2 DEF InStep, Lex, LexInside, Outside, Quotes
    <3>2. /\ last'.cut = FALSE /\ last'.ended = FALSE
          /\ last'.kept = (c = "newline") /\ last'.comment = (c # "newline")
      BY <1>1, <1>2, <1>4, <2>2, <3>1 DEF Cuts, Keeps, Outside, Comment
    <3>3. CutsWhereSQLiteDoes'
      BY <1>5, <3>1, <3>2 DEF CutsWhereSQLiteDoes
    <3> QED
      BY <1>1, <1>2, <1>4, <2>2, <3>1, <3>3 DEF InStep, Outside, Comment, Quotes, SplitNext
  <2>3. CASE split.mode = "block"
    <3>1. /\ lexer \in {"block", "star"} /\ (lexer = "star" => c # "/")
          /\ lexer' = IF c = "*" THEN "star" ELSE "block"
      BY <1>1, <1>2, <1>4, <2>3 DEF InStep, Lex, LexInside, Outside, Quotes
    <3>2. last'.cut = FALSE /\ last'.ended = FALSE /\ last'.kept = FALSE /\ last'.comment = TRUE
      BY <1>1, <1>2, <1>4, <2>3, <3>1 DEF Cuts, Keeps, Opens, Outside, Comment
    <3>3. CutsWhereSQLiteDoes'
      BY <1>5, <3>2 DEF CutsWhereSQLiteDoes
    <3> QED
      BY <1>1, <1>2, <1>4, <2>3, <3>1, <3>3 DEF InStep, Outside, Comment, Quotes, SplitNext
  <2>4. CASE split.mode \in Quotes \cup {"]"}
    <3>1. /\ split.mode \in Quotes => lexer = split.mode
          /\ split.mode = "]" => lexer = "bracket"
      BY <1>4, <2>4 DEF InStep, Quotes
    <3>2. lexer' = IF c = split.mode THEN "start" ELSE lexer
      BY <1>1, <1>2, <2>4, <3>1 DEF Lex, LexInside, Outside, Quotes
    <3>3. last'.cut = FALSE /\ last'.kept = TRUE /\ last'.ended = FALSE /\ last'.comment = FALSE
      BY <1>1, <1>2, <1>4, <2>4, <3>1 DEF Cuts, Keeps, Opens, Outside, Comment, Quotes
    <3>10. lexer' \notin {"dash", "slash"}
      BY <3>1, <3>2, <2>4 DEF Quotes
    <3>4. split' = IF c # split.mode THEN split
                   ELSE IF after = c THEN [split EXCEPT !.skip = TRUE] ELSE [split EXCEPT !.mode = "top"]
      BY <1>1, <1>2, <1>4, <2>4 DEF SplitNext, Quotes
    <3>9. CutsWhereSQLiteDoes'
      BY <1>5, <3>3, <3>10 DEF CutsWhereSQLiteDoes
    <3>8. here' \in Chars \cup {End} /\ here' = after
      BY <1>1, <1>2
    <3>5. CASE c # split.mode
      <4>1. split' = split /\ lexer' = lexer
        BY <3>2, <3>4, <3>5
      <4> QED
        BY <1>4, <2>4, <3>1, <3>8, <3>9, <4>1 DEF InStep
    <3>6. CASE c = split.mode /\ after = c
      <4>1. split'.mode = c /\ split'.skip = TRUE
            /\ split' \in [mode : Quotes \cup {"top", "line", "block", "]"}, skip : BOOLEAN]
        BY <3>4, <3>6 DEF InStep
      <4>2. lexer' = "start" /\ here' = split'.mode /\ split'.mode \in Quotes \cup {"]"}
        BY <2>4, <3>2, <3>6, <3>8, <4>1
      <4>3. "start" \in Outside
        BY DEF Outside
      <4> QED
        BY <3>8, <3>9, <4>1, <4>2, <4>3 DEF InStep
    <3>7. CASE c = split.mode /\ after # c
      <4>1. split'.mode = "top" /\ split'.skip = FALSE
            /\ split' \in [mode : Quotes \cup {"top", "line", "block", "]"}, skip : BOOLEAN]
        BY <1>4, <3>4, <3>7 DEF InStep
      <4>2. lexer' = "start"
        BY <3>2, <3>7
      <4>3. "start" \in Outside
        BY DEF Outside
      <4> QED
        BY <3>8, <3>9, <4>1, <4>2, <4>3 DEF InStep
    <3> QED
      BY <3>5, <3>6, <3>7
  <2> QED
    BY <2>1, <2>2, <2>3, <2>4 DEF InStep
<1> QED
  BY <1>3, <1>4 DEF InStep

SplitInv == (known.legal => InStep) /\ CutsWhereSQLiteDoes

LEMMA SplitInvHolds == TextSpec => []SplitInv
<1>1. TextInit => SplitInv
  <2> SUFFICES ASSUME TextInit PROVE SplitInv
    OBVIOUS
  <2>1. split = [mode |-> "top", skip |-> FALSE] /\ lexer = "start" /\ here \in Chars \cup {End}
    BY DEF TextInit
  <2>2. InStep
    BY <2>1 DEF InStep, Outside
  <2>3. CutsWhereSQLiteDoes
    BY DEF TextInit, CutsWhereSQLiteDoes, InComment
  <2> QED
    BY <2>2, <2>3 DEF SplitInv
<1>2. SplitInv /\ [Read]_text => SplitInv'
  <2>1. ASSUME SplitInv, Read PROVE SplitInv'
    <3>1. InStep
      BY <2>1 DEF SplitInv, Read
    <3>2. CASE known'.legal
      BY <2>1, <3>1, <3>2, InStepStep DEF SplitInv
    <3>3. CASE ~ known'.legal
      BY <3>3 DEF SplitInv, CutsWhereSQLiteDoes
    <3> QED
      BY <3>2, <3>3
  <2>2. SplitInv /\ UNCHANGED text => SplitInv'
    BY DEF text, SplitInv, InStep, CutsWhereSQLiteDoes, InComment, Lex, LexOutside, LexInside
  <2> QED
    BY <2>1, <2>2
<1> QED
  BY <1>1, <1>2, PTL DEF TextSpec

(* splitStatements cuts at the `;` tokens of SQLite's tokenizer and at no  *)
(* other, those in a trigger's body included, and keeps every character    *)
(* but those of comments, however long the text is.                        *)
THEOREM AlwaysCutsWhereSQLiteDoes == TextSpec => []CutsWhereSQLiteDoes
<1>1. SplitInv => CutsWhereSQLiteDoes
  BY DEF SplitInv
<1> QED
  BY <1>1, SplitInvHolds, PTL

(* Where substituteNulls is, and what it has counted.                      *)
Counted ==
  /\ here \in Chars \cup {End} /\ ~ subst.refused
  /\ subst \in [quote : Quotes \cup {"none"}, skip : BOOLEAN, ordinal : Nat, left : Nat, refused : BOOLEAN]
  /\ lexer \in Outside \cup Quotes
  /\ IF subst.skip THEN subst.quote \in Quotes /\ lexer = "start" /\ here = subst.quote
     ELSE \/ subst.quote = "none" /\ lexer \in Outside
          \/ subst.quote \in Quotes /\ lexer = subst.quote
  /\ subst.ordinal = known.placeholders
  /\ subst.left = subst.ordinal - Cardinality({i \in nulls : i < subst.ordinal})

NullsAreParams == params \in Nat /\ nulls \subseteq 0 .. params - 1

LEMMA NullsBelow ==
  ASSUME NullsAreParams, NEW n \in Nat
  PROVE  /\ IsFiniteSet(nulls) /\ Cardinality({i \in nulls : i < n}) \in Nat
         /\ Cardinality({i \in nulls : i < n + 1})
              = Cardinality({i \in nulls : i < n}) + (IF n \in nulls THEN 1 ELSE 0)
         /\ {i \in nulls : i < 0} = {}
         /\ {i \in nulls : i < params} = nulls
<1> DEFINE Below == {i \in nulls : i < n}
<1>1. params \in Nat /\ \A i \in nulls : i \in Nat /\ i < params
  BY DEF NullsAreParams
<1>2. IsFiniteSet(nulls) /\ IsFiniteSet(Below) /\ Cardinality(Below) \in Nat
  <2>1. IsFiniteSet(0 .. params - 1)
    <3>1. params - 1 \in Int /\ 0 \in Int
      BY <1>1
    <3> QED
      BY <3>1, FS_Interval
  <2>2. nulls \subseteq 0 .. params - 1
    BY DEF NullsAreParams
  <2>3. IsFiniteSet(nulls)
    BY <2>1, <2>2, FS_Subset
  <2>4. IsFiniteSet(Below)
    <3>1. Below \subseteq nulls
      OBVIOUS
    <3> HIDE DEF Below
    <3> QED
      BY <2>3, <3>1, FS_Subset
  <2> HIDE DEF Below
  <2> QED
    BY <2>3, <2>4, FS_CardinalityType
<1>3. {i \in nulls : i < n + 1} = IF n \in nulls THEN Below \cup {n} ELSE Below
  <2>1. \A i \in nulls : i < n + 1 <=> i < n \/ i = n
    BY <1>1
  <2> QED
    BY <2>1
<1>4. n \notin Below
  OBVIOUS
<1>5. Cardinality({i \in nulls : i < n + 1}) = Cardinality(Below) + (IF n \in nulls THEN 1 ELSE 0)
  <2> HIDE DEF Below
  <2>1. CASE n \in nulls
    <3>1. Cardinality(Below \cup {n}) = Cardinality(Below) + 1
      BY <1>2, <1>4, FS_AddElement
    <3> QED
      BY <1>3, <2>1, <3>1
  <2>2. CASE n \notin nulls
    <3>1. {i \in nulls : i < n + 1} = Below
      BY <1>3, <2>2
    <3> QED
      BY <1>2, <2>2, <3>1
  <2> QED
    BY <2>1, <2>2
<1>6. {i \in nulls : i < 0} = {} /\ {i \in nulls : i < params} = nulls
  <2>1. \A i \in nulls : ~ (i < 0) /\ i < params
    BY <1>1
  <2> QED
    BY <2>1
<1> QED
  BY <1>2, <1>5, <1>6

LEMMA CountedStep ==
  ASSUME Counted, NullsAreParams, Read, known'.plain PROVE Counted'
<1>1. /\ here \in Chars /\ here' \in Chars \cup {End} /\ nulls' = nulls
      /\ subst' = SubstNext(here, here') /\ lexer' = Lex(here)
      /\ known' = Known(here, here')
  BY DEF Read, Counted, End
<1>2. PICK c \in Chars, after \in Chars \cup {End} : c = here /\ after = here'
  BY <1>1
<1>3. /\ lexer' \notin Comment \cup {"bracket"}
      /\ lexer \in Outside /\ c = "?" => after # "digit"
      /\ known'.placeholders = subst.ordinal + (IF lexer \in Outside /\ c = "?" THEN 1 ELSE 0)
  BY <1>1, <1>2 DEF Known, Counted
<1>4. lexer' \in Outside \cup Quotes
  <2>1. CASE lexer \in Outside
    BY <1>1, <1>2, <1>3, <2>1 DEF Lex, LexOutside, Outside, Comment, Quotes
  <2>2. CASE lexer \in Quotes
    BY <1>1, <1>2, <1>3, <2>2 DEF Lex, LexInside, Outside, Comment, Quotes
  <2> QED
    BY <2>1, <2>2 DEF Counted
<1>5. CASE subst.skip
  <2>1. subst' = [subst EXCEPT !.skip = FALSE]
    BY <1>1, <1>5 DEF SubstNext, Counted
  <2>2. c \in Quotes /\ lexer' = c /\ subst.quote = c
    BY <1>1, <1>2, <1>5 DEF Counted, Lex, LexOutside, Outside, Quotes
  <2>3. known'.placeholders = subst.ordinal
    BY <1>3, <2>2 DEF Quotes, Counted
  <2> QED
    BY <1>1, <1>4, <2>1, <2>2, <2>3 DEF Counted
<1>6. CASE ~ subst.skip /\ subst.quote \in Quotes
  <2>1. lexer = subst.quote /\ subst.quote # "none" /\ lexer \notin Outside
    BY <1>6 DEF Counted, Quotes, Outside
  <2>2. lexer' = IF c = lexer THEN "start" ELSE lexer
    BY <1>1, <1>2, <1>6, <2>1 DEF Lex, LexInside, Quotes
  <2>3. known'.placeholders = subst.ordinal
    BY <1>3, <2>1 DEF Counted
  <2>4. subst' = IF c # subst.quote THEN subst
                 ELSE IF after = c THEN [subst EXCEPT !.skip = TRUE] ELSE [subst EXCEPT !.quote = "none"]
    BY <1>1, <1>2, <1>6, <2>1 DEF SubstNext, Counted
  <2>5. CASE c # subst.quote
    BY <1>1, <1>4, <1>6, <2>1, <2>2, <2>3, <2>4, <2>5 DEF Counted
  <2>6. CASE c = subst.quote /\ after = c
    BY <1>1, <1>2, <1>4, <1>6, <2>1, <2>2, <2>3, <2>4, <2>6 DEF Counted
  <2>7. CASE c = subst.quote /\ after # c
    BY <1>1, <1>4, <1>6, <2>1, <2>2, <2>3, <2>4, <2>7 DEF Counted, Outside
  <2> QED
    BY <2>5, <2>6, <2>7
<1>7. CASE ~ subst.skip /\ subst.quote = "none"
  <2>1. lexer \in Outside
    BY <1>7 DEF Counted, Quotes
  <2>2. CASE c \in Quotes
    <3>1. lexer' = c /\ subst' = [subst EXCEPT !.quote = c] /\ known'.placeholders = subst.ordinal
      BY <1>1, <1>2, <1>3, <1>7, <2>1, <2>2 DEF Lex, LexOutside, SubstNext, Counted, Quotes
    <3> QED
      BY <1>1, <1>4, <1>7, <2>2, <3>1 DEF Counted
  <2>3. CASE c \notin Quotes /\ c # "?"
    <3>1. subst' = subst /\ known'.placeholders = subst.ordinal
      BY <1>1, <1>2, <1>3, <1>7, <2>1, <2>3 DEF SubstNext, Counted
    <3>2. lexer' \in Outside
      BY <1>1, <1>2, <1>3, <2>1, <2>3 DEF Lex, LexOutside, Outside, Comment, Quotes
    <3> QED
      BY <1>1, <1>4, <1>7, <3>1, <3>2 DEF Counted
  <2>4. CASE c = "?"
    <3>1. lexer' = "start" /\ after # "digit" /\ known'.placeholders = subst.ordinal + 1
      BY <1>1, <1>2, <1>3, <2>1, <2>4 DEF Lex, LexOutside, Quotes
    <3>2. subst' = [subst EXCEPT !.ordinal = subst.ordinal + 1,
                       !.left = IF subst.ordinal \in nulls THEN subst.left ELSE subst.left + 1]
      BY <1>1, <1>2, <1>7, <2>4, <3>1 DEF SubstNext, Counted, Quotes
    <3>3. /\ subst'.ordinal = subst.ordinal + 1
          /\ subst'.left = IF subst.ordinal \in nulls THEN subst.left ELSE subst.left + 1
          /\ subst'.quote = "none" /\ subst'.skip = FALSE /\ ~ subst'.refused
          /\ subst' \in [quote : Quotes \cup {"none"}, skip : BOOLEAN, ordinal : Nat, left : Nat, refused : BOOLEAN]
      <4>1. /\ subst \in [quote : Quotes \cup {"none"}, skip : BOOLEAN, ordinal : Nat, left : Nat, refused : BOOLEAN]
            /\ ~ subst.refused
        BY DEF Counted
      <4>2. subst.ordinal \in Nat /\ subst.left \in Nat
        BY <4>1
      <4>3. (IF subst.ordinal \in nulls THEN subst.left ELSE subst.left + 1) \in Nat
        BY <4>2
      <4>4. PICK ordinal \in Nat, left \in Nat :
              /\ ordinal = subst.ordinal + 1
              /\ left = IF subst.ordinal \in nulls THEN subst.left ELSE subst.left + 1
        BY <4>2, <4>3
      <4>5. subst' = [subst EXCEPT !.ordinal = ordinal, !.left = left]
        BY <3>2, <4>4
      <4>6. /\ subst'.ordinal = ordinal /\ subst'.left = left
            /\ subst'.quote = subst.quote /\ subst'.skip = subst.skip
            /\ subst'.refused = subst.refused
            /\ subst' \in [quote : Quotes \cup {"none"}, skip : BOOLEAN, ordinal : Nat, left : Nat, refused : BOOLEAN]
        BY <4>1, <4>5
      <4>7. subst.skip = FALSE
        BY <1>7, <4>1
      <4> QED
        BY <1>7, <4>1, <4>4, <4>6, <4>7
    <3>4. subst'.left = subst'.ordinal - Cardinality({i \in nulls' : i < subst'.ordinal})
      <4>1. subst.ordinal \in Nat
        BY DEF Counted
      <4>2. Cardinality({i \in nulls : i < subst.ordinal + 1})
              = Cardinality({i \in nulls : i < subst.ordinal}) + (IF subst.ordinal \in nulls THEN 1 ELSE 0)
        BY <4>1, NullsBelow
      <4>3. Cardinality({i \in nulls : i < subst.ordinal}) \in Nat
        BY <4>1, NullsBelow
      <4> QED
        BY <1>1, <3>3, <4>1, <4>2, <4>3 DEF Counted
    <3> QED
      BY <1>1, <1>4, <3>1, <3>3, <3>4 DEF Counted, Outside
  <2> QED
    BY <2>2, <2>3, <2>4
<1> QED
  BY <1>5, <1>6, <1>7 DEF Counted

(* In a statement without comments, brackets and numbered placeholders     *)
(* substituteNulls counts the placeholders as SQLite does, so each NULL is *)
(* written at the placeholder of the parameter that is nil; and one with   *)
(* as many placeholders as parameters is rewritten if a parameter is nil,  *)
(* and keeps a placeholder for each of the others.                         *)
THEOREM NullsAlwaysStayInPlace == TextSpec => []NullsStayInPlace
<1> DEFINE CInv == NullsAreParams /\ (known.plain => Counted)
<1>1. TextInit => CInv
  <2> SUFFICES ASSUME TextInit PROVE CInv
    OBVIOUS
  <2>1. NullsAreParams
    BY TextAssumption DEF TextInit, NullsAreParams
  <2>2. Cardinality({i \in nulls : i < 0}) = 0
    BY <2>1, NullsBelow, FS_EmptySet
  <2>3. subst = [quote |-> "none", skip |-> FALSE, ordinal |-> 0, left |-> 0, refused |-> FALSE]
    BY DEF TextInit
  <2>4. /\ subst.quote = "none" /\ ~ subst.skip /\ subst.ordinal = 0 /\ subst.left = 0 /\ ~ subst.refused
        /\ subst \in [quote : Quotes \cup {"none"}, skip : BOOLEAN, ordinal : Nat, left : Nat, refused : BOOLEAN]
    BY <2>3
  <2>5. here \in Chars \cup {End} /\ lexer = "start" /\ known.placeholders = 0
    BY DEF TextInit
  <2> QED
    BY <2>1, <2>2, <2>4, <2>5 DEF Counted, Outside
<1>2. CInv /\ [Read]_text => CInv'
  <2> SUFFICES ASSUME CInv, [Read]_text PROVE CInv'
    OBVIOUS
  <2>1. NullsAreParams'
    BY DEF Read, text, NullsAreParams
  <2>2. ASSUME Read, known'.plain PROVE Counted'
    <3>1. known.plain
      <4>1. known' = Known(here, here')
        BY <2>2 DEF Read
      <4>2. known'.plain = (/\ known.plain /\ Lex(here) \notin Comment \cup {"bracket"}
                            /\ ~ (lexer \in Outside /\ here = "?" /\ here' = "digit"))
        BY <4>1 DEF Known
      <4> QED
        BY <2>2, <4>2
    <3> QED
      BY <2>2, <3>1, CountedStep
  <2>3. ASSUME UNCHANGED text, known'.plain PROVE Counted'
    BY <2>3 DEF text, Counted
  <2> QED
    BY <2>1, <2>2, <2>3
<1>3. CInv => NullsStayInPlace
  <2> SUFFICES ASSUME CInv, known.plain PROVE NullsStayInPlace
    BY DEF NullsStayInPlace
  <2>1. Counted /\ IsFiniteSet(nulls) /\ Cardinality(nulls) \in Nat
    BY NullsBelow, FS_CardinalityType
  <2>2. subst.ordinal = params => subst.left = params - Cardinality(nulls)
    BY <2>1, NullsBelow DEF Counted, NullsAreParams
  <2>3. subst.ordinal = params => CountsMatch
    BY <2>1, <2>2 DEF CountsMatch, Counted
  <2> QED
    BY <2>1, <2>2, <2>3 DEF NullsStayInPlace, Rewritten, Counted
<1> QED
  BY <1>1, <1>2, <1>3, PTL DEF TextSpec

-----------------------------------------------------------------------------
(* parseSections.  After each line, the statements returned so far are     *)
(* those of the lines up to the last marker, and the buffer is the text    *)
(* since (SectionsInv); a marker turns the buffer into statements of the   *)
(* section before it.                                                      *)

Ways == {"up", "down"}
Span == [from : Int, to : Int]

(* The markers before line n of a file, those that begin a section, and    *)
(* which section that is.                                                  *)
Heads(f, n) == {m \in 1 .. n - 1 : f[m] \in Ways}
Marks(f, n) == {m \in 1 .. n - 1 : f[m] \in Markers}
Final(places) == CHOOSE m \in places : \A k \in places : k <= m
HasFinal(places) == places # {} => \E m \in places : \A k \in places : k <= m
Heading(f, n) == IF Heads(f, n) = {} THEN "none" ELSE f[Final(Heads(f, n))]

LEMMA FinalIs ==
  ASSUME NEW places, places # {}, HasFinal(places)
  PROVE  Final(places) \in places /\ \A k \in places : k <= Final(places)
BY DEF Final, HasFinal

LEMMA FinalIsOnly ==
  ASSUME NEW places \in SUBSET Int, NEW m \in places, \A k \in places : k <= m
  PROVE  Final(places) = m
<1>1. Final(places) \in places /\ \A k \in places : k <= Final(places)
  BY DEF Final
<1>2. m \in Int /\ Final(places) \in Int
  BY <1>1
<1>3. m <= Final(places) /\ Final(places) <= m
  BY <1>1
<1> QED
  BY <1>2, <1>3

(* The lines that say under which direction a line is written.             *)
LEMMA HeadingLasts ==
  ASSUME NEW f, NEW n \in Nat, NEW m \in 1 .. n, \A k \in m .. n - 1 : f[k] \notin Ways
  PROVE  Heading(f, m) = Heading(f, n)
<1>1. Heads(f, m) = Heads(f, n)
  BY DEF Heads
<1> QED
  BY <1>1 DEF Heading

LEMMA SameHeading ==
  ASSUME NEW f, NEW g, NEW n \in Nat, \A k \in 1 .. n - 1 : f[k] = g[k], HasFinal(Heads(f, n))
  PROVE  /\ Heads(g, n) = Heads(f, n) /\ Marks(g, n) = Marks(f, n)
         /\ Heading(g, n) = Heading(f, n)
<1>1. Heads(g, n) = Heads(f, n) /\ Marks(g, n) = Marks(f, n)
  BY DEF Heads, Marks
<1>2. ASSUME Heads(f, n) # {} PROVE g[Final(Heads(f, n))] = f[Final(Heads(f, n))]
  <2>1. Final(Heads(f, n)) \in Heads(f, n)
    BY <1>2, FinalIs
  <2> QED
    BY <2>1 DEF Heads
<1> QED
  BY <1>1, <1>2 DEF Heading

-----------------------------------------------------------------------------
(* The lines from .. to are cut into these statements, in their order.     *)
Tiles(spans, from, to) ==
  /\ spans \in Seq(Span)
  /\ \A k \in DOMAIN spans :
       from <= spans[k].from /\ spans[k].from <= spans[k].to /\ spans[k].to <= to
  /\ \A j, k \in DOMAIN spans : j < k => spans[j].to <= spans[k].from
  /\ \A n \in from .. to : \E k \in DOMAIN spans : n \in On(spans[k])

(* These statements are the lines before `top` that are written under      *)
(* `way`, in their order.                                                  *)
Covers(f, spans, way, top) ==
  /\ spans \in Seq(Span)
  /\ \A k \in DOMAIN spans :
       1 <= spans[k].from /\ spans[k].from <= spans[k].to /\ spans[k].to < top
  /\ \A j, k \in DOMAIN spans : j < k => spans[j].to <= spans[k].from
  /\ \A n \in 1 .. top - 1 :
       (\E k \in DOMAIN spans : n \in On(spans[k])) <=> f[n] \in Texts /\ Heading(f, n) = way

(* These lines are one statement, and in no other.                         *)
OneSpan(spans, first, final) ==
  \E k \in DOMAIN spans :
    /\ spans[k].from = first /\ spans[k].to = final
    /\ \A j \in DOMAIN spans : \A n \in first .. final : n \in On(spans[j]) => j = k

(* A StatementBegin at line m whose text ends before line e.               *)
Block(f, m, e) == f[m] = "begin" /\ m + 1 < e /\ \A k \in m + 1 .. e - 1 : f[k] \in Texts

KeepsBlocks(f, spans, way, top) ==
  \A m, e \in 1 .. top - 1 :
    Block(f, m, e) /\ f[e] \in Markers \ {"begin"} /\ Heading(f, m) = way =>
      OneSpan(spans, m + 1, e - 1)

(* A block that ends before line n is one statement.                       *)
EndsBlocks(f, spans, way, n) ==
  \A m \in 1 .. n - 1 :
    Block(f, m, n) /\ Heading(f, m) = way => OneSpan(spans, m + 1, n - 1)

LEMMA JoinIs ==
  ASSUME NEW a \in Seq(Span), NEW b \in Seq(Span)
  PROVE  /\ a \o b \in Seq(Span)
         /\ Len(a) \in Nat /\ DOMAIN a = 1 .. Len(a) /\ DOMAIN b = 1 .. Len(b)
         /\ DOMAIN (a \o b) = 1 .. Len(a) + Len(b)
         /\ Len(b) \in Nat
         /\ \A k \in 1 .. Len(a) : (a \o b)[k] = a[k] /\ a[k].from \in Int /\ a[k].to \in Int
         /\ \A k \in 1 .. Len(b) : /\ Len(a) + k \in 1 .. Len(a) + Len(b)
                                  /\ (a \o b)[Len(a) + k] = b[k]
                                  /\ b[k].from \in Int /\ b[k].to \in Int
         /\ \A k \in 1 .. Len(a) + Len(b) : k \in 1 .. Len(a) \/ k > Len(a)
         /\ \A k \in 1 .. Len(a) + Len(b) :
              k > Len(a) => k - Len(a) \in 1 .. Len(b) /\ (a \o b)[k] = b[k - Len(a)]
<1>1. a \o b \in Seq(Span) /\ Len(a) \in Nat /\ Len(b) \in Nat /\ Len(a \o b) = Len(a) + Len(b)
  OBVIOUS
<1>2. \A k \in 1 .. Len(a) : a[k] \in Span
  OBVIOUS
<1>3. \A k \in 1 .. Len(b) : b[k] \in Span
  OBVIOUS
<1>4. /\ \A k \in 1 .. Len(a) : (a \o b)[k] = a[k]
      /\ \A k \in 1 .. Len(b) : (a \o b)[Len(a) + k] = b[k]
      /\ \A k \in 1 .. Len(a) + Len(b) : k > Len(a) => (a \o b)[k] = b[k - Len(a)]
  OBVIOUS
<1>5. /\ \A k \in 1 .. Len(a) : a[k].from \in Int /\ a[k].to \in Int
      /\ \A k \in 1 .. Len(b) : b[k].from \in Int /\ b[k].to \in Int
  BY <1>2, <1>3 DEF Span
<1>6. DOMAIN a = 1 .. Len(a) /\ DOMAIN b = 1 .. Len(b) /\ DOMAIN (a \o b) = 1 .. Len(a) + Len(b)
  BY <1>1
<1>7. PICK l \in Nat, r \in Nat : l = Len(a) /\ r = Len(b)
  BY <1>1
<1>8. /\ \A k \in 1 .. r : l + k \in 1 .. l + r
      /\ \A k \in 1 .. l + r : k \in 1 .. l \/ k > l
      /\ \A k \in 1 .. l + r : k > l => k - l \in 1 .. r
  OBVIOUS
<1> QED
  BY <1>1, <1>4, <1>5, <1>6, <1>7, <1>8

(* The text since the last marker, as statements, goes behind those        *)
(* before it.                                                              *)
LEMMA TilesJoin ==
  ASSUME NEW f, NEW way, NEW spans, NEW more, NEW from \in Nat \ {0}, NEW top \in Nat,
         from <= top, Covers(f, spans, way, from), Tiles(more, from, top - 1),
         \A n \in from .. top - 1 : f[n] \in Texts /\ Heading(f, n) = way
  PROVE  Covers(f, spans \o more, way, top)
<1>1. PICK both : both = spans \o more
  OBVIOUS
<1>2. PICK l, r : l = Len(spans) /\ r = Len(more)
  OBVIOUS
<1>3. /\ both \in Seq(Span) /\ l \in Nat /\ r \in Nat
      /\ DOMAIN spans = 1 .. l /\ DOMAIN more = 1 .. r /\ DOMAIN both = 1 .. l + r
      /\ \A k \in 1 .. l : both[k] = spans[k] /\ spans[k].from \in Int /\ spans[k].to \in Int
      /\ \A k \in 1 .. r : more[k].from \in Int /\ more[k].to \in Int
      /\ \A k \in 1 .. r : l + k \in 1 .. l + r /\ both[l + k] = more[k]
      /\ \A k \in 1 .. l + r : k \in 1 .. l \/ k > l
      /\ \A k \in 1 .. l + r : k > l => k - l \in 1 .. r /\ both[k] = more[k - l]
  BY <1>1, <1>2, JoinIs DEF Covers, Tiles
<1>4. \A k \in 1 .. l :
        1 <= spans[k].from /\ spans[k].from <= spans[k].to /\ spans[k].to < from
  BY <1>3 DEF Covers
<1>5. \A k \in 1 .. r :
        from <= more[k].from /\ more[k].from <= more[k].to /\ more[k].to <= top - 1
  BY <1>3 DEF Tiles
<1>6. ASSUME NEW k \in 1 .. l + r
      PROVE  1 <= both[k].from /\ both[k].from <= both[k].to /\ both[k].to < top
  <2>1. CASE k \in 1 .. l
    BY <1>3, <1>4, <2>1
  <2>2. CASE k > l
    <3>1. k - l \in 1 .. r /\ both[k] = more[k - l]
      BY <1>3, <2>2
    <3> QED
      BY <1>3, <1>5, <3>1
  <2> QED
    BY <1>3, <2>1, <2>2
<1>7. ASSUME NEW j \in 1 .. l + r, NEW k \in 1 .. l + r, j < k
      PROVE  both[j].to <= both[k].from
  <2>1. CASE k \in 1 .. l
    <3>1. j \in 1 .. l
      BY <1>3, <1>7, <2>1
    <3> QED
      BY <1>3, <1>7, <2>1, <3>1 DEF Covers
  <2>2. CASE j \in 1 .. l /\ k > l
    BY <1>3, <1>4, <1>5, <2>2
  <2>3. CASE j > l /\ k > l
    <3>1. j - l \in 1 .. r /\ k - l \in 1 .. r /\ j - l < k - l
          /\ both[j] = more[j - l] /\ both[k] = more[k - l]
      BY <1>3, <1>7, <2>3
    <3> QED
      <4>1. \A m, n \in 1 .. r : m < n => more[m].to <= more[n].from
        BY <1>3 DEF Tiles
      <4> QED
        BY <3>1, <4>1
  <2> QED
    BY <1>3, <1>7, <2>1, <2>2, <2>3
<1>8. ASSUME NEW n \in 1 .. top - 1
      PROVE  (\E k \in 1 .. l + r : n \in On(both[k])) <=> f[n] \in Texts /\ Heading(f, n) = way
  <2>1. CASE n < from
    <3>1. n \in 1 .. from - 1
      BY <2>1
    <3>2. (\E k \in 1 .. l : n \in On(spans[k])) <=> f[n] \in Texts /\ Heading(f, n) = way
      BY <1>3, <3>1 DEF Covers
    <3>3. \A k \in 1 .. r : n \notin On(more[k])
      BY <1>3, <1>5, <2>1 DEF On
    <3>4. (\E k \in 1 .. l + r : n \in On(both[k])) => \E k \in 1 .. l : n \in On(spans[k])
      BY <1>3, <3>3
    <3>5. (\E k \in 1 .. l : n \in On(spans[k])) => \E k \in 1 .. l + r : n \in On(both[k])
      <4>1. \A k \in 1 .. l : k \in 1 .. l + r
        BY <1>3
      <4> QED
        BY <1>3, <4>1
    <3> QED
      BY <3>2, <3>4, <3>5
  <2>2. CASE from <= n
    <3>1. n \in from .. top - 1
      BY <2>2
    <3>2. PICK k \in 1 .. r : n \in On(more[k])
      BY <1>3, <3>1 DEF Tiles
    <3>3. l + k \in 1 .. l + r /\ both[l + k] = more[k]
      BY <1>3
    <3> QED
      BY <3>1, <3>2, <3>3
  <2> QED
    BY <2>1, <2>2
<1> QED
  BY <1>1, <1>3, <1>6, <1>7, <1>8 DEF Covers

(* What was one statement stays one when later lines are added.            *)
LEMMA OneStaysOne ==
  ASSUME NEW spans \in Seq(Span), NEW more, NEW from \in Nat, NEW to \in Int, Tiles(more, from, to),
         NEW first \in Int, NEW final \in Int, final < from, OneSpan(spans, first, final)
  PROVE  OneSpan(spans \o more, first, final)
<1>1. PICK both : both = spans \o more
  OBVIOUS
<1>2. PICK l, r : l = Len(spans) /\ r = Len(more)
  OBVIOUS
<1>3. /\ l \in Nat /\ r \in Nat
      /\ DOMAIN spans = 1 .. l /\ DOMAIN more = 1 .. r /\ DOMAIN both = 1 .. l + r
      /\ \A k \in 1 .. l : both[k] = spans[k]
      /\ \A k \in 1 .. r : more[k].from \in Int /\ more[k].to \in Int
      /\ \A k \in 1 .. l + r : k \in 1 .. l \/ k > l
      /\ \A k \in 1 .. l + r : k > l => k - l \in 1 .. r /\ both[k] = more[k - l]
  BY <1>1, <1>2, JoinIs DEF Tiles
<1>4. PICK k \in 1 .. l :
         /\ spans[k].from = first /\ spans[k].to = final
         /\ \A j \in 1 .. l : \A n \in first .. final : n \in On(spans[j]) => j = k
  BY <1>3 DEF OneSpan
<1>5. ASSUME NEW j \in 1 .. l + r, NEW n \in first .. final, n \in On(both[j])
      PROVE  j = k
  <2>1. CASE j \in 1 .. l
    BY <1>3, <1>4, <1>5, <2>1
  <2>2. CASE j > l
    <3>1. j - l \in 1 .. r /\ both[j] = more[j - l]
      BY <1>3, <2>2
    <3>2. from <= more[j - l].from
      BY <1>3, <3>1 DEF Tiles
    <3> QED
      BY <1>3, <1>5, <3>1, <3>2 DEF On
  <2> QED
    BY <1>3, <2>1, <2>2
<1>6. k \in 1 .. l + r /\ both[k] = spans[k]
  BY <1>3
<1> QED
  BY <1>1, <1>3, <1>4, <1>5, <1>6 DEF OneSpan

(* flushStatement makes one statement of the buffer.                       *)
LEMMA OneIsOne ==
  ASSUME NEW f, NEW way, NEW spans, NEW from \in Nat \ {0}, NEW top \in Nat, from < top,
         Covers(f, spans, way, from)
  PROVE  OneSpan(spans \o Rest(from, top), from, top - 1)
<1>1. PICK more : more = <<[from |-> from, to |-> top - 1]>>
  OBVIOUS
<1>2. Rest(from, top) = more /\ more \in Seq(Span) /\ Len(more) = 1
      /\ more[1].from = from /\ more[1].to = top - 1
  BY <1>1 DEF Rest, Span
<1>3. PICK both : both = spans \o more
  OBVIOUS
<1>4. PICK l : l = Len(spans)
  OBVIOUS
<1>5. /\ l \in Nat /\ DOMAIN spans = 1 .. l /\ DOMAIN both = 1 .. l + 1
      /\ \A k \in 1 .. l : both[k] = spans[k] /\ spans[k].from \in Int /\ spans[k].to \in Int
      /\ both[l + 1] = more[1]
  <2>1. spans \in Seq(Span) /\ more \in Seq(Span)
    BY <1>2 DEF Covers
  <2>2. 1 \in 1 .. Len(more)
    BY <1>2
  <2>3. /\ Len(spans) \in Nat /\ DOMAIN spans = 1 .. Len(spans)
        /\ DOMAIN (spans \o more) = 1 .. Len(spans) + Len(more)
        /\ \A k \in 1 .. Len(spans) :
             (spans \o more)[k] = spans[k] /\ spans[k].from \in Int /\ spans[k].to \in Int
    BY <2>1, JoinIs
  <2>4. \A k \in 1 .. Len(more) : (spans \o more)[Len(spans) + k] = more[k]
    BY <2>1, JoinIs
  <2>5. (spans \o more)[Len(spans) + 1] = more[1]
    BY <2>2, <2>4
  <2> QED
    BY <1>2, <1>3, <1>4, <2>3, <2>5
<1>6. \A k \in 1 .. l : spans[k].to < from
  BY <1>5 DEF Covers
<1>7. ASSUME NEW j \in 1 .. l + 1, NEW n \in from .. top - 1, n \in On(both[j])
      PROVE  j = l + 1
  <2>1. SUFFICES ASSUME j # l + 1 PROVE FALSE
    OBVIOUS
  <2>2. j \in 1 .. l
    BY <1>5, <2>1
  <2> QED
    BY <1>5, <1>6, <1>7, <2>2 DEF On
<1>8. l + 1 \in 1 .. l + 1 /\ both[l + 1].from = from /\ both[l + 1].to = top - 1
  BY <1>2, <1>5
<1> QED
  BY <1>2, <1>3, <1>5, <1>7, <1>8 DEF OneSpan

-----------------------------------------------------------------------------
LEMMA TextsAreNotMarkers == Texts \cap Markers = {} /\ Ways \subseteq Markers /\ "begin" \in Markers
BY DEF Texts, Markers, Ways

(* Under the heading of line n there is text since line from, and the      *)
(* marker before.                                                          *)
Since(f, n, section, from) ==
  /\ section = Heading(f, n)
  /\ from \in 1 .. n /\ \A k \in from .. n - 1 : f[k] \in Texts
  /\ section = "none" => from = n
  /\ section # "none" => from > 1 /\ f[from - 1] \in Markers

(* A block that ends with the line before n begins at the last marker.     *)
LEMMA BlockIsLast ==
  ASSUME NEW f, NEW n \in Nat \ {0},
         NEW section, NEW from, Since(f, n, section, from),
         NEW m \in 1 .. n - 1, Block(f, m, n), Heading(f, m) \in Ways
  PROVE  Heading(f, m) = section /\ m + 1 = from
<1>0. /\ section = Heading(f, n)
      /\ from \in 1 .. n /\ \A k \in from .. n - 1 : f[k] \in Texts
      /\ section = "none" => from = n
      /\ section # "none" => from > 1 /\ f[from - 1] \in Markers
  BY DEF Since
<1>1. /\ f[m] = "begin" /\ m + 1 < n
      /\ \A k \in m + 1 .. n - 1 : f[k] \in Texts
  BY DEF Block
<1>2. \A k \in m .. n - 1 : f[k] \notin Ways
  <2>1. \A k \in m + 1 .. n - 1 : f[k] \notin Ways
    BY <1>1, TextsAreNotMarkers
  <2>2. f[m] \notin Ways
    BY <1>1 DEF Ways
  <2>3. \A k \in m .. n - 1 : k = m \/ k \in m + 1 .. n - 1
    OBVIOUS
  <2> QED
    BY <2>1, <2>2, <2>3
<1>3. Heading(f, m) = section
  BY <1>0, <1>2, HeadingLasts
<1>4. section # "none"
  BY <1>3 DEF Ways
<1>5. ~ (from <= m)
  BY <1>0, <1>1, TextsAreNotMarkers
<1>6. ~ (m < from - 1)
  <2> SUFFICES ASSUME m < from - 1 PROVE FALSE
    OBVIOUS
  <2>1. from - 1 \in m + 1 .. n - 1
    BY <1>0
  <2> QED
    BY <1>0, <1>1, <1>4, <2>1, TextsAreNotMarkers
<1> QED
  BY <1>0, <1>3, <1>5, <1>6

(* The buffer, from the last marker on, is made into statements.           *)
LEMMA BufferCloses ==
  ASSUME NEW f, NEW n \in Nat \ {0},
         NEW section, NEW from, Since(f, n, section, from),
         NEW way \in Ways, NEW spans, Covers(f, spans, way, from), KeepsBlocks(f, spans, way, from),
         NEW more, Tiles(more, from, n - 1),
         NEW closed, closed = IF section = way THEN spans \o more ELSE spans
  PROVE  /\ Covers(f, closed, way, n)
         /\ KeepsBlocks(f, closed, way, n)
         /\ more = Rest(from, n) => EndsBlocks(f, closed, way, n)
<1>0. /\ section = Heading(f, n)
      /\ from \in 1 .. n /\ \A k \in from .. n - 1 : f[k] \in Texts
  BY DEF Since
<1>1. ASSUME NEW k \in from .. n - 1
      PROVE  f[k] \notin Markers /\ f[k] \notin Ways /\ Heading(f, k) = section
  <2>1. \A l \in from .. n - 1 : f[l] \notin Markers /\ f[l] \notin Ways
    BY <1>0, TextsAreNotMarkers
  <2>2. k \in 1 .. n /\ \A l \in k .. n - 1 : f[l] \notin Ways
    BY <1>0, <2>1
  <2> QED
    BY <1>0, <2>1, <2>2, HeadingLasts
<1>2. spans \in Seq(Span)
  BY DEF Covers
<1>3. Covers(f, closed, way, n)
  <2>1. CASE section = way
    BY <1>0, <1>1, <2>1, TilesJoin
  <2>2. CASE section # way
    <3>1. ASSUME NEW k \in from .. n - 1
          PROVE  /\ ~ (f[k] \in Texts /\ Heading(f, k) = way)
                 /\ \A j \in DOMAIN spans : k \notin On(spans[j])
      <4>1. ASSUME NEW j \in DOMAIN spans PROVE k \notin On(spans[j])
        <5>1. spans[j] \in Span /\ spans[j].to < from
          BY DEF Covers
        <5> QED
          BY <1>0, <5>1 DEF On, Span
      <4> QED
        BY <1>1, <2>2, <4>1
    <3>2. ASSUME NEW k \in 1 .. n - 1
          PROVE  (\E j \in DOMAIN spans : k \in On(spans[j])) <=>
                   f[k] \in Texts /\ Heading(f, k) = way
      <4>1. CASE k \in 1 .. from - 1
        BY <4>1 DEF Covers
      <4>2. CASE k \in from .. n - 1
        BY <3>1, <4>2
      <4> QED
        BY <1>0, <4>1, <4>2
    <3>3. \A j \in DOMAIN spans :
            1 <= spans[j].from /\ spans[j].from <= spans[j].to /\ spans[j].to < n
      <4> SUFFICES ASSUME NEW j \in DOMAIN spans
                   PROVE  1 <= spans[j].from /\ spans[j].from <= spans[j].to /\ spans[j].to < n
        OBVIOUS
      <4>1. spans[j] \in Span
        BY <1>2
      <4>2. 1 <= spans[j].from /\ spans[j].from <= spans[j].to /\ spans[j].to < from
        BY DEF Covers
      <4> QED
        BY <1>0, <4>1, <4>2 DEF Span
    <3> QED
      BY <2>2, <3>2, <3>3 DEF Covers
  <2> QED
    BY <2>1, <2>2
<1>4. KeepsBlocks(f, closed, way, n)
  <2> SUFFICES ASSUME NEW m \in 1 .. n - 1, NEW e \in 1 .. n - 1, Block(f, m, e),
                      f[e] \in Markers \ {"begin"}, Heading(f, m) = way
               PROVE  OneSpan(closed, m + 1, e - 1)
    BY DEF KeepsBlocks
  <2>1. e < from /\ e \in 1 .. from - 1
    BY <1>0, <1>1
  <2>2. m \in 1 .. from - 1
    BY <1>0, <2>1 DEF Block
  <2>3. OneSpan(spans, m + 1, e - 1)
    BY <2>1, <2>2 DEF KeepsBlocks
  <2>4. ASSUME section = way PROVE OneSpan(spans \o more, m + 1, e - 1)
    <3>1. PICK first \in Int, final \in Int, to \in Int :
            first = m + 1 /\ final = e - 1 /\ to = n - 1
      OBVIOUS
    <3>2. final < from /\ from \in Nat /\ Tiles(more, from, to) /\ OneSpan(spans, first, final)
      BY <1>0, <2>1, <2>3, <3>1
    <3>3. OneSpan(spans \o more, first, final)
      BY <1>2, <3>2, OneStaysOne
    <3> QED
      BY <3>1, <3>3
  <2> QED
    BY <2>3, <2>4
<1>5. ASSUME more = Rest(from, n),
             NEW m \in 1 .. n - 1, Block(f, m, n), Heading(f, m) = way
      PROVE  OneSpan(closed, m + 1, n - 1)
  <2>1. section = way /\ m + 1 = from
    BY <1>5, BlockIsLast
  <2>2. from < n
    BY <1>5, <2>1 DEF Block
  <2>3. OneSpan(spans \o Rest(from, n), from, n - 1)
    BY <1>0, <2>2, OneIsOne
  <2> QED
    BY <1>5, <2>1, <2>3
<1> QED
  BY <1>3, <1>4, <1>5 DEF EndsBlocks

(* Lines that follow change nothing of what is before them.                *)
LEMMA SameBefore ==
  ASSUME NEW f, NEW g, NEW top \in Nat,
         \A k \in 1 .. top - 1 : f[k] = g[k],
         \A k \in 1 .. top : HasFinal(Heads(f, k)),
         NEW way, NEW spans
  PROVE  /\ Covers(f, spans, way, top) => Covers(g, spans, way, top)
         /\ KeepsBlocks(f, spans, way, top) => KeepsBlocks(g, spans, way, top)
<1>1. ASSUME NEW k \in 1 .. top PROVE Heading(g, k) = Heading(f, k)
  <2>1. k \in Nat /\ \A l \in 1 .. k - 1 : f[l] = g[l]
    OBVIOUS
  <2> QED
    BY <2>1, SameHeading
<1>2. ASSUME Covers(f, spans, way, top) PROVE Covers(g, spans, way, top)
  <2>1. \A n \in 1 .. top - 1 : f[n] = g[n] /\ Heading(f, n) = Heading(g, n)
    BY <1>1
  <2> QED
    BY <1>2, <2>1 DEF Covers
<1>3. ASSUME KeepsBlocks(f, spans, way, top) PROVE KeepsBlocks(g, spans, way, top)
  <2> SUFFICES ASSUME NEW m \in 1 .. top - 1, NEW e \in 1 .. top - 1, Block(g, m, e),
                      g[e] \in Markers \ {"begin"}, Heading(g, m) = way
               PROVE  OneSpan(spans, m + 1, e - 1)
    BY DEF KeepsBlocks
  <2>1. Block(f, m, e)
    <3>1. \A k \in m + 1 .. e - 1 : f[k] = g[k]
      OBVIOUS
    <3> QED
      BY <3>1 DEF Block
  <2>2. f[e] = g[e] /\ Heading(f, m) = Heading(g, m)
    BY <1>1
  <2> QED
    BY <1>3, <2>1, <2>2 DEF KeepsBlocks
<1> QED
  BY <1>2, <1>3

(* A line that is no statement's is counted as read.                       *)
LEMMA OneLineMore ==
  ASSUME NEW f, NEW n \in Nat \ {0}, NEW way, NEW spans,
         f[n] \notin Texts \/ Heading(f, n) # way,
         Covers(f, spans, way, n), KeepsBlocks(f, spans, way, n),
         f[n] \in Markers \ {"begin"} => EndsBlocks(f, spans, way, n)
  PROVE  Covers(f, spans, way, n + 1) /\ KeepsBlocks(f, spans, way, n + 1)
<1>1. spans \in Seq(Span)
  BY DEF Covers
<1>2. ASSUME NEW j \in DOMAIN spans
      PROVE  /\ 1 <= spans[j].from /\ spans[j].from <= spans[j].to /\ spans[j].to < n + 1
             /\ n \notin On(spans[j])
  <2>1. spans[j] \in Span
    BY <1>1
  <2>2. 1 <= spans[j].from /\ spans[j].from <= spans[j].to /\ spans[j].to < n
    BY DEF Covers
  <2> QED
    BY <2>1, <2>2 DEF Span, On
<1>3. ASSUME NEW k \in 1 .. (n + 1) - 1
      PROVE  (\E j \in DOMAIN spans : k \in On(spans[j])) <=> f[k] \in Texts /\ Heading(f, k) = way
  <2>1. CASE k \in 1 .. n - 1
    BY <2>1 DEF Covers
  <2>2. CASE k = n
    BY <1>2, <2>2
  <2> QED
    BY <2>1, <2>2
<1>4. Covers(f, spans, way, n + 1)
  BY <1>2, <1>3 DEF Covers
<1>5. ASSUME NEW m \in 1 .. (n + 1) - 1, NEW e \in 1 .. (n + 1) - 1, Block(f, m, e),
             f[e] \in Markers \ {"begin"}, Heading(f, m) = way
      PROVE  OneSpan(spans, m + 1, e - 1)
  <2>1. m < e
    BY <1>5 DEF Block
  <2>2. CASE e = n
    <3>1. m \in 1 .. n - 1
      BY <2>1, <2>2
    <3> QED
      BY <1>5, <2>2, <3>1 DEF EndsBlocks
  <2>3. CASE e \in 1 .. n - 1
    <3>1. m \in 1 .. n - 1
      BY <2>1, <2>3
    <3> QED
      BY <1>5, <2>3, <3>1 DEF KeepsBlocks
  <2> QED
    BY <2>2, <2>3
<1> QED
  BY <1>4, <1>5 DEF KeepsBlocks

-----------------------------------------------------------------------------
Reader ==
  [section : Ways \cup {"none"}, block : BOOLEAN,
   buf : [from : Int, done : Seq(Span), open : Int], out : [Ways -> Seq(Span)]]

(* The file has its last markers and headings, and the next ones.          *)
Landmarks(f, n) ==
  /\ \A k \in 1 .. n : HasFinal(Heads(f, k)) /\ HasFinal(Marks(f, k))
  /\ \A k \in 1 .. n - 1 :
       \/ \A l \in k .. n - 1 : f[l] \in Texts
       \/ \E e \in k .. n - 1 : f[e] \in Markers /\ \A l \in k .. e - 1 : f[l] \in Texts

(* The buffer holds the text since the last marker, split as far as it is. *)
Buffered(f, p, n) ==
  /\ Since(f, n, p.section, p.buf.from)
  /\ p.section # "none" /\ f[p.buf.from - 1] = "begin" => p.block = TRUE
  /\ p.buf.open \in p.buf.from .. n
  /\ \A k \in DOMAIN p.buf.done :
       /\ p.buf.from <= p.buf.done[k].from /\ p.buf.done[k].from <= p.buf.done[k].to
       /\ p.buf.done[k].to <= p.buf.open /\ p.buf.done[k].to <= n - 1
  /\ \A j, k \in DOMAIN p.buf.done : j < k => p.buf.done[j].to <= p.buf.done[k].from
  /\ \A l \in p.buf.from .. p.buf.open - 1 :
       \E k \in DOMAIN p.buf.done : l \in On(p.buf.done[k])

(* The statements returned so far are those of the lines before `top`.     *)
Kept(f, out, top) ==
  \A way \in Ways : Covers(f, out[way], way, top) /\ KeepsBlocks(f, out[way], way, top)

Reads(f, p, n) ==
  /\ p \in Reader
  /\ Buffered(f, p, n)
  /\ Kept(f, p.out, p.buf.from)

LEMMA ReaderIs ==
  ASSUME NEW p \in Reader
  PROVE  /\ p = [section |-> p.section, block |-> p.block, buf |-> p.buf, out |-> p.out]
         /\ p.section \in Ways \cup {"none"}
         /\ p.block = TRUE \/ p.block = FALSE
         /\ p.buf.from \in Int /\ p.buf.open \in Int /\ p.buf.done \in Seq(Span)
         /\ p.out \in [Ways -> Seq(Span)]
BY DEF Reader

LEMMA RestTiles ==
  ASSUME NEW from \in Nat \ {0}, NEW n \in Nat, from <= n
  PROVE  Tiles(Rest(from, n), from, n - 1)
<1>1. CASE from < n
  <2>1. PICK more : more = <<[from |-> from, to |-> n - 1]>>
    OBVIOUS
  <2>2. Rest(from, n) = more /\ more \in Seq(Span) /\ DOMAIN more = {1}
        /\ more[1].from = from /\ more[1].to = n - 1
    BY <1>1, <2>1 DEF Rest, Span
  <2>3. \A l \in from .. n - 1 : l \in On(more[1])
    BY <2>2 DEF On
  <2> QED
    BY <1>1, <2>2, <2>3 DEF Tiles
<1>2. CASE from = n
  <2>1. PICK none : none = <<>>
    OBVIOUS
  <2>2. Rest(from, n) = none /\ none \in Seq(Span) /\ DOMAIN none = {}
    BY <1>2, <2>1 DEF Rest
  <2>3. from .. n - 1 = {}
    BY <1>2
  <2> QED
    BY <2>2, <2>3 DEF Tiles
<1> QED
  BY <1>1, <1>2

(* Both flushes make statements of all the text in the buffer.             *)
LEMMA BufferTiles ==
  ASSUME NEW f, NEW n \in Nat \ {0}, NEW p, p \in Reader, Buffered(f, p, n)
  PROVE  /\ Tiles(Rest(p.buf.from, n), p.buf.from, n - 1)
         /\ Tiles(p.buf.done \o Rest(p.buf.open, n), p.buf.from, n - 1)
<1>1. PICK from, open, done : from = p.buf.from /\ open = p.buf.open /\ done = p.buf.done
  OBVIOUS
<1>2. /\ from \in 1 .. n /\ open \in from .. n /\ done \in Seq(Span)
      /\ \A k \in DOMAIN done :
           /\ from <= done[k].from /\ done[k].from <= done[k].to
           /\ done[k].to <= open /\ done[k].to <= n - 1
      /\ \A j, k \in DOMAIN done : j < k => done[j].to <= done[k].from
      /\ \A l \in from .. open - 1 : \E k \in DOMAIN done : l \in On(done[k])
  BY <1>1, ReaderIs DEF Buffered, Since
<1>3. Tiles(Rest(from, n), from, n - 1) /\ Tiles(Rest(open, n), open, n - 1)
  BY <1>2, RestTiles
<1>4. PICK more : more = Rest(open, n)
  OBVIOUS
<1>5. PICK both : both = done \o more
  OBVIOUS
<1>6. PICK l, r : l = Len(done) /\ r = Len(more)
  OBVIOUS
<1>7. /\ both \in Seq(Span) /\ l \in Nat /\ r \in Nat
      /\ DOMAIN done = 1 .. l /\ DOMAIN more = 1 .. r /\ DOMAIN both = 1 .. l + r
      /\ \A k \in 1 .. l : both[k] = done[k] /\ done[k].from \in Int /\ done[k].to \in Int
      /\ \A k \in 1 .. r : more[k].from \in Int /\ more[k].to \in Int
      /\ \A k \in 1 .. r : l + k \in 1 .. l + r /\ both[l + k] = more[k]
      /\ \A k \in 1 .. l + r : k \in 1 .. l \/ k > l
      /\ \A k \in 1 .. l + r : k > l => k - l \in 1 .. r /\ both[k] = more[k - l]
  <2>1. done \in Seq(Span) /\ more \in Seq(Span)
    BY <1>2, <1>3, <1>4 DEF Tiles
  <2> QED
    BY <1>5, <1>6, <2>1, JoinIs
<1>8. \A k \in 1 .. r :
        open <= more[k].from /\ more[k].from <= more[k].to /\ more[k].to <= n - 1
  BY <1>3, <1>4, <1>7 DEF Tiles
<1>9. \A j, k \in 1 .. r : j < k => more[j].to <= more[k].from
  BY <1>3, <1>4, <1>7 DEF Tiles
<1>10. ASSUME NEW k \in 1 .. l + r
       PROVE  from <= both[k].from /\ both[k].from <= both[k].to /\ both[k].to <= n - 1
  <2>1. CASE k \in 1 .. l
    BY <1>2, <1>7, <2>1
  <2>2. CASE k > l
    <3>1. k - l \in 1 .. r /\ both[k] = more[k - l]
      BY <1>7, <2>2
    <3> QED
      BY <1>2, <1>7, <1>8, <3>1
  <2> QED
    BY <1>7, <2>1, <2>2
<1>11. ASSUME NEW j \in 1 .. l + r, NEW k \in 1 .. l + r, j < k
       PROVE  both[j].to <= both[k].from
  <2>1. CASE k \in 1 .. l
    <3>1. j \in 1 .. l
      BY <1>7, <1>11, <2>1
    <3> QED
      BY <1>2, <1>7, <1>11, <2>1, <3>1
  <2>2. CASE j \in 1 .. l /\ k > l
    <3>1. k - l \in 1 .. r /\ both[k] = more[k - l]
      BY <1>7, <2>2
    <3>2. /\ both[j] = done[j] /\ done[j].to <= open /\ done[j].to \in Int
          /\ open <= more[k - l].from /\ more[k - l].from \in Int
      BY <1>2, <1>7, <1>8, <2>2, <3>1
    <3>3. open \in Int
      BY <1>2
    <3> QED
      BY <3>1, <3>2, <3>3
  <2>3. CASE j > l /\ k > l
    <3>1. j - l \in 1 .. r /\ k - l \in 1 .. r /\ j - l < k - l
          /\ both[j] = more[j - l] /\ both[k] = more[k - l]
      BY <1>7, <1>11, <2>3
    <3> QED
      BY <1>9, <3>1
  <2> QED
    BY <1>7, <1>11, <2>1, <2>2, <2>3
<1>12. ASSUME NEW x \in from .. n - 1
       PROVE  \E k \in 1 .. l + r : x \in On(both[k])
  <2>1. CASE x < open
    <3>1. x \in from .. open - 1
      BY <1>2, <2>1
    <3>2. PICK k \in 1 .. l : x \in On(done[k])
      BY <1>2, <1>7, <3>1
    <3>3. k \in 1 .. l + r
      BY <1>7
    <3> QED
      BY <1>7, <3>2, <3>3
  <2>2. CASE open <= x
    <3>1. x \in open .. n - 1
      BY <1>2, <2>2
    <3>2. PICK k \in 1 .. r : x \in On(more[k])
      BY <1>3, <1>4, <1>7, <3>1 DEF Tiles
    <3> QED
      BY <1>7, <3>2
  <2> QED
    BY <1>2, <2>1, <2>2
<1>13. Tiles(both, from, n - 1)
  BY <1>7, <1>10, <1>11, <1>12 DEF Tiles
<1> QED
  BY <1>1, <1>3, <1>4, <1>5, <1>13

LEMMA FlushIs ==
  ASSUME NEW p \in Reader, NEW n \in Nat, NEW more \in Seq(Span),
         NEW q, q = Flush(p, n, more)
  PROVE  /\ q \in Reader /\ q.section = p.section /\ q.block = p.block
         /\ q.buf = EmptyBefore(n + 1)
         /\ \A way \in Ways :
              q.out[way] = IF p.section = way THEN p.out[way] \o more ELSE p.out[way]
<1>2. PICK section, block, buf, out : section = p.section /\ block = p.block /\ out = p.out /\ buf = p.buf
  OBVIOUS
<1>3. /\ p = [section |-> section, block |-> block, buf |-> buf, out |-> out]
      /\ section \in Ways \cup {"none"} /\ block \in BOOLEAN /\ out \in [Ways -> Seq(Span)]
  BY <1>2 DEF Reader
<1>4. PICK next : next = [way \in Ways |-> out[way] \o (IF way = section THEN more ELSE <<>>)]
  OBVIOUS
<1>5. q = [section |-> section, block |-> block, buf |-> EmptyBefore(n + 1), out |-> next]
  BY <1>3, <1>4 DEF Flush, Ways
<1>6. \A way \in Ways :
        /\ next[way] = IF section = way THEN out[way] \o more ELSE out[way]
        /\ next[way] \in Seq(Span)
  <2>1. \A way \in Ways : out[way] \in Seq(Span) /\ out[way] \o more \in Seq(Span)
    BY <1>3
  <2>2. \A way \in Ways : out[way] \o <<>> = out[way]
    BY <2>1
  <2> QED
    BY <1>4, <2>1, <2>2
<1>7. next \in [Ways -> Seq(Span)]
  BY <1>3, <1>4, <1>6
<1>8. EmptyBefore(n + 1) \in [from : Int, done : Seq(Span), open : Int]
  BY DEF EmptyBefore
<1>9. q \in Reader
  BY <1>3, <1>5, <1>7, <1>8 DEF Reader
<1> QED
  BY <1>2, <1>5, <1>6, <1>9

BlocksEnd(f, out, n) == \A way \in Ways : EndsBlocks(f, out[way], way, n)

LEMMA FlushKeeps ==
  ASSUME NEW f, NEW n \in Nat \ {0}, NEW p, Reads(f, p, n),
         NEW more, Tiles(more, p.buf.from, n - 1),
         NEW q, q = Flush(p, n, more)
  PROVE  /\ q \in Reader /\ q.section = p.section /\ q.block = p.block
         /\ q.buf = EmptyBefore(n + 1)
         /\ Kept(f, q.out, n)
         /\ more = Rest(p.buf.from, n) => BlocksEnd(f, q.out, n)
<1>1. p \in Reader /\ Buffered(f, p, n) /\ Kept(f, p.out, p.buf.from)
  BY DEF Reads
<1>2. more \in Seq(Span)
  BY DEF Tiles
<1>3. /\ q \in Reader /\ q.section = p.section /\ q.block = p.block
      /\ q.buf = EmptyBefore(n + 1)
      /\ \A way \in Ways :
           q.out[way] = IF p.section = way THEN p.out[way] \o more ELSE p.out[way]
  <2>1. n \in Nat /\ p \in Reader /\ more \in Seq(Span)
    BY <1>1, <1>2
  <2>2. \A m : m = Flush(p, n, more) =>
          /\ m \in Reader /\ m.section = p.section /\ m.block = p.block
          /\ m.buf = EmptyBefore(n + 1)
          /\ \A way \in Ways :
               m.out[way] = IF p.section = way THEN p.out[way] \o more ELSE p.out[way]
    BY <2>1, FlushIs, Zenon
  <2> QED
    BY <2>2, Zenon
<1>4. PICK from, section : from = p.buf.from /\ section = p.section
  OBVIOUS
<1>5. Since(f, n, section, from) /\ Tiles(more, from, n - 1)
  BY <1>1, <1>4 DEF Buffered
<1>6. ASSUME NEW way \in Ways
      PROVE  /\ Covers(f, q.out[way], way, n)
             /\ KeepsBlocks(f, q.out[way], way, n)
             /\ more = Rest(from, n) => EndsBlocks(f, q.out[way], way, n)
  <2>1. PICK spans, closed : spans = p.out[way] /\ closed = q.out[way]
    OBVIOUS
  <2>2. closed = IF section = way THEN spans \o more ELSE spans
    BY <1>3, <1>4, <2>1
  <2>3. Covers(f, spans, way, from) /\ KeepsBlocks(f, spans, way, from)
    BY <1>1, <1>4, <2>1 DEF Kept
  <2>4. /\ Covers(f, closed, way, n)
        /\ KeepsBlocks(f, closed, way, n)
        /\ more = Rest(from, n) => EndsBlocks(f, closed, way, n)
    BY <1>5, <2>2, <2>3, BufferCloses
  <2> QED
    BY <2>1, <2>4
<1> QED
  BY <1>3, <1>4, <1>6 DEF Kept, BlocksEnd

(* At the end of a file, and at an Up or Down, a block that is open is one *)
(* statement.                                                              *)
LEMMA FlushAllKeeps ==
  ASSUME NEW f, NEW n \in Nat \ {0}, NEW p, Reads(f, p, n)
  PROVE  LET q == FlushAll(p, n) IN
         /\ q \in Reader /\ q.section = p.section /\ q.block = p.block
         /\ q.buf = EmptyBefore(n + 1)
         /\ Kept(f, q.out, n) /\ BlocksEnd(f, q.out, n)
<1>1. p \in Reader /\ Buffered(f, p, n)
  BY DEF Reads
<1>2. CASE p.block = TRUE
  <2>1. FlushAll(p, n) = Flush(p, n, Rest(p.buf.from, n))
    BY <1>2 DEF FlushAll, FlushStatement
  <2>2. PICK more : more = Rest(p.buf.from, n)
    OBVIOUS
  <2>3. PICK q : q = Flush(p, n, more)
    OBVIOUS
  <2>4. Tiles(more, p.buf.from, n - 1)
    BY <1>1, <2>2, BufferTiles
  <2> QED
    BY <2>1, <2>2, <2>3, <2>4, FlushKeeps
<1>3. CASE p.block = FALSE
  <2>1. FlushAll(p, n) = Flush(p, n, p.buf.done \o Rest(p.buf.open, n))
    BY <1>3 DEF FlushAll, FlushSemicolons
  <2>2. PICK from, section : from = p.buf.from /\ section = p.section
    OBVIOUS
  <2>3. Since(f, n, section, from) /\ from \in Int /\ (section # "none" => f[from - 1] # "begin")
    BY <1>1, <1>3, <2>2 DEF Buffered, Since
  <2>4. ASSUME NEW m \in 1 .. n - 1, Block(f, m, n), Heading(f, m) \in Ways
        PROVE  FALSE
    <3>1. Heading(f, m) = section /\ m + 1 = from
      BY <2>3, <2>4, BlockIsLast
    <3>2. m = from - 1 /\ section # "none"
      BY <2>3, <2>4, <3>1 DEF Ways
    <3> QED
      BY <2>3, <2>4, <3>2 DEF Block
  <2>5. \A out : BlocksEnd(f, out, n)
    BY <2>4 DEF BlocksEnd, EndsBlocks
  <2>6. PICK more : more = p.buf.done \o Rest(p.buf.open, n)
    OBVIOUS
  <2>7. PICK q : q = Flush(p, n, more)
    OBVIOUS
  <2>8. Tiles(more, p.buf.from, n - 1)
    BY <1>1, <2>6, BufferTiles
  <2> QED
    BY <2>1, <2>5, <2>6, <2>7, <2>8, FlushKeeps
<1> QED
  BY <1>1, <1>2, <1>3, ReaderIs

-----------------------------------------------------------------------------
(* One line more.                                                          *)
LEMMA AppendIs ==
  ASSUME NEW f \in Seq(Markers \cup Texts), NEW line \in Markers \cup Texts
  PROVE  /\ Append(f, line) \in Seq(Markers \cup Texts)
         /\ Len(f) \in Nat /\ Len(Append(f, line)) = Len(f) + 1
         /\ \A k \in 1 .. Len(f) : Append(f, line)[k] = f[k]
         /\ Append(f, line)[Len(f) + 1] = line
OBVIOUS

LEMMA LandmarksStep ==
  ASSUME NEW f, NEW g, NEW n \in Nat \ {0}, Landmarks(f, n),
         \A k \in 1 .. n - 1 : f[k] = g[k], g[n] \in Markers \cup Texts
  PROVE  Landmarks(g, n + 1)
<1>1. \A k \in 1 .. n : Heads(g, k) = Heads(f, k) /\ Marks(g, k) = Marks(f, k)
  BY DEF Heads, Marks
<1>2. ASSUME NEW k \in 1 .. n + 1
      PROVE  HasFinal(Heads(g, k)) /\ HasFinal(Marks(g, k))
  <2>1. CASE k \in 1 .. n
    BY <1>1, <2>1 DEF Landmarks
  <2>2. CASE k = n + 1
    <3>1. HasFinal(Heads(g, n)) /\ HasFinal(Marks(g, n))
      BY <1>1 DEF Landmarks
    <3>2. HasFinal(Heads(g, n + 1))
      <4>1. CASE g[n] \in Ways
        <5>1. n \in Heads(g, n + 1) /\ \A l \in Heads(g, n + 1) : l <= n
          BY <4>1 DEF Heads
        <5> QED
          BY <5>1 DEF HasFinal
      <4>2. CASE g[n] \notin Ways
        <5>1. Heads(g, n + 1) = Heads(g, n)
          BY <4>2 DEF Heads
        <5> QED
          BY <3>1, <5>1
      <4> QED
        BY <4>1, <4>2
    <3>3. HasFinal(Marks(g, n + 1))
      <4>1. CASE g[n] \in Markers
        <5>1. n \in Marks(g, n + 1) /\ \A l \in Marks(g, n + 1) : l <= n
          BY <4>1 DEF Marks
        <5> QED
          BY <5>1 DEF HasFinal
      <4>2. CASE g[n] \notin Markers
        <5>1. Marks(g, n + 1) = Marks(g, n)
          BY <4>2 DEF Marks
        <5> QED
          BY <3>1, <5>1
      <4> QED
        BY <4>1, <4>2
    <3> QED
      BY <2>2, <3>2, <3>3
  <2> QED
    BY <2>1, <2>2
<1>3. ASSUME NEW k \in 1 .. (n + 1) - 1
      PROVE  \/ \A l \in k .. (n + 1) - 1 : g[l] \in Texts
             \/ \E e \in k .. (n + 1) - 1 : g[e] \in Markers /\ \A l \in k .. e - 1 : g[l] \in Texts
  <2>1. CASE \A l \in k .. n - 1 : g[l] \in Texts
    <3>1. CASE g[n] \in Texts
      <4>1. \A l \in k .. (n + 1) - 1 : l \in k .. n - 1 \/ l = n
        OBVIOUS
      <4> QED
        BY <2>1, <3>1, <4>1
    <3>2. CASE g[n] \in Markers
      <4>1. n \in k .. (n + 1) - 1
        OBVIOUS
      <4> QED
        BY <2>1, <3>2, <4>1
    <3> QED
      BY <3>1, <3>2
  <2>2. CASE ~ \A l \in k .. n - 1 : g[l] \in Texts
    <3>1. k \in 1 .. n - 1
      BY <2>2
    <3>2. PICK e \in k .. n - 1 : f[e] \in Markers /\ \A l \in k .. e - 1 : f[l] \in Texts
      <4>1. \A l \in k .. n - 1 : f[l] = g[l]
        BY <3>1
      <4> QED
        BY <2>2, <3>1, <4>1 DEF Landmarks
    <3>3. e \in k .. (n + 1) - 1 /\ g[e] \in Markers /\ \A l \in k .. e - 1 : g[l] \in Texts
      BY <3>1, <3>2
    <3> QED
      BY <3>3
  <2> QED
    BY <2>1, <2>2
<1> QED
  BY <1>2, <1>3 DEF Landmarks

LEMMA HeadingStep ==
  ASSUME NEW f, NEW g, NEW n \in Nat \ {0}, Landmarks(f, n), \A k \in 1 .. n - 1 : f[k] = g[k]
  PROVE  /\ Heading(g, n) = Heading(f, n)
         /\ Heading(g, n + 1) = IF g[n] \in Ways THEN g[n] ELSE Heading(f, n)
<1>1. Heading(g, n) = Heading(f, n)
  <2>1. HasFinal(Heads(f, n))
    BY DEF Landmarks
  <2> QED
    BY <2>1, SameHeading
<1>2. CASE g[n] \in Ways
  <2>1. /\ Heads(g, n + 1) \in SUBSET Int
        /\ n \in Heads(g, n + 1) /\ \A l \in Heads(g, n + 1) : l <= n
    BY <1>2 DEF Heads
  <2>2. Final(Heads(g, n + 1)) = n
    BY <2>1, FinalIsOnly
  <2> QED
    BY <1>1, <1>2, <2>1, <2>2 DEF Heading
<1>3. CASE g[n] \notin Ways
  <2>1. n \in 1 .. n + 1 /\ \A k \in n .. (n + 1) - 1 : g[k] \notin Ways
    BY <1>3
  <2>2. Heading(g, n) = Heading(g, n + 1)
    BY <2>1, HeadingLasts
  <2> QED
    BY <1>1, <1>3, <2>2
<1> QED
  BY <1>2, <1>3

(* What was kept is kept in the file with one line more, when that line is *)
(* not one of the statements'.                                             *)
LEMMA KeptOn ==
  ASSUME NEW f, NEW g, NEW n \in Nat \ {0}, Landmarks(f, n),
         \A k \in 1 .. n - 1 : f[k] = g[k],
         NEW out, Kept(f, out, n),
         g[n] \in Texts => Heading(f, n) = "none",
         g[n] \in Markers \ {"begin"} => BlocksEnd(f, out, n)
  PROVE  Kept(g, out, n + 1)
<1> SUFFICES ASSUME NEW way \in Ways
             PROVE  Covers(g, out[way], way, n + 1) /\ KeepsBlocks(g, out[way], way, n + 1)
  BY DEF Kept
<1>1. PICK spans : spans = out[way]
  OBVIOUS
<1>2. /\ Covers(f, spans, way, n) /\ KeepsBlocks(f, spans, way, n)
      /\ \A k \in 1 .. n : HasFinal(Heads(f, k))
  BY <1>1 DEF Kept, Landmarks
<1>3. Covers(g, spans, way, n) /\ KeepsBlocks(g, spans, way, n)
  BY <1>2, SameBefore
<1>4. g[n] \notin Texts \/ Heading(g, n) # way
  <2>1. Heading(g, n) = Heading(f, n)
    BY HeadingStep
  <2> QED
    BY <2>1 DEF Ways
<1>5. ASSUME g[n] \in Markers \ {"begin"}
      PROVE  EndsBlocks(g, spans, way, n)
  <2>1. EndsBlocks(f, spans, way, n)
    BY <1>1, <1>5 DEF BlocksEnd
  <2>2. ASSUME NEW m \in 1 .. n - 1, Block(g, m, n), Heading(g, m) = way
        PROVE  OneSpan(spans, m + 1, n - 1)
    <3>1. \A k \in m + 1 .. n - 1 : f[k] = g[k]
      OBVIOUS
    <3>2. Block(f, m, n)
      BY <2>2, <3>1 DEF Block
    <3>3. Heading(f, m) = Heading(g, m)
      <4>1. HasFinal(Heads(f, m)) /\ m \in Nat /\ \A k \in 1 .. m - 1 : f[k] = g[k]
        BY <1>2
      <4> QED
        BY <4>1, SameHeading
    <3> QED
      BY <2>1, <2>2, <3>2, <3>3 DEF EndsBlocks
  <2> QED
    BY <2>2 DEF EndsBlocks
<1> QED
  BY <1>1, <1>3, <1>4, <1>5, OneLineMore

(* The buffer is empty after a marker.                                     *)
LEMMA EmptyIsBuffered ==
  ASSUME NEW g, NEW n \in Nat \ {0}, NEW q, q \in Reader, q.buf = EmptyBefore(n + 1),
         q.section = Heading(g, n + 1),
         q.section # "none" => g[n] \in Markers,
         q.section # "none" /\ g[n] = "begin" => q.block = TRUE
  PROVE  Buffered(g, q, n + 1) /\ q.buf.from = n + 1
<1>1. PICK none : none = <<>>
  OBVIOUS
<1>2. q.buf.from = n + 1 /\ q.buf.open = n + 1 /\ q.buf.done = none /\ DOMAIN none = {}
  BY <1>1 DEF EmptyBefore
<1>3. Since(g, n + 1, q.section, q.buf.from)
  <2>1. n + 1 \in 1 .. n + 1 /\ n + 1 > 1 /\ (n + 1) - 1 = n /\ n + 1 .. (n + 1) - 1 = {}
    OBVIOUS
  <2> QED
    BY <1>2, <2>1 DEF Since
<1>4. /\ n + 1 \in n + 1 .. n + 1
      /\ n + 1 .. (n + 1) - 1 = {} /\ (n + 1) - 1 = n
  OBVIOUS
<1> QED
  BY <1>2, <1>3, <1>4 DEF Buffered

LEMMA MarkerReads ==
  ASSUME NEW f, NEW g, NEW n \in Nat \ {0}, NEW p, Landmarks(f, n), Reads(f, p, n),
         \A k \in 1 .. n - 1 : f[k] = g[k], g[n] \in Markers
  PROVE  Reads(g, ParseLine(p, n, g[n]), n + 1)
<1>1. p \in Reader /\ Buffered(f, p, n) /\ Since(f, n, p.section, p.buf.from)
  BY DEF Reads, Buffered
<1>2. p.section = Heading(f, n)
  BY <1>1 DEF Since
<1>3. PICK line : line = g[n]
  OBVIOUS
<1>4. PICK q : q = ParseLine(p, n, line)
  OBVIOUS
<1>5. Heading(g, n + 1) = IF line \in Ways THEN line ELSE p.section
  BY <1>2, <1>3, HeadingStep
<1>6. /\ q \in Reader /\ q.buf = EmptyBefore(n + 1)
      /\ q.section = IF line \in Ways THEN line ELSE p.section
      /\ line = "begin" => q.block = TRUE
      /\ Kept(f, q.out, n)
      /\ line # "begin" => BlocksEnd(f, q.out, n)
  <2>1. CASE line \in Ways
    <3>1. PICK r : r = FlushAll(p, n)
      OBVIOUS
    <3>2. /\ r \in Reader /\ r.buf = EmptyBefore(n + 1)
          /\ Kept(f, r.out, n) /\ BlocksEnd(f, r.out, n)
      BY <3>1, FlushAllKeeps
    <3>3. q = [r EXCEPT !.section = line, !.block = FALSE]
      BY <1>4, <2>1, <3>1 DEF ParseLine, Ways, Texts
    <3>4. q = [section |-> line, block |-> FALSE, buf |-> r.buf, out |-> r.out]
      BY <3>2, <3>3 DEF Reader
    <3>5. q \in Reader /\ q.section = line /\ q.buf = r.buf /\ q.out = r.out
      BY <2>1, <3>2, <3>4 DEF Reader
    <3> QED
      BY <2>1, <3>2, <3>5 DEF Ways
  <2>2. CASE line = "begin"
    <3>1. PICK more : more = p.buf.done \o Rest(p.buf.open, n)
      OBVIOUS
    <3>2. PICK r : r = Flush(p, n, more)
      OBVIOUS
    <3>3. Tiles(more, p.buf.from, n - 1)
      BY <1>1, <3>1, BufferTiles
    <3>4. /\ r \in Reader /\ r.section = p.section /\ r.buf = EmptyBefore(n + 1)
          /\ Kept(f, r.out, n)
      BY <3>2, <3>3, FlushKeeps
    <3>5. q = [r EXCEPT !.block = TRUE]
      BY <1>4, <2>2, <3>1, <3>2 DEF ParseLine, FlushSemicolons, Texts
    <3>6. q = [section |-> r.section, block |-> TRUE, buf |-> r.buf, out |-> r.out]
      BY <3>4, <3>5 DEF Reader
    <3>7. /\ q \in Reader /\ q.section = r.section /\ q.buf = r.buf /\ q.out = r.out
          /\ q.block = TRUE
      BY <3>4, <3>6 DEF Reader
    <3>8. line \notin Ways
      BY <2>2 DEF Ways
    <3> QED
      BY <2>2, <3>4, <3>7, <3>8
  <2>3. CASE line = "finish"
    <3>1. PICK more : more = Rest(p.buf.from, n)
      OBVIOUS
    <3>2. PICK r : r = Flush(p, n, more)
      OBVIOUS
    <3>3. Tiles(more, p.buf.from, n - 1)
      BY <1>1, <3>1, BufferTiles
    <3>4. /\ r \in Reader /\ r.section = p.section /\ r.buf = EmptyBefore(n + 1)
          /\ Kept(f, r.out, n) /\ BlocksEnd(f, r.out, n)
      BY <3>1, <3>2, <3>3, FlushKeeps
    <3>5. q = [r EXCEPT !.block = FALSE]
      BY <1>4, <2>3, <3>1, <3>2 DEF ParseLine, FlushStatement, Texts
    <3>6. q = [section |-> r.section, block |-> FALSE, buf |-> r.buf, out |-> r.out]
      BY <3>4, <3>5 DEF Reader
    <3>7. q \in Reader /\ q.section = r.section /\ q.buf = r.buf /\ q.out = r.out
      BY <3>4, <3>6 DEF Reader
    <3>8. line \notin Ways
      BY <2>3 DEF Ways
    <3> QED
      BY <2>3, <3>4, <3>7, <3>8
  <2> QED
    BY <1>3, <2>1, <2>2, <2>3 DEF Markers, Ways
<1>7. Buffered(g, q, n + 1) /\ q.buf.from = n + 1
  BY <1>3, <1>5, <1>6, EmptyIsBuffered
<1>8. Kept(g, q.out, n + 1)
  <2>1. g[n] \notin Texts
    BY TextsAreNotMarkers
  <2> QED
    BY <1>3, <1>6, <2>1, KeptOn
<1> QED
  BY <1>3, <1>4, <1>6, <1>7, <1>8 DEF Reads

LEMMA TextReads ==
  ASSUME NEW f, NEW g, NEW n \in Nat \ {0}, NEW p, Landmarks(f, n), Reads(f, p, n),
         \A k \in 1 .. n - 1 : f[k] = g[k], g[n] \in Texts
  PROVE  Reads(g, ParseLine(p, n, g[n]), n + 1)
<1>1. p \in Reader /\ Buffered(f, p, n) /\ Since(f, n, p.section, p.buf.from)
      /\ Kept(f, p.out, p.buf.from)
  BY DEF Reads, Buffered
<1>2. p.section = Heading(f, n) /\ p.buf.from \in 1 .. n
  BY <1>1 DEF Since
<1>3. PICK line : line = g[n]
  OBVIOUS
<1>4. PICK q : q = ParseLine(p, n, line)
  OBVIOUS
<1>5. Heading(g, n + 1) = p.section
  <2>1. g[n] \notin Ways
    BY TextsAreNotMarkers
  <2> QED
    BY <1>2, <2>1, HeadingStep
<1>6. q = Written(p, n, line)
  BY <1>3, <1>4 DEF ParseLine, Texts
<1>7. PICK section, block, buf, out :
        section = p.section /\ block = p.block /\ buf = p.buf /\ out = p.out
  OBVIOUS
<1>8. /\ p = [section |-> section, block |-> block, buf |-> buf, out |-> out]
      /\ section \in Ways \cup {"none"} /\ block \in BOOLEAN /\ out \in [Ways -> Seq(Span)]
      /\ buf \in [from : Int, done : Seq(Span), open : Int]
  BY <1>1, <1>7 DEF Reader
<1>9. CASE section = "none"
  <2>1. q = [section |-> section, block |-> block, buf |-> EmptyBefore(n + 1), out |-> out]
    BY <1>6, <1>7, <1>8, <1>9 DEF Written
  <2>2. EmptyBefore(n + 1) \in [from : Int, done : Seq(Span), open : Int]
    BY DEF EmptyBefore
  <2>3. q \in Reader /\ q.section = section /\ q.buf = EmptyBefore(n + 1) /\ q.out = out
    BY <1>8, <2>1, <2>2 DEF Reader
  <2>4. Buffered(g, q, n + 1) /\ q.buf.from = n + 1
    BY <1>5, <1>7, <1>9, <2>3, EmptyIsBuffered
  <2>5. p.buf.from = n
    BY <1>1, <1>7, <1>9 DEF Since
  <2>6. Kept(g, out, n + 1)
    <3>1. Kept(f, out, n) /\ Heading(f, n) = "none" /\ g[n] \notin Markers
      BY <1>1, <1>2, <1>7, <1>9, <2>5, TextsAreNotMarkers
    <3> QED
      BY <3>1, KeptOn
  <2> QED
    BY <1>3, <1>4, <2>3, <2>4, <2>6 DEF Reads
<1>10. CASE section # "none"
  <2>1. PICK from, done, open : from = buf.from /\ done = buf.done /\ open = buf.open
    OBVIOUS
  <2>2. /\ from \in 1 .. n /\ open \in from .. n /\ done \in Seq(Span)
        /\ buf = [from |-> from, done |-> done, open |-> open]
    BY <1>1, <1>2, <1>7, <1>8, <2>1 DEF Buffered
  <2>3. /\ \A k \in DOMAIN done :
             /\ from <= done[k].from /\ done[k].from <= done[k].to
             /\ done[k].to <= open /\ done[k].to <= n - 1
        /\ \A j, k \in DOMAIN done : j < k => done[j].to <= done[k].from
        /\ \A l \in from .. open - 1 : \E k \in DOMAIN done : l \in On(done[k])
        /\ f[from - 1] = "begin" => block = TRUE
    BY <1>1, <1>7, <1>10, <2>1 DEF Buffered
  <2>4. Since(g, n + 1, section, from)
    <3>1. /\ \A k \in from .. n - 1 : f[k] \in Texts
          /\ from > 1 /\ f[from - 1] \in Markers
      BY <1>1, <1>7, <1>10, <2>1 DEF Since
    <3>2. g[from - 1] = f[from - 1]
      BY <2>2, <3>1
    <3>3. \A k \in from .. (n + 1) - 1 : g[k] \in Texts
      <4>1. \A k \in from .. (n + 1) - 1 : k \in from .. n - 1 \/ k = n
        BY <2>2
      <4>2. \A k \in from .. n - 1 : g[k] = f[k]
        BY <2>2
      <4> QED
        BY <3>1, <4>1, <4>2
    <3>4. from \in 1 .. n + 1
      BY <2>2
    <3> QED
      BY <1>5, <1>7, <1>10, <3>1, <3>2, <3>3, <3>4 DEF Since
  <2>5. g[from - 1] = "begin" => block = TRUE
    <3>1. from > 1
      BY <1>1, <1>7, <1>10, <2>1 DEF Since
    <3>2. from - 1 \in 1 .. n - 1
      BY <2>2, <3>1
    <3> QED
      BY <2>3, <3>2
  <2>6. Kept(g, out, from)
    <3> SUFFICES ASSUME NEW way \in Ways
                 PROVE  Covers(g, out[way], way, from) /\ KeepsBlocks(g, out[way], way, from)
      BY DEF Kept
    <3>1. /\ from \in Nat /\ \A k \in 1 .. from - 1 : f[k] = g[k]
          /\ \A k \in 1 .. from : HasFinal(Heads(f, k))
      BY <2>2 DEF Landmarks
    <3>2. Covers(f, out[way], way, from) /\ KeepsBlocks(f, out[way], way, from)
      BY <1>1, <1>7, <2>1 DEF Kept
    <3> QED
      BY <3>1, <3>2, SameBefore
  <2>7. CASE line = "part"
    <3>1. q = p
      BY <1>6, <1>7, <1>10, <2>7 DEF Written
    <3>2. open \in from .. n + 1 /\ \A k \in DOMAIN done : done[k].to <= (n + 1) - 1
      <4>1. \A k \in DOMAIN done : done[k] \in Span
        BY <2>2
      <4> QED
        BY <2>2, <2>3, <4>1 DEF Span
    <3>3. Buffered(g, p, n + 1)
      BY <1>7, <2>1, <2>3, <2>4, <2>5, <3>2 DEF Buffered
    <3> QED
      BY <1>1, <1>3, <1>4, <1>7, <2>1, <2>6, <3>1, <3>3 DEF Reads
  <2>8. CASE line # "part"
    <3>1. PICK extra : extra = [from |-> open, to |-> n]
      OBVIOUS
    <3>2. PICK more, begun : more = Append(done, extra) /\ begun = IF line = "both" THEN n ELSE n + 1
      OBVIOUS
    <3>3. q = [section |-> section, block |-> block,
               buf |-> [from |-> from, done |-> more, open |-> begun], out |-> out]
      BY <1>6, <1>7, <1>8, <1>10, <2>1, <2>2, <2>8, <3>1, <3>2 DEF Written
    <3>4. extra \in Span /\ extra.from = open /\ extra.to = n
      BY <2>2, <3>1 DEF Span
    <3>5. /\ more \in Seq(Span) /\ Len(more) = Len(done) + 1 /\ Len(done) \in Nat
          /\ DOMAIN more = 1 .. Len(done) + 1 /\ DOMAIN done = 1 .. Len(done)
          /\ \A k \in 1 .. Len(done) : more[k] = done[k] /\ done[k] \in Span
          /\ more[Len(done) + 1] = extra
      BY <2>2, <3>2, <3>4
    <3>6. begun \in from .. n + 1 /\ n <= begun
      BY <2>2, <3>2
    <3>7. q \in Reader
      <4>1. [from |-> from, done |-> more, open |-> begun] \in [from : Int, done : Seq(Span), open : Int]
        BY <2>2, <3>5, <3>6
      <4> QED
        BY <1>8, <3>3, <4>1 DEF Reader
    <3>8. ASSUME NEW k \in DOMAIN more
          PROVE  /\ from <= more[k].from /\ more[k].from <= more[k].to
                 /\ more[k].to <= begun /\ more[k].to <= (n + 1) - 1
      <4>1. CASE k \in 1 .. Len(done)
        <5>1. more[k] = done[k] /\ done[k].from \in Int /\ done[k].to \in Int
          BY <3>5, <4>1 DEF Span
        <5>2. from <= done[k].from /\ done[k].from <= done[k].to /\ done[k].to <= n - 1
          BY <2>3, <3>5, <4>1
        <5> QED
          BY <3>6, <5>1, <5>2
      <4>2. CASE k = Len(done) + 1
        <5>1. more[k].from = open /\ more[k].to = n
          BY <3>4, <3>5, <4>2
        <5> QED
          BY <2>2, <3>6, <5>1
      <4> QED
        BY <3>5, <4>1, <4>2
    <3>9. ASSUME NEW j \in DOMAIN more, NEW k \in DOMAIN more, j < k
          PROVE  more[j].to <= more[k].from
      <4>1. j \in 1 .. Len(done) /\ more[j] = done[j] /\ done[j].to \in Int
        BY <3>5, <3>9 DEF Span
      <4>2. CASE k \in 1 .. Len(done)
        <5>1. more[k] = done[k]
          BY <3>5, <4>2
        <5> QED
          BY <2>3, <3>5, <3>9, <4>1, <4>2, <5>1
      <4>3. CASE k = Len(done) + 1
        <5>1. more[k].from = open /\ done[j].to <= open
          BY <2>3, <3>4, <3>5, <4>1, <4>3
        <5> QED
          BY <4>1, <5>1
      <4> QED
        BY <3>5, <4>2, <4>3
    <3>10. ASSUME NEW l \in from .. begun - 1
           PROVE  \E k \in DOMAIN more : l \in On(more[k])
      <4>1. CASE l < open
        <5>1. l \in from .. open - 1
          BY <2>2, <4>1
        <5>2. PICK k \in 1 .. Len(done) : l \in On(done[k])
          BY <2>3, <3>5, <5>1
        <5>3. k \in DOMAIN more /\ more[k] = done[k]
          BY <3>5
        <5> QED
          BY <5>2, <5>3
      <4>2. CASE open <= l
        <5>1. l <= n
          BY <2>2, <3>2
        <5>2. Len(done) + 1 \in DOMAIN more /\ l \in On(extra)
          BY <2>2, <3>4, <3>5, <4>2, <5>1 DEF On
        <5> QED
          BY <3>5, <5>2
      <4> QED
        BY <2>2, <4>1, <4>2
    <3>11. /\ q.section = section /\ q.block = block /\ q.out = out
           /\ q.buf.from = from /\ q.buf.open = begun /\ q.buf.done = more
      BY <3>3
    <3>12. Buffered(g, q, n + 1)
      BY <2>4, <2>5, <3>6, <3>8, <3>9, <3>10, <3>11 DEF Buffered
    <3> QED
      BY <1>3, <1>4, <2>6, <3>7, <3>11, <3>12 DEF Reads
  <2> QED
    BY <2>7, <2>8
<1> QED
  BY <1>9, <1>10

-----------------------------------------------------------------------------
(* What parseSections has done when it has read the file so far.           *)
SectionsInv ==
  /\ file \in Seq(Markers \cup Texts)
  /\ Landmarks(file, Len(file) + 1)
  /\ Reads(file, parser, Len(file) + 1)

LEMMA SectionsInitial == SectionsInit => SectionsInv
<1> SUFFICES ASSUME SectionsInit PROVE SectionsInv
  OBVIOUS
<1>1. PICK none : none = <<>>
  OBVIOUS
<1>2. /\ file = none /\ none \in Seq(Markers \cup Texts) /\ Len(none) = 0 /\ DOMAIN none = {}
      /\ none \in Seq(Span)
  BY <1>1 DEF SectionsInit
<1>3. Landmarks(none, 1)
  <2>1. Heads(none, 1) = {} /\ Marks(none, 1) = {}
    BY DEF Heads, Marks
  <2>2. \A k \in 1 .. 1 : k = 1
    OBVIOUS
  <2>3. 1 .. 1 - 1 = {}
    OBVIOUS
  <2> QED
    BY <2>1, <2>2, <2>3 DEF Landmarks, HasFinal
<1>4. PICK out : out = [way \in Ways |-> none]
  OBVIOUS
<1>5. parser = [section |-> "none", block |-> FALSE,
                buf |-> [from |-> 1, done |-> none, open |-> 1], out |-> out]
  BY <1>1, <1>4 DEF SectionsInit, EmptyBefore, Ways
<1>6. parser \in Reader
  <2>1. out \in [Ways -> Seq(Span)]
    BY <1>2, <1>4
  <2> QED
    BY <1>2, <1>5, <2>1 DEF Reader
<1>7. /\ parser.section = "none" /\ parser.buf.from = 1 /\ parser.buf.open = 1
      /\ parser.buf.done = none /\ parser.out = out
  BY <1>5
<1>8. Since(none, 1, "none", 1)
  <2>1. Heading(none, 1) = "none"
    BY DEF Heading, Heads
  <2> QED
    BY <2>1 DEF Since
<1>9. Buffered(none, parser, 1)
  <2>1. 1 \in 1 .. 1 /\ 1 .. 1 - 1 = {}
    OBVIOUS
  <2> QED
    BY <1>2, <1>7, <1>8, <2>1 DEF Buffered
<1>10. Kept(none, out, 1)
  <2> SUFFICES ASSUME NEW way \in Ways
               PROVE  Covers(none, out[way], way, 1) /\ KeepsBlocks(none, out[way], way, 1)
    BY DEF Kept
  <2>1. out[way] = none /\ 1 .. 1 - 1 = {}
    BY <1>4
  <2> QED
    BY <1>2, <2>1 DEF Covers, KeepsBlocks
<1>11. Len(file) + 1 = 1
  BY <1>2
<1> QED
  BY <1>2, <1>3, <1>6, <1>7, <1>9, <1>10, <1>11 DEF SectionsInv, Reads

LEMMA SectionsStep == SectionsInv /\ [AddLine]_sectionVars => SectionsInv'
<1> SUFFICES ASSUME SectionsInv, [AddLine]_sectionVars PROVE SectionsInv'
  OBVIOUS
<1>1. CASE UNCHANGED sectionVars
  BY <1>1 DEF SectionsInv, sectionVars
<1>2. CASE AddLine
  <2>1. PICK line \in Markers \cup Texts :
          /\ file' = Append(file, line)
          /\ parser' = ParseLine(parser, Len(file) + 1, line)
    BY <1>2 DEF AddLine
  <2>2. PICK f, p, n : f = file /\ p = parser /\ n = Len(file) + 1
    OBVIOUS
  <2>3. PICK g : g = Append(f, line)
    OBVIOUS
  <2>4. /\ f \in Seq(Markers \cup Texts) /\ Landmarks(f, n) /\ Reads(f, p, n)
        /\ n \in Nat \ {0}
    BY <2>2 DEF SectionsInv
  <2>5. /\ g \in Seq(Markers \cup Texts) /\ Len(g) = n /\ g[n] = line
        /\ \A k \in 1 .. n - 1 : f[k] = g[k]
    <3>1. n = Len(f) + 1 /\ Len(f) \in Nat
      BY <2>2, <2>4
    <3>2. 1 .. n - 1 = 1 .. Len(f)
      BY <3>1
    <3> QED
      BY <2>3, <2>4, <3>1, <3>2, AppendIs
  <2>6. Landmarks(g, n + 1)
    BY <2>4, <2>5, LandmarksStep
  <2>7. Reads(g, ParseLine(p, n, line), n + 1)
    <3>1. CASE g[n] \in Markers
      BY <2>4, <2>5, <3>1, MarkerReads
    <3>2. CASE g[n] \in Texts
      BY <2>4, <2>5, <3>2, TextReads
    <3> QED
      BY <2>5, <3>1, <3>2
  <2>8. file' = g /\ parser' = ParseLine(p, n, line) /\ Len(file') + 1 = n + 1
    BY <2>1, <2>2, <2>3, <2>5
  <2> QED
    BY <2>5, <2>6, <2>7, <2>8 DEF SectionsInv
<1> QED
  BY <1>1, <1>2

LEMMA KeptIsFaithful == SectionsInv => StatementsAreTheFiles
<1> SUFFICES ASSUME SectionsInv, NEW section \in Ways
             PROVE  LET stmts == Parsed[section] IN
                    /\ \A n \in DOMAIN file :
                         (\E k \in DOMAIN stmts : n \in On(stmts[k])) <=>
                           file[n] \in Texts /\ SectionOf(n) = section
                    /\ \A j, k \in DOMAIN stmts : j < k => stmts[j].to <= stmts[k].from
                    /\ \A n \in DOMAIN file :
                         (file[n] \in Texts /\ InBlock(n) /\ SectionOf(n) = section
                          /\ Whole(MarkerOf(n))) =>
                           \E k \in DOMAIN stmts :
                             /\ On(stmts[k]) = LinesAfter(MarkerOf(n))
                             /\ \A j \in DOMAIN stmts : n \in On(stmts[j]) => j = k
  BY DEF StatementsAreTheFiles, Ways
<1>1. PICK stmts, top : stmts = Parsed[section] /\ top = Len(file) + 1
  OBVIOUS
<1>2. /\ file \in Seq(Markers \cup Texts) /\ Len(file) \in Nat /\ DOMAIN file = 1 .. Len(file)
      /\ top \in Nat \ {0} /\ Len(file) = top - 1
      /\ Landmarks(file, top) /\ Reads(file, parser, top)
  BY <1>1 DEF SectionsInv
<1>3. /\ Covers(file, stmts, section, top) /\ KeepsBlocks(file, stmts, section, top)
      /\ EndsBlocks(file, stmts, section, top)
  <2>1. PICK q : q = FlushAll(parser, top)
    OBVIOUS
  <2>2. Kept(file, q.out, top) /\ BlocksEnd(file, q.out, top)
    BY <1>2, <2>1, FlushAllKeeps
  <2>3. stmts = q.out[section]
    BY <1>1, <2>1 DEF Parsed
  <2> QED
    BY <2>2, <2>3 DEF Kept, BlocksEnd
<1>4. /\ \A n : SectionOf(n) = Heading(file, n)
      /\ \A n : MarkersBefore(n) = Marks(file, n) /\ MarkerOf(n) = Final(Marks(file, n))
  BY DEF SectionOf, Heading, Heads, Ways, Final, MarkerOf, MarkersBefore, Marks
<1>5. \A n \in DOMAIN file :
        (\E k \in DOMAIN stmts : n \in On(stmts[k])) <=>
          file[n] \in Texts /\ SectionOf(n) = section
  BY <1>2, <1>3, <1>4 DEF Covers
<1>6. \A j, k \in DOMAIN stmts : j < k => stmts[j].to <= stmts[k].from
  BY <1>3 DEF Covers
<1>7. ASSUME NEW n \in DOMAIN file, file[n] \in Texts, InBlock(n), SectionOf(n) = section,
             Whole(MarkerOf(n))
      PROVE  \E k \in DOMAIN stmts :
               /\ On(stmts[k]) = LinesAfter(MarkerOf(n))
               /\ \A j \in DOMAIN stmts : n \in On(stmts[j]) => j = k
  <2>1. PICK m : m = MarkerOf(n)
    OBVIOUS
  <2>2. m \in Marks(file, n) /\ \A k \in Marks(file, n) : k <= m
    <3>1. Marks(file, n) # {} /\ m = Final(Marks(file, n))
      BY <1>4, <1>7, <2>1 DEF InBlock
    <3>2. HasFinal(Marks(file, n))
      BY <1>2 DEF Landmarks
    <3> QED
      BY <3>1, <3>2, FinalIs
  <2>3. m \in 1 .. n - 1 /\ file[m] = "begin"
    BY <1>7, <2>1, <2>2 DEF Marks, InBlock
  <2>4. \A k \in m + 1 .. n : file[k] \in Texts
    <3> SUFFICES ASSUME NEW k \in m + 1 .. n PROVE file[k] \in Texts
      OBVIOUS
    <3>1. k \in 1 .. Len(file) /\ file[k] \in Markers \cup Texts
      BY <1>2, <2>3
    <3>2. CASE k = n
      BY <1>7, <3>2
    <3>3. CASE k < n
      <4>1. k \in 1 .. n - 1 /\ ~ (k <= m)
        BY <1>2, <2>3, <3>3
      <4>2. k \notin Marks(file, n)
        BY <2>2, <4>1
      <4> QED
        BY <3>1, <4>1, <4>2 DEF Marks
    <3> QED
      BY <1>2, <3>2, <3>3
  <2>5. PICK e \in n + 1 .. top :
          /\ \A k \in n .. e - 1 : file[k] \in Texts
          /\ e # top => file[e] \in Markers
    <3>1. CASE \A k \in n .. top - 1 : file[k] \in Texts
      <4>1. top \in n + 1 .. top
        BY <1>2
      <4> QED
        BY <3>1, <4>1
    <3>2. CASE ~ \A k \in n .. top - 1 : file[k] \in Texts
      <4>1. n \in 1 .. top - 1
        BY <1>2
      <4>2. PICK e \in n .. top - 1 : file[e] \in Markers /\ \A l \in n .. e - 1 : file[l] \in Texts
        BY <1>2, <3>2, <4>1 DEF Landmarks
      <4>3. e # n
        BY <1>7, <4>2, TextsAreNotMarkers
      <4>4. e \in n + 1 .. top
        <5>1. n \in Int /\ top \in Int
          BY <1>2, <4>1
        <5> QED
          BY <4>2, <4>3, <5>1
      <4> QED
        BY <4>2, <4>4
    <3> QED
      BY <3>1, <3>2
  <2>6. \A k \in m + 1 .. e - 1 : file[k] \in Texts
    <3>1. \A k \in m + 1 .. e - 1 : k \in m + 1 .. n \/ k \in n .. e - 1
      BY <1>2, <2>3
    <3> QED
      BY <2>4, <2>5, <3>1
  <2>7. Block(file, m, e)
    BY <1>2, <2>3, <2>5, <2>6 DEF Block
  <2>8. Heading(file, m) = section
    <3>1. \A k \in m .. n - 1 : k = m \/ k \in m + 1 .. n
      BY <1>2, <2>3
    <3>2. \A k \in m .. n - 1 : file[k] \notin Ways
      BY <2>3, <2>4, <3>1, TextsAreNotMarkers DEF Ways
    <3>3. n \in Nat /\ m \in 1 .. n
      BY <1>2, <2>3
    <3>4. Heading(file, m) = Heading(file, n)
      BY <3>2, <3>3, HeadingLasts
    <3> QED
      BY <1>4, <1>7, <3>4
  <2>9. OneSpan(stmts, m + 1, e - 1)
    <3>1. CASE e = top
      <4>1. m \in 1 .. top - 1
        BY <1>2, <2>3
      <4> QED
        BY <1>3, <2>7, <2>8, <3>1, <4>1 DEF EndsBlocks
    <3>2. CASE e # top
      <4>1. m \in 1 .. top - 1 /\ e \in 1 .. top - 1
        BY <1>2, <2>3, <3>2
      <4>2. file[e] # "begin"
        <5>1. e \in m + 1 .. Len(file)
          BY <1>2, <2>3, <4>1
        <5> QED
          BY <1>7, <2>1, <2>6, <5>1 DEF Whole
      <4> QED
        BY <1>3, <2>5, <2>7, <2>8, <3>2, <4>1, <4>2 DEF KeepsBlocks
    <3> QED
      BY <3>1, <3>2
  <2>10. PICK k \in DOMAIN stmts :
           /\ stmts[k].from = m + 1 /\ stmts[k].to = e - 1
           /\ \A j \in DOMAIN stmts : \A l \in m + 1 .. e - 1 : l \in On(stmts[j]) => j = k
    BY <2>9 DEF OneSpan
  <2>11. LinesAfter(m) = m + 1 .. e - 1
    <3>1. \A l \in m + 1 .. e - 1 : l \in LinesAfter(m)
      <4> SUFFICES ASSUME NEW l \in m + 1 .. e - 1 PROVE l \in LinesAfter(m)
        OBVIOUS
      <4>1. l \in m + 1 .. Len(file) /\ \A j \in m + 1 .. l : j \in m + 1 .. e - 1
        BY <1>2, <2>3
      <4> QED
        BY <2>6, <4>1 DEF LinesAfter
    <3>2. ASSUME NEW l \in LinesAfter(m) PROVE l \in m + 1 .. e - 1
      <4>1. l \in m + 1 .. Len(file) /\ \A j \in m + 1 .. l : file[j] \in Texts
        BY DEF LinesAfter
      <4>2. SUFFICES ASSUME ~ (l <= e - 1) PROVE FALSE
        BY <1>2, <2>3, <4>1
      <4>3. e # top /\ e \in m + 1 .. l
        BY <1>2, <2>3, <4>1, <4>2
      <4> QED
        BY <2>5, <4>1, <4>3, TextsAreNotMarkers
    <3> QED
      BY <3>1, <3>2
  <2>12. n \in m + 1 .. e - 1
    BY <1>2, <2>3
  <2> QED
    BY <2>1, <2>10, <2>11, <2>12 DEF On
<1> QED
  BY <1>1, <1>5, <1>6, <1>7

(* parseSections (migrations.go) returns every line of a file under the    *)
(* section it was written in and no other, in order, and makes one         *)
(* statement of a StatementBegin block, so that a trigger is never         *)
(* executed in halves.  For any file of any number of lines, whatever      *)
(* markers it has in whatever order.                                       *)
THEOREM StatementsAlwaysAreTheFiles == SectionsSpec => []StatementsAreTheFiles
<1>1. SectionsInit => SectionsInv
  BY SectionsInitial
<1>2. SectionsInv /\ [AddLine]_sectionVars => SectionsInv'
  BY SectionsStep
<1>3. SectionsInv => StatementsAreTheFiles
  BY KeptIsFaithful
<1> QED
  BY <1>1, <1>2, <1>3, PTL DEF SectionsSpec
=============================================================================
