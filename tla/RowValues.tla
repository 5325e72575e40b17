----------------------------- MODULE RowValues -----------------------------
(***************************************************************************)
(* What becomes of a value between a repository that binds it as a         *)
(* parameter and one that reads it from a row: on the SQLite adapter, on   *)
(* the D1 adapter, and on a local copy loaded from a dump of D1            *)
(* (database/sqlite.go, d1.go and dump.go).                                *)
(*                                                                         *)
(* The SQLite driver binds values and reports declared types.  D1 takes    *)
(* parameters as strings and answers in JSON, which has one kind of        *)
(* number.  In between the affinity of the column decides what is stored.  *)
(* A number and the text that spells it are the same value here, so that   *)
(* only the storage class tells them apart.                                *)
(***************************************************************************)
EXTENDS Naturals

Integral == {"0", "1", "7", "1e15"}
Numbers == Integral \cup {"0.5"}
Words == {"", "words", "date"}

VARIABLES
  column,    \* the declared type of the column
  param,     \* the parameter bound last
  local,     \* what the local database has stored
  remote,    \* what D1 has stored
  copy       \* what a local database loaded from a dump of D1 has stored

cells == <<column, param, local, remote, copy>>

Cell(class, val) == [class |-> class, val |-> val]
Null == Cell("null", "")
Error == Cell("error", "")
NotDumped == Cell("none", "")

(* What the repositories bind: an int, a float64, a bool, a string, or a   *)
(* pointer that is nil.  None binds a []byte, or a time it has not         *)
(* formatted.                                                              *)
Params(decl) ==
  CASE decl = "INTEGER"  -> {Cell("int", v) : v \in Integral \ {"1e15"}} \cup {Null}
    [] decl = "BOOLEAN"  -> {Cell("bool", v) : v \in {"0", "1"}}
    [] decl = "REAL"     -> {Cell("real", v) : v \in Numbers} \cup {Null}
    [] decl = "TEXT"     -> {Cell("text", v) : v \in Numbers \cup Words} \cup {Null}
    [] decl = "DATETIME" -> {Cell("text", "date"), Null}

Declared == {"INTEGER", "BOOLEAN", "REAL", "TEXT", "DATETIME"}

CellsInit ==
  /\ column \in Declared
  /\ param = Null /\ local = Null /\ remote = Null /\ copy = NotDumped

-----------------------------------------------------------------------------
(* SQLite (external): what a column stores for what it is given.           *)
Affinity(decl, cell) ==
  IF cell.class = "null" THEN Null
  ELSE IF decl = "TEXT" \/ cell.val \notin Numbers THEN Cell("text", cell.val)
  ELSE IF decl = "REAL" \/ cell.val \notin Integral THEN Cell("real", cell.val)
  ELSE Cell("int", cell.val)

(* The driver of the local database binds a bool as the integer 0 or 1.    *)
Bound(cell) == IF cell.class = "bool" THEN Cell("int", cell.val) ELSE cell

(* Mutant: a nil parameter is sent as an empty string.                     *)
EncodeNilAsText(cell) == Cell("text", cell.val)

(* paramsToStrings: nil is written into the statement as NULL, everything  *)
(* else is sent as the string encodeParam makes of it.                     *)
Encode(cell) == IF cell.class = "null" THEN Null ELSE Cell("text", cell.val)

(* A row is written through both adapters.                                 *)
Put ==
  /\ param' \in Params(column)
  /\ local' = Affinity(column, Bound(param'))
  /\ remote' = Affinity(column, Encode(param'))
  /\ copy' = NotDumped
  /\ UNCHANGED column

(* coerceRow: what the JSON of D1 says of a stored value.                  *)
Json(cell) == IF cell.class \in {"int", "real"} THEN Cell("real", cell.val) ELSE cell

(* SQLLiteral: an integral number below 1e15 is written as an integer.     *)
SQLLiteral(json) ==
  IF json.class = "real" /\ json.val \in Integral \ {"1e15"}
  THEN Cell("int", json.val) ELSE json

(* The value is dumped and loaded.                                         *)
DumpValue ==
  /\ copy' = Affinity(column, SQLLiteral(Json(remote)))
  /\ UNCHANGED <<column, param, local, remote>>

CellsNext == Put \/ DumpValue

CellsSpec == CellsInit /\ [][CellsNext]_cells

-----------------------------------------------------------------------------
(* The accessors of the two adapters.  An answer is a value of Go: an      *)
(* integer, a float, a text, nil or an error.                              *)
Zero(class) == Cell(class, "0")
Truncated(v) == IF v = "0.5" THEN "0" ELSE v

(* database/sqlite.go: the declared type is checked first.                 *)
SQLiteInt(decl, cell) ==
  IF decl \notin {"INTEGER", "BOOLEAN"} THEN Error
  ELSE CASE cell.class = "null"            -> Zero("int")
         [] cell.class \in {"int", "real"} -> Cell("int", Truncated(cell.val))
         [] OTHER                          -> Error

SQLiteFloat(decl, cell) ==
  IF decl # "REAL" THEN Error
  ELSE CASE cell.class = "null"            -> Zero("real")
         [] cell.class \in {"int", "real"} -> Cell("real", cell.val)
         [] OTHER                          -> Error

SQLiteNullableFloat(decl, cell) ==
  IF decl = "REAL" /\ cell.class = "null" THEN Null ELSE SQLiteFloat(decl, cell)

(* The driver hands out a date in a DATETIME column as a time.             *)
SQLiteString(decl, cell) ==
  IF decl \notin {"TEXT", "DATETIME"} THEN Error
  ELSE CASE cell.class = "null"            -> Cell("text", "")
         [] cell.class = "text"            -> cell
         [] OTHER                          -> Error

(* NullableString has no case for a time.                                  *)
SQLiteNullableString(decl, cell) ==
  IF decl \notin {"TEXT", "DATETIME"} \/ (decl = "DATETIME" /\ cell.val = "date") THEN Error
  ELSE CASE cell.class = "null"            -> Null
         [] cell.class = "text"            -> cell
         [] OTHER                          -> Error

(* database/d1.go: only the JSON type is there to check.                   *)
D1Int(cell) ==
  IF cell.class = "null" THEN Zero("int")
  ELSE IF Json(cell).class = "real" THEN Cell("int", Truncated(cell.val)) ELSE Error

D1Float(cell) ==
  IF cell.class = "null" THEN Zero("real")
  ELSE IF Json(cell).class = "real" THEN Cell("real", cell.val) ELSE Error

D1NullableFloat(cell) == IF cell.class = "null" THEN Null ELSE D1Float(cell)

D1String(cell) ==
  CASE cell.class = "null"                -> Cell("text", "")
    [] cell.class = "text"                -> cell
    [] OTHER                              -> Error

D1NullableString(cell) == IF cell.class = "null" THEN Null ELSE D1String(cell)

(* The answers of a database, by the accessors that suit the declared type *)
(* of the column ("read a column the way its declared type says, and both  *)
(* adapters agree").  NullableString does not suit a DATETIME: it answers  *)
(* an error on SQLite and a text on D1, and no repository reads one so.    *)
ReadLocal(cell) ==
  CASE column \in {"INTEGER", "BOOLEAN"} -> <<SQLiteInt(column, cell)>>
    [] column = "REAL" -> <<SQLiteFloat(column, cell), SQLiteNullableFloat(column, cell)>>
    [] column = "TEXT" -> <<SQLiteString(column, cell), SQLiteNullableString(column, cell)>>
    [] OTHER           -> <<SQLiteString(column, cell)>>

ReadRemote(cell) ==
  CASE column \in {"INTEGER", "BOOLEAN"} -> <<D1Int(cell)>>
    [] column = "REAL" -> <<D1Float(cell), D1NullableFloat(cell)>>
    [] column = "TEXT" -> <<D1String(cell), D1NullableString(cell)>>
    [] OTHER           -> <<D1String(cell)>>

(* What was bound, as those accessors should answer it.                    *)
Expected(p) ==
  LET null == p.class = "null" IN
  CASE column \in {"INTEGER", "BOOLEAN"} -> <<IF null THEN Zero("int") ELSE Cell("int", p.val)>>
    [] column = "REAL" -> IF null THEN <<Zero("real"), Null>> ELSE <<p, p>>
    [] column = "TEXT" -> IF null THEN <<Cell("text", ""), Null>> ELSE <<p, p>>
    [] OTHER           -> <<IF null THEN Cell("text", "") ELSE p>>

(* Either adapter answers what was bound, NULL told from an empty text and *)
(* digits from a number, though D1 saw only strings on the way in and only *)
(* JSON on the way out; and a value that was dumped from D1 and loaded     *)
(* reads as it did there and is stored in the class it had.                *)
AdaptersAgree ==
  /\ ReadLocal(local) = Expected(param)
  /\ ReadRemote(remote) = Expected(param)
  /\ copy # NotDumped => copy = remote /\ ReadLocal(copy) = ReadRemote(remote)
=============================================================================
