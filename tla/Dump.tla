-------------------------------- MODULE Dump --------------------------------
(***************************************************************************)
(* The development database (devdb/export.go, database/dump.go, `make      *)
(* dev-db`): the dump command reads the production database page by page   *)
(* over HTTP, while the shop goes on writing it, into an SQL script; the   *)
(* script is loaded into an empty SQLite file, on which a local server     *)
(* then runs.  The table products stands for every table that is walked,   *)
(* products_fts for the virtual tables that are rebuilt.                   *)
(***************************************************************************)
EXTENDS Catalogue

CONSTANT
  PageSize     \* rows per request

ASSUME DumpAssumption == PageSize \in Nat \ {0}

VARIABLES
  dump,        \* the export: where it is, its OFFSET, the pages written
  copy,        \* the local database: its products, its index, and how many
               \* INSERT statements of the script it has executed
  before,      \* history: the table when the export began
  shrunk       \* history: whether a row was deleted during the export

export == <<dump, copy, before, shrunk>>

NoDump == [pc |-> "off", offset |-> 0, pages |-> <<>>]

DumpInit ==
  /\ dump = NoDump
  /\ copy = [rows |-> <<>>, index |-> {}, loaded |-> 0]
  /\ before = <<>>
  /\ shrunk = FALSE

-----------------------------------------------------------------------------
(* Export: the schema first.  Dumper.Tables reads only tables, so neither  *)
(* a trigger nor an index gets into the script.                            *)
BeginDump ==
  /\ dump.pc = "off"
  /\ dump' = [dump EXCEPT !.pc = "pages"]
  /\ before' = products
  /\ shrunk' = FALSE
  /\ UNCHANGED copy

(* Dumper.Rows: ORDER BY rowid LIMIT ? OFFSET ?                            *)
Rows(limit, offset) == List(limit, offset).items

(* Mutant: the offset goes on by one row too many.                         *)
OffsetSkips(offset) == offset + PageSize + 1

NextOffset(offset) == offset + PageSize

(* writeRows: a page is one INSERT statement of the script, an empty one   *)
(* none, which loads as nothing.  A page that is short is the last.        *)
NextPage ==
  LET ids == Rows(PageSize, dump.offset) IN
  /\ dump.pc = "pages"
  /\ dump' = [pc |-> IF Len(ids) < PageSize THEN "load" ELSE "pages",
              offset |-> NextOffset(dump.offset),
              pages |-> Append(dump.pages,
                          [n \in DOMAIN ids |-> [id |-> ids[n], row |-> products[ids[n]]]])]
  /\ UNCHANGED <<copy, before, shrunk>>

(* A request fails: the command ends with an error, and make with it       *)
(* before the local database is touched.                                   *)
DumpFails ==
  /\ dump.pc = "pages"
  /\ dump' = NoDump
  /\ UNCHANGED <<copy, before, shrunk>>

(* Loading one INSERT statement: the primary key refuses it whole when it  *)
(* names an id that is there already.                                      *)
LoadPage(rows, page) ==
  LET ids == {page[n].id : n \in DOMAIN page} IN
  IF ids \cap DOMAIN rows # {} THEN rows
  ELSE [id \in DOMAIN rows \cup ids |->
          IF id \in ids THEN page[CHOOSE n \in DOMAIN page : page[n].id = id].row
          ELSE rows[id]]

(* The script is loaded into an empty file, one INSERT statement after     *)
(* another; sqlite3 goes on behind a statement that is refused.            *)
LoadRows ==
  /\ dump.pc = "load"
  /\ copy.loaded < Len(dump.pages)
  /\ copy' = [copy EXCEPT !.rows = LoadPage(copy.rows, dump.pages[copy.loaded + 1]),
                          !.loaded = @ + 1]
  /\ UNCHANGED <<dump, before, shrunk>>

IndexOf(table) == UNION {Entries(id, table[id]) : id \in DOMAIN table}

(* The script ends with the 'rebuild' of the index and with COMMIT.        *)
(* `migrate up` finds every version recorded in the table it came with,    *)
(* and applies nothing.                                                    *)
RebuildIndex ==
  /\ dump.pc = "load"
  /\ copy.loaded = Len(dump.pages)
  /\ dump' = [dump EXCEPT !.pc = "loaded"]
  /\ copy' = [copy EXCEPT !.index = IndexOf(copy.rows)]
  /\ UNCHANGED <<before, shrunk>>

(* The local server creates a product: the statement of CreateProduct, on  *)
(* a database whose script made no trigger to follow it.                   *)
CreateLocally ==
  \E id \in FreeIds(copy.rows), price \in Prices, text \in Texts :
    /\ dump.pc = "loaded"
    /\ dump' = [dump EXCEPT !.pc = "edited"]
    /\ copy' = [copy EXCEPT !.rows = [i \in DOMAIN copy.rows \cup {id} |->
                  IF i = id THEN [serial |-> 0, price |-> price, text |-> text]
                  ELSE copy.rows[i]]]
    /\ UNCHANGED <<before, shrunk>>

DumpStep == BeginDump \/ NextPage \/ DumpFails \/ LoadRows \/ RebuildIndex \/ CreateLocally

(* What the export remembers of a deleted product.                         *)
DeletionSeen == shrunk' = (shrunk \/ dump.pc = "pages")

-----------------------------------------------------------------------------
Taken(serial) ==
  {at \in (DOMAIN dump.pages) \X (1 .. PageSize) :
     /\ at[2] <= Len(dump.pages[at[1]])
     /\ dump.pages[at[1]][at[2]].row.serial = serial}

(* However the shop writes while the pages are read, no row is taken into  *)
(* the script twice; and a product that was there when the export began    *)
(* and still is when the last page is read is in the script and in the     *)
(* database loaded from it, unless some row was deleted meanwhile: LIMIT   *)
(* and OFFSET over no snapshot lose a row only to a deletion, never to a   *)
(* creation or a change.                                                   *)
RowsTakenOnce ==
  /\ \A serial \in 1 .. edits : Cardinality(Taken(serial)) <= 1
  /\ (dump.pc \in {"load", "loaded"} /\ ~ shrunk) =>
       \A id \in DOMAIN before :
         /\ Taken(before[id].serial) # {}
         /\ dump.pc = "loaded" =>
              id \in DOMAIN copy.rows /\ copy.rows[id].serial = before[id].serial

(* A database that has just been loaded finds its products: the rebuild at *)
(* the end of the script stands for the triggers the load did not have.    *)
LoadedIndexAgrees ==
  dump.pc = "loaded" => copy.index = IndexOf(copy.rows)

(* export.go: "Loading the script into an empty SQLite file yields a       *)
(* working local database": a search of it finds what it holds.            *)
LocalSearchWorks ==
  dump.pc \in {"loaded", "edited"} => copy.index = IndexOf(copy.rows)
=============================================================================
