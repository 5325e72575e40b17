----------------------------- MODULE Catalogue -----------------------------
(***************************************************************************)
(* The product catalogue: the table products with the full-text index      *)
(* products_fts that the triggers of migrations/0001_init.sql keep beside  *)
(* it, the statements of services/products/repository.go, and the listing  *)
(* and searching that read them.                                           *)
(*                                                                         *)
(* A write is one statement, and its triggers run inside it, on SQLite and *)
(* on D1 alike.  What follows it in the code, a re-read and the publishing *)
(* of a product event, changes nothing here: no subscriber of the program  *)
(* handles a product event.                                                *)
(*                                                                         *)
(* A row keeps its price, its text (what name and description say, NoText  *)
(* when the description is NULL and adds nothing to the index) and its     *)
(* serial: ids are given out again, serials are not.                       *)
(***************************************************************************)
EXTENDS Integers, FiniteSets, Sequences

CONSTANTS
  Texts,       \* what a product may say of itself
  NoText,      \* a product with nothing to index
  Prices,      \* the prices it may have, natural numbers
  MaxEdits,    \* bound: writes of the catalogue
  Limits       \* how many rows a client may ask for at a time

ASSUME CatalogueAssumption ==
  /\ NoText \notin Texts
  /\ Prices \subseteq Nat
  /\ MaxEdits \in Nat
  /\ Limits \subseteq Nat \ {0}

VARIABLES
  products,    \* the table: the rows by id
  index,       \* products_fts: the pairs of a rowid and a text it is found by
  edits        \* history: how many writes there were

catalogue == <<products, index, edits>>

Product == [serial : Nat, price : Prices, text : Texts \cup {NoText}]

CatalogueInit ==
  /\ products = <<>>
  /\ index = {}
  /\ edits = 0

-----------------------------------------------------------------------------
(* The triggers, on the value of the index. *)

Entries(id, row) == IF row.text = NoText THEN {} ELSE {<<id, row.text>>}

(* products_fts_ai: the new row is entered.                                *)
IndexInserted(ix, id, row) == ix \cup Entries(id, row)

(* products_fts_ad: the 'delete' command takes out what the old row says.  *)
IndexDeleted(ix, id, row) == ix \ Entries(id, row)

(* Mutant: an update enters the new text and leaves the old one.           *)
IndexAdded(ix, id, old, new) == IndexInserted(ix, id, new)

(* products_fts_au: the one, then the other.                               *)
IndexUpdated(ix, id, old, new) == IndexInserted(IndexDeleted(ix, id, old), id, new)

(* INTEGER PRIMARY KEY: one more than the largest id in the table, or 1.   *)
(* A set of one element.                                                   *)
FreeIds(table) ==
  {id \in {1} \cup {i + 1 : i \in DOMAIN table} : \A i \in DOMAIN table : i < id}

-----------------------------------------------------------------------------
(* The statements.  Validation refuses bad input before any of them; no    *)
(* row of that id is ErrNotFound and changes nothing.                      *)
Edit == edits < MaxEdits /\ edits' = edits + 1

CreateProduct ==
  \E price \in Prices, text \in Texts \cup {NoText} :
    LET row == [serial |-> edits + 1, price |-> price, text |-> text] IN
    /\ Edit
    /\ \E id \in FreeIds(products) :
         /\ products' = [i \in DOMAIN products \cup {id} |->
                           IF i = id THEN row ELSE products[i]]
         /\ index' = IndexInserted(index, id, row)

UpdateProduct ==
  \E id \in DOMAIN products, price \in Prices, text \in Texts \cup {NoText} :
    LET row == [products[id] EXCEPT !.price = price, !.text = text] IN
    /\ Edit
    /\ products' = [products EXCEPT ![id] = row]
    /\ index' = IndexUpdated(index, id, products[id], row)

(* A foreign key of order_items refuses to let a product go that an order  *)
(* has sold: `sold` are the ids that stand in a line.                      *)
DeleteProduct(sold) ==
  \E id \in DOMAIN products \ sold :
    /\ Edit
    /\ products' = [i \in DOMAIN products \ {id} |-> products[i]]
    /\ index' = IndexDeleted(index, id, products[id])

-----------------------------------------------------------------------------
(* Reading.  A listing is one SELECT; its rows are in an order, and LIMIT  *)
(* and OFFSET cut a page out of it.  COUNT(star) OVER () is read from the  *)
(* first row of the page: a page past the end reports a total of 0.        *)
Page(rows, limit, offset) ==
  LET page == IF limit > 0
              THEN SubSeq(rows, offset + 1, IF offset + limit < Len(rows)
                                            THEN offset + limit ELSE Len(rows))
              ELSE rows
  IN [items |-> page, total |-> IF page = <<>> THEN 0 ELSE Len(rows)]

(* The members of a set of ids in the order given by the pairs of it.      *)
Sorted(ids, order) ==
  [n \in 1 .. Cardinality(ids) |->
     CHOOSE i \in ids : Cardinality({j \in ids : <<j, i>> \in order}) = n - 1]

ById(ids) == Sorted(ids, {p \in ids \X ids : p[1] < p[2]})

(* sortOrders.  Nothing in the statement orders equal prices among         *)
(* themselves; the rows come from the table by id and SQLite's sort keeps  *)
(* that order.                                                             *)
Before(table, sort, i, j) ==
  CASE sort = ""           -> i > j
    [] sort = "price_asc"  -> \/ table[i].price < table[j].price
                              \/ table[i].price = table[j].price /\ i < j
    [] sort = "price_desc" -> \/ table[i].price > table[j].price
                              \/ table[i].price = table[j].price /\ i < j

Sorts == {"", "price_asc", "price_desc"}

(* The FROM and the WHERE of Search: a query goes through the index, the   *)
(* price limit is a column's.                                              *)
Matching(table, ix, filter) ==
  {id \in DOMAIN table :
     /\ filter.query # NoText => <<id, filter.query>> \in ix
     /\ filter.maxPrice > 0 => table[id].price <= filter.maxPrice}

List(limit, offset) == Page(ById(DOMAIN products), limit, offset)

Search(filter, limit, offset) ==
  LET found == Matching(products, index, filter)
      order == {p \in found \X found : Before(products, filter.sort, p[1], p[2])}
  IN Page(Sorted(found, order), limit, offset)

-----------------------------------------------------------------------------
Filters == [query : Texts \cup {NoText}, maxPrice : {0} \cup Prices, sort : Sorts]

(* The pages of a search, one more than there can be.                      *)
Walk(filter, limit) ==
  [k \in 1 .. Cardinality(DOMAIN products) + 1 |-> Search(filter, limit, (k - 1) * limit)]

InOrder(sort, i, j) ==
  CASE sort = ""           -> i > j
    [] sort = "price_asc"  -> products[i].price <= products[j].price
    [] sort = "price_desc" -> products[i].price >= products[j].price

(* A place is a page and a row of it. *)
Later(at, on) == at[1] < on[1] \/ (at[1] = on[1] /\ at[2] < on[2])

(* Walking the pages of a search to the end finds every product whose      *)
(* present text and price match the filter, once, in the order asked for,  *)
(* and every page that is not empty reports how many they are: the index   *)
(* the triggers keep is never behind the table nor ahead of it, whatever   *)
(* was created, rewritten and deleted under an id before.                  *)
SearchFindsWhatIsStored ==
  \A filter \in Filters, limit \in Limits :
    LET found == {id \in DOMAIN products :
                    /\ filter.query \in {NoText, products[id].text}
                    /\ filter.maxPrice > 0 => products[id].price <= filter.maxPrice}
        walk == Walk(filter, limit)
        places == {at \in (DOMAIN walk) \X (1 .. limit) : at[2] \in DOMAIN walk[at[1]].items}
        Shown(at) == walk[at[1]].items[at[2]]
    IN /\ {Shown(at) : at \in places} = found
       /\ \A at, on \in places : Shown(at) = Shown(on) => at = on
       /\ \A at, on \in places : Later(at, on) => InOrder(filter.sort, Shown(at), Shown(on))
       /\ \A k \in DOMAIN walk :
            walk[k].items # <<>> => walk[k].total = Cardinality(found)
=============================================================================
