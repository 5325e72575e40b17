---------------------------- MODULE OrderTables ----------------------------
(***************************************************************************)
(* The two tables of the order module and the SQL statements               *)
(* services/orders/repository.go runs on them, as operators on table       *)
(* values.  A table is a function from the row ids in use to rows, so an   *)
(* INSERT extends its domain and a DELETE restricts it.                    *)
(*                                                                         *)
(* What a row keeps is what the properties tell apart:                     *)
(*   orders       owner    the account in user_id (Nobody for NULL)        *)
(*                status   the status column                               *)
(*                basket   the basket the stored total was computed from   *)
(*                serial   which placed order this row is: ids are reused, *)
(*                         serials are not (the phone column stands on it) *)
(*                verified whether verified_at is set                      *)
(*   order_items  order    order_id                                        *)
(*                serial   the order the writer of the line was writing    *)
(*                basket, line   which line of which basket it is          *)
(***************************************************************************)
EXTENDS Integers, Functions

CONSTANTS
  Shoppers,    \* accounts without the admin role
  Admin,       \* the account with the admin role
  Guest,       \* the unauthenticated caller (Actor{} in the source)
  Nobody,      \* the owner of a guest's order: user_id NULL
  Baskets,     \* baskets as priced by the catalogue
  LineCount    \* how many lines a basket has

ASSUME OrderTablesAssumption ==
  /\ Admin \notin Shoppers
  /\ Guest \notin Shoppers \cup {Admin}
  /\ Nobody \notin Shoppers \cup {Admin, Guest}
  /\ LineCount \in [Baskets -> Nat \ {0}]

Accounts == Shoppers \cup {Admin}
Actors == Accounts \cup {Guest}

(* The statuses of types.go, and one standing for every other string the   *)
(* body of a create may carry: no statement refuses it.                    *)
Statuses == {"pending", "confirmed", "shipped", "delivered", "cancelled"}
StoredStatuses == Statuses \cup {"unlisted"}

OrderRow == [owner : Accounts \cup {Nobody}, status : StoredStatuses,
             basket : Baskets, serial : Nat, verified : BOOLEAN]
ItemRow == [order : Nat, serial : Nat, basket : Baskets, line : Nat]

-----------------------------------------------------------------------------
(* validTransitions and isValidTransition.                                 *)
ValidTransitions ==
  {<<"pending", "confirmed">>, <<"pending", "cancelled">>,
   <<"confirmed", "shipped">>, <<"confirmed", "cancelled">>,
   <<"shipped", "delivered">>, <<"shipped", "cancelled">>}

(* Mutant: an order may be given the status it has.                        *)
MayRepeat(from, to) == from = to \/ <<from, to>> \in ValidTransitions

(* Mutant: a step of the lifecycle may be taken back.                      *)
MayGoBack(from, to) == {<<from, to>>, <<to, from>>} \cap ValidTransitions # {}

IsValidTransition(from, to) == <<from, to>> \in ValidTransitions

(* The row after UpdateStatus wrote it: a confirm also stamps verified_at. *)
Moved(row, to) ==
  [row EXCEPT !.status = to, !.verified = @ \/ to = "confirmed"]

(* Mutant: a guest's order is stored under the guest's own user id.        *)
OwnerIsCaller(actor) == actor

(* The owner of a new order: the caller's account, nobody for a guest.     *)
OwnerOf(actor) == IF actor = Guest THEN Nobody ELSE actor

(* Scope.predicate: `id = ?` for an administrator, otherwise               *)
(* `id = ? AND user_id = ?`.  A guest's scope is user 0, which no row has. *)
InScope(row, actor) == actor = Admin \/ row.owner = actor
Matches(orders, id, actor) == id \in DOMAIN orders /\ InScope(orders[id], actor)

-----------------------------------------------------------------------------
(* The id an INSERT gets from INTEGER PRIMARY KEY without AUTOINCREMENT:   *)
(* one more than the largest id in the table now, or 1 when it is empty.   *)
(* The id of a deleted last row is given out again.  A set of one element. *)
NextIds(table) ==
  {id \in {1} \cup {i + 1 : i \in DOMAIN table} : \A i \in DOMAIN table : i < id}

InsertRow(table, id, row) ==
  [i \in DOMAIN table \cup {id} |-> IF i = id THEN row ELSE table[i]]

ItemOf(id, serial, basket, line) ==
  [order |-> id, serial |-> serial, basket |-> basket, line |-> line]

(* insertItems, whole: the lines of a basket under the ids from `first`.   *)
InsertLines(items, first, id, serial, basket) ==
  [i \in DOMAIN items \cup first .. (first + LineCount[basket] - 1) |->
     IF i \in DOMAIN items THEN items[i]
     ELSE ItemOf(id, serial, basket, i - first + 1)]

LinesOf(items, id) == {i \in DOMAIN items : items[i].order = id}

(* Mutant: the lines of an order stay when it is rewritten or removed.     *)
KeepLines(items, id) == items

(* DELETE FROM order_items WHERE order_id = ?                              *)
DeleteLines(items, id) == Restrict(items, DOMAIN items \ LinesOf(items, id))

(* DELETE FROM <table> WHERE id = ?                                        *)
DeleteRow(table, id) == Restrict(table, DOMAIN table \ {id})

(* Mutant: DELETE FROM orders WHERE id = ?, trusting the earlier check.    *)
DeleteAnyHeader(orders, id, actor) ==
  IF id \in DOMAIN orders THEN DeleteRow(orders, id) ELSE orders

(* DELETE FROM orders WHERE <scope>: no row is an answer, not an error.    *)
DeleteHeader(orders, id, actor) ==
  IF Matches(orders, id, actor) THEN DeleteRow(orders, id) ELSE orders
=============================================================================
