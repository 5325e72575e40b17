---------------------------- MODULE OrdersSQLite ----------------------------
(***************************************************************************)
(* The order module on the SQLite adapter (Capabilities.AtomicTransactions *)
(* is true): a transaction of services/orders/repository.go either commits *)
(* every statement at one instant or none of them.  Each action below is   *)
(* one whole transaction, statement by statement in the order of the code. *)
(***************************************************************************)
EXTENDS Orders

(* Repository.Insert: the header, then its lines.                          *)
InsertOrder(r) ==
  LET q == req[r] IN
  /\ At(r, Inserting, "tx")
  /\ \E id \in NextIds(orders), first \in NextIds(items) :
       /\ orders' = InsertRow(orders, id,
            [owner |-> OwnerOf(q.actor), status |-> q.to, basket |-> q.basket,
             serial |-> placed + 1, verified |-> FALSE])
       /\ items' = InsertLines(items, first, id, placed + 1, q.basket)
       /\ req' = [req EXCEPT ![r].pc = "header", ![r].id = id,
                             ![r].wrote = placed + 1]
  /\ placed' = placed + 1
  /\ owed' = owed \cup (IF q.method = "Checkout"
                        THEN {[event |-> "placed", serial |-> placed + 1]} ELSE {})
  /\ UNCHANGED <<sent, dropped>>

(* Repository.Update: the header in scope (no row: rolled back, not found), *)
(* then its lines deleted, then the new ones inserted.  No column of status *)
(* or owner is written, and the status is not looked at.                    *)
ReplaceOrder(r) ==
  LET q == req[r] IN
  /\ At(r, {"Update"}, "tx")
  /\ IF Matches(orders, q.id, q.actor)
     THEN LET serial == orders[q.id].serial
              cleared == DeleteLines(items, q.id)
          IN /\ orders' = [orders EXCEPT ![q.id].basket = q.basket]
             /\ \E first \in NextIds(cleared) :
                  items' = InsertLines(cleared, first, q.id, serial, q.basket)
             /\ req' = [req EXCEPT ![r].pc = "header", ![r].wrote = serial]
     ELSE Finish(r) /\ UNCHANGED tables
  /\ UNCHANGED history

(* Repository.Delete, its transaction: the lines by order id alone, then   *)
(* the header in scope.  The ownership answer is the one FindOrder got,    *)
(* and how many headers went is not looked at.                             *)
RemoveOrder(r) ==
  /\ At(r, {"Delete"}, "tx")
  /\ items' = DeleteLines(items, req[r].id)
  /\ orders' = DeleteHeader(orders, req[r].id, req[r].actor)
  /\ Finish(r)
  /\ UNCHANGED history

(* Repository.UpdateStatus: the status read in scope, the guard, the       *)
(* status written in scope, and verified_at stamped when it is confirmed.  *)
MoveOrder(r) ==
  LET q == req[r]
      row == orders[q.id]
  IN
  /\ At(r, Moving, "tx")
  /\ IF Matches(orders, q.id, q.actor) /\ IsValidTransition(row.status, q.to)
     THEN /\ orders' = [orders EXCEPT ![q.id] = Moved(row, q.to)]
          /\ owed' = owed \cup {[event |-> q.to, serial |-> row.serial]}
          /\ req' = [req EXCEPT ![r].pc = "header", ![r].wrote = row.serial]
     ELSE Finish(r) /\ UNCHANGED <<orders, owed>>
  /\ UNCHANGED <<items, placed, sent, dropped>>

(* Mutant: the error of the commit is not looked at.                       *)
TransactionFailsUnseen(r) ==
  /\ MayFail
  /\ req[r].pc = "tx"
  /\ GoTo(r, "header")
  /\ UNCHANGED <<tables, history>>

(* A statement or the commit fails (SQLITE_BUSY with no busy_timeout, a    *)
(* product deleted since it was priced, a cancelled context) and the       *)
(* transaction is rolled back whole.                                       *)
TransactionFails(r) ==
  /\ MayFail
  /\ req[r].pc = "tx"
  /\ Finish(r)
  /\ UNCHANGED <<tables, history>>

Transaction(r) ==
  \/ InsertOrder(r)
  \/ ReplaceOrder(r)
  \/ RemoveOrder(r)
  \/ MoveOrder(r)
  \/ TransactionFails(r)

Next == Restart \/ \E r \in Requests : ServiceStep(r) \/ Transaction(r)

Spec == Init /\ [][Next]_vars

-----------------------------------------------------------------------------
TypeOK ==
  /\ DOMAIN orders \subseteq Nat \ {0}
  /\ orders \in [DOMAIN orders -> OrderRow]
  /\ DOMAIN items \subseteq Nat \ {0}
  /\ items \in [DOMAIN items -> ItemRow]
  /\ req \in [Requests -> Request]
  /\ \A r \in Requests : req[r].pc \in {"idle", "select", "tx", "header", "lines", "publish"}
  /\ placed \in Nat
  /\ owed \subseteq Event
  /\ sent \subseteq SentEvent
  /\ dropped \subseteq Event
=============================================================================
