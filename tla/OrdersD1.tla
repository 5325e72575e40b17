------------------------------ MODULE OrdersD1 ------------------------------
(***************************************************************************)
(* The order module on the D1 adapter (database/d1.go; AtomicTransactions  *)
(* is false).  Begin and Commit touch nothing, every statement of a        *)
(* transaction takes effect on its own, and other requests run between two *)
(* of them.  Rollback deletes the rows the transaction recorded as its own *)
(* INSERTs, newest first; what an UPDATE or a DELETE did stays.            *)
(*                                                                         *)
(* A statement may fail without effect (StatementFails), or take effect    *)
(* while its answer is lost: then the method sees an error too, and an     *)
(* INSERT is not recorded.  Foreign keys are enforced: no line without its *)
(* header, no header deleted under a line.                                 *)
(***************************************************************************)
EXTENDS Orders, Sequences, SequencesExt

VARIABLES
  undo,       \* d1Tx.inserts of each request: the rows Rollback deletes
  faulted,    \* history: whether a transaction was ever cut short
  overlapped  \* history: whether two requests ever ran at the same time

d1vars == <<vars, undo, faulted, overlapped>>

Insertion == [table : {"orders", "order_items"}, id : Nat]

D1Init ==
  /\ Init
  /\ undo = [r \in Requests |-> <<>>]
  /\ faulted = FALSE /\ overlapped = FALSE

(* The method returns an error: Rollback, when there is something to undo. *)
(* What the request had committed is never published.                      *)
Abort(r, inserted) ==
  /\ MayFail
  /\ faulted' = TRUE
  /\ undo' = [undo EXCEPT ![r] = inserted]
  /\ IF inserted = <<>> THEN Finish(r) ELSE GoTo(r, "undo")

Lose(r, events) ==
  /\ dropped' = dropped \cup events
  /\ Cardinality(dropped') <= MaxFaults

-----------------------------------------------------------------------------
(* Repository.Insert.                                                      *)
InsertHeader(r) ==
  LET q == req[r] IN
  /\ At(r, Inserting, "tx")
  /\ \E id \in NextIds(orders) :
       /\ orders' = InsertRow(orders, id,
            [owner |-> OwnerOf(q.actor), status |-> q.to, basket |-> q.basket,
             serial |-> placed + 1, verified |-> FALSE])
       /\ \/ /\ req' = [req EXCEPT ![r].pc = "insert", ![r].id = id,
                                   ![r].wrote = placed + 1]
             /\ undo' = [undo EXCEPT ![r] = <<[table |-> "orders", id |-> id]>>]
             /\ UNCHANGED faulted
          \/ Abort(r, <<>>)
  /\ placed' = placed + 1
  /\ UNCHANGED <<items, owed, sent, dropped>>

(* The next line of insertItems, for Insert and Update; after the last one *)
(* Commit forgets the recorded rows.                                       *)
NextLine(r) ==
  Cardinality({k \in DOMAIN undo[r] : undo[r][k].table = "order_items"}) + 1

InsertLine(r) ==
  LET q == req[r] IN
  /\ q.pc = "insert"
  /\ q.id \in DOMAIN orders
  /\ \E i \in NextIds(items) :
       /\ items' = InsertRow(items, i, ItemOf(q.id, q.wrote, q.basket, NextLine(r)))
       /\ \/ /\ NextLine(r) < LineCount[q.basket]
             /\ undo' = [undo EXCEPT ![r] =
                  Append(@, [table |-> "order_items", id |-> i])]
             /\ UNCHANGED <<req, owed, faulted>>
          \/ /\ NextLine(r) = LineCount[q.basket]
             /\ undo' = [undo EXCEPT ![r] = <<>>]
             /\ GoTo(r, "header")
             /\ UNCHANGED faulted
             /\ owed' = owed \cup (IF q.method = "Checkout"
                  THEN {[event |-> "placed", serial |-> q.wrote]} ELSE {})
          \/ Abort(r, undo[r]) /\ UNCHANGED owed
  /\ UNCHANGED <<orders, placed, sent, dropped>>

(* Repository.Update: its first two statements, the lines follow.          *)
UpdateHeader(r) ==
  LET q == req[r] IN
  /\ At(r, {"Update"}, "tx")
  /\ IF Matches(orders, q.id, q.actor)
     THEN /\ orders' = [orders EXCEPT ![q.id].basket = q.basket]
          /\ \/ /\ req' = [req EXCEPT ![r].pc = "clear",
                                      ![r].wrote = orders[q.id].serial]
                /\ UNCHANGED <<undo, faulted>>
             \/ Abort(r, <<>>)
     ELSE Finish(r) /\ UNCHANGED <<orders, undo, faulted>>
  /\ UNCHANGED <<items, history>>

ClearLines(r) ==
  /\ \/ At(r, {"Update"}, "clear")
     \/ At(r, {"Delete"}, "tx")
  /\ items' = DeleteLines(items, req[r].id)
  /\ \/ /\ GoTo(r, IF req[r].method = "Update" THEN "insert" ELSE "remove")
        /\ UNCHANGED <<undo, faulted>>
     \/ Abort(r, <<>>)
  /\ UNCHANGED <<orders, history>>

(* Repository.Delete: the header, unless a line has come back under it, in *)
(* which case the statement fails.                                         *)
RemoveHeader(r) ==
  /\ At(r, {"Delete"}, "remove")
  /\ orders' = IF LinesOf(items, req[r].id) = {}
               THEN DeleteHeader(orders, req[r].id, req[r].actor) ELSE orders
  /\ Finish(r)
  /\ UNCHANGED <<items, history, undo, faulted>>

(* Mutant: only the scope is looked at.                                    *)
ReadScopeOnly(r) ==
  LET q == req[r] IN
  /\ At(r, Moving, "tx")
  /\ IF Matches(orders, q.id, q.actor) THEN GoTo(r, "write") ELSE Finish(r)
  /\ UNCHANGED <<tables, history, undo, faulted>>

(* Repository.UpdateStatus: the status read, then written, then stamped.   *)
(* The write looks at the scope again and not at the status.               *)
ReadStatus(r) ==
  LET q == req[r] IN
  /\ At(r, Moving, "tx")
  /\ IF /\ Matches(orders, q.id, q.actor)
        /\ IsValidTransition(orders[q.id].status, q.to)
     THEN GoTo(r, "write")
     ELSE Finish(r)
  /\ UNCHANGED <<tables, history, undo, faulted>>

WriteStatus(r) ==
  LET q == req[r]
      moved == [event |-> q.to, serial |-> orders[q.id].serial]
  IN
  /\ At(r, Moving, "write")
  /\ IF Matches(orders, q.id, q.actor)
     THEN /\ orders' = [orders EXCEPT ![q.id].status = q.to]
          /\ owed' = owed \cup {moved}
          /\ \/ /\ req' = [req EXCEPT ![r].wrote = moved.serial,
                     ![r].pc = IF q.to = "confirmed" THEN "stamp" ELSE "header"]
                /\ UNCHANGED <<undo, faulted, dropped>>
             \/ Abort(r, <<>>) /\ Lose(r, {moved})
     ELSE Finish(r) /\ UNCHANGED <<orders, owed, dropped, undo, faulted>>
  /\ UNCHANGED <<items, placed, sent>>

Stamp(r) ==
  LET q == req[r] IN
  /\ At(r, Moving, "stamp")
  /\ orders' = IF Matches(orders, q.id, q.actor)
               THEN [orders EXCEPT ![q.id].verified = TRUE] ELSE orders
  /\ \/ GoTo(r, "header") /\ UNCHANGED <<undo, faulted, dropped>>
     \/ Abort(r, <<>>) /\ Lose(r, Pending(r))
  /\ UNCHANGED <<items, placed, owed, sent>>

-----------------------------------------------------------------------------
(* A statement fails without effect: refused, unreachable, or the client's *)
(* context is cancelled.                                                   *)
StatementFails(r) ==
  /\ req[r].pc \in {"tx", "insert", "clear", "remove", "write", "stamp"}
  /\ Abort(r, undo[r])
  /\ Lose(r, Pending(r))
  /\ UNCHANGED <<tables, placed, owed, sent>>

(* A line whose header is gone: the foreign key refuses it, with no fault. *)
LineRefused(r) ==
  /\ req[r].pc = "insert"
  /\ req[r].id \notin DOMAIN orders
  /\ IF undo[r] = <<>> THEN Finish(r) ELSE GoTo(r, "undo")
  /\ UNCHANGED <<tables, history, undo, faulted>>

(* One compensating delete of d1Tx.Rollback: it runs, or it fails and the  *)
(* row stays; either way the next older one follows.  A header that still  *)
(* has lines is refused by the foreign key.                                *)
Compensate(r) ==
  LET last == Last(undo[r]) IN
  /\ req[r].pc = "undo"
  /\ \/ /\ last.table = "orders"
        /\ orders' = IF LinesOf(items, last.id) = {}
                     THEN DeleteRow(orders, last.id) ELSE orders
        /\ UNCHANGED items
     \/ /\ last.table = "order_items"
        /\ items' = DeleteRow(items, last.id)
        /\ UNCHANGED orders
     \/ MayFail /\ UNCHANGED tables
  /\ undo' = [undo EXCEPT ![r] = Front(@)]
  /\ IF Len(undo[r]) = 1 THEN Finish(r) ELSE UNCHANGED req
  /\ UNCHANGED <<history, faulted>>

Statement(r) ==
  \/ InsertHeader(r)
  \/ InsertLine(r)
  \/ UpdateHeader(r)
  \/ ClearLines(r)
  \/ RemoveHeader(r)
  \/ ReadStatus(r)
  \/ WriteStatus(r)
  \/ Stamp(r)
  \/ StatementFails(r)
  \/ LineRefused(r)
  \/ Compensate(r)

D1Next ==
  /\ \/ Restart /\ undo' = [r \in Requests |-> <<>>] /\ faulted' = TRUE
     \/ \E r \in Requests : ServiceStep(r) /\ UNCHANGED <<undo, faulted>>
     \/ \E r \in Requests : Statement(r)
  /\ overlapped' = (overlapped \/ Cardinality({r \in Requests : req'[r] # Idle}) > 1)

D1Spec == D1Init /\ [][D1Next]_d1vars

-----------------------------------------------------------------------------
TypeOK ==
  /\ DOMAIN orders \subseteq Nat \ {0}
  /\ orders \in [DOMAIN orders -> OrderRow]
  /\ DOMAIN items \subseteq Nat \ {0}
  /\ items \in [DOMAIN items -> ItemRow]
  /\ \A i \in DOMAIN items : items[i].order \in DOMAIN orders
  /\ req \in [Requests -> Request]
  /\ undo \in [Requests -> Seq(Insertion)]
  /\ \A r \in Requests : req[r].pc = "undo" => undo[r] # <<>>
  /\ placed \in Nat
  /\ owed \subseteq Event
  /\ sent \subseteq SentEvent
  /\ dropped \subseteq Event

Quiet == \A r \in Requests : req[r] = Idle

(* With one request at a time and anything failing, the lines an order has *)
(* may be too few but are never of two baskets, nor of another order; and  *)
(* when nothing failed, D1's best effort is as good as a transaction:      *)
(* between requests every order has its whole basket.                      *)
LinesOfOneBasket ==
  /\ TypeOK
  /\ ~ overlapped => \A i, j \in DOMAIN items : items[i].order = items[j].order =>
       /\ items[i].basket = items[j].basket
       /\ items[i].serial = orders[items[i].order].serial
       /\ i # j => items[i].line # items[j].line
  /\ Quiet /\ ~ faulted /\ ~ overlapped =>
       AllOrNothing /\ \A id \in DOMAIN orders : LinesOf(items, id) # {}

(* And for as long as no two requests have overlapped, every order lives   *)
(* the documented lifecycle, though a compensation, a half-done delete or  *)
(* a lost answer may come in between.                                      *)
LifecycleHoldsAlone ==
  Lifecycle!Init
    /\ [][~ overlapped' => Lifecycle!Next]_[s \in Serials |-> LifeOf(s)]
=============================================================================
