------------------------------- MODULE Orders -------------------------------
(***************************************************************************)
(* The order service (services/orders/service.go) as the requests it is    *)
(* serving: each request goes through the reads, the transaction, the      *)
(* re-read and the publication its method performs, and the requests       *)
(* interleave between those steps.  This module holds the state and every  *)
(* step outside the transaction.  OrdersSQLite adds transactions that are  *)
(* one step, OrdersD1 transactions that are one step per statement.        *)
(*                                                                         *)
(* Validation (ValidateOrderInput) and pricing (priceBasket) read no order *)
(* state and write none: a request that fails them never starts here, and  *)
(* one that starts carries a priced basket.                                *)
(***************************************************************************)
EXTENDS OrderTables, FiniteSets

CONSTANTS
  Requests,      \* the requests that may be in flight at the same time
  Methods,       \* the methods of Service a run exercises
  BodyStatuses,  \* statuses a create may name ("pending" when it names none)
  MoveStatuses,  \* statuses an UpdateStatus may name
  NoBasket,      \* the basket of a request that has none
  MaxPlaced,     \* bound: orders ever placed
  MaxLineId,     \* bound: an update is accepted only below this line id
  MayFail,       \* whether statements, queries and the process may fail
  MaxFaults      \* bound: committed changes whose event a fault may cost

AllMethods == {"Create", "Checkout", "Get", "Update", "Delete", "Cancel", "UpdateStatus"}

ASSUME OrdersAssumption ==
  /\ Methods \subseteq AllMethods
  /\ BodyStatuses \subseteq StoredStatuses
  /\ MoveStatuses \subseteq Statuses
  /\ NoBasket \notin Baskets
  /\ MaxPlaced \in Nat /\ MaxLineId \in Nat /\ MaxFaults \in Nat
  /\ MayFail \in BOOLEAN

VARIABLES
  orders,   \* the table orders
  items,    \* the table order_items
  req,      \* what each request is doing
  placed,   \* history: how many orders were ever inserted
  owed,     \* history: the events committed changes owe, by order
  sent,     \* history: the events published, by order, and the phone used
  dropped   \* history: the events lost because a request failed half-way

tables == <<orders, items>>
history == <<placed, owed, sent, dropped>>
vars == <<orders, items, req, placed, owed, sent, dropped>>

(* Where a request is.  "tx" is the start of its transaction; the pcs from *)
(* "insert" on are statements of a transaction without atomicity.          *)
Pcs == {"idle", "select", "tx", "header", "lines", "publish",
        "insert", "clear", "remove", "write", "stamp", "undo"}

EventNames == {"placed", "confirmed", "shipped", "delivered", "cancelled"}
Event == [event : EventNames, serial : Nat]
SentEvent == [event : EventNames, serial : Nat, phone : Nat]

Request ==
  [method : AllMethods \cup {"none"}, pc : Pcs, actor : Actors,
   id : Nat,                        \* the order it is about, 0 if none yet
   to : StoredStatuses,             \* the status it writes
   basket : Baskets \cup {NoBasket},
   wrote : Nat,                     \* serial of the order it wrote, 0 if none
   read : Nat]                      \* serial of the header it re-read

Idle == [method |-> "none", pc |-> "idle", actor |-> Guest, id |-> 0,
         to |-> "pending", basket |-> NoBasket, wrote |-> 0, read |-> 0]

Init ==
  /\ orders = <<>>
  /\ items = <<>>
  /\ req = [r \in Requests |-> Idle]
  /\ placed = 0
  /\ owed = {}
  /\ sent = {}
  /\ dropped = {}

-----------------------------------------------------------------------------
(* Bookkeeping of a request.                                               *)
At(r, methods, pc) == req[r].method \in methods /\ req[r].pc = pc
GoTo(r, pc) == req' = [req EXCEPT ![r].pc = pc]
Finish(r) == req' = [req EXCEPT ![r] = Idle]

Inserting == {"Create", "Checkout"}
Moving == {"Cancel", "UpdateStatus"}
Publishing == {"Checkout"} \cup Moving

(* The event a method publishes when it is done: the status it wrote, or   *)
(* OrderPlaced for a checkout.  Create, Update and Delete publish nothing. *)
EventOf(q) == IF q.method = "Checkout" THEN "placed" ELSE q.to
Owes(q, e) == /\ q.method \in Publishing /\ q.wrote # 0
              /\ e = [event |-> EventOf(q), serial |-> q.wrote]
Pending(r) == {e \in owed : Owes(req[r], e)}

(* A method is called.  The id of a request is any the client may know.    *)
Accept(r, method, pc, actor, id, to, basket) ==
  /\ method \in Methods
  /\ req[r] = Idle
  /\ req' = [req EXCEPT ![r] =
       [method |-> method, pc |-> pc, actor |-> actor, id |-> id,
        to |-> to, basket |-> basket, wrote |-> 0, read |-> 0]]
  /\ UNCHANGED <<tables, history>>

(* Bound: no more inserts are accepted than MaxPlaced orders need.         *)
MayPlace ==
  placed + Cardinality({r \in Requests : req[r].method \in Inserting /\ req[r].wrote = 0})
    < MaxPlaced

Create(r) ==
  /\ MayPlace
  /\ \E actor \in Actors, b \in Baskets, s \in BodyStatuses :
       Accept(r, "Create", "tx", actor, 0, s, b)

(* A guest is refused (ErrNotPermitted).                                   *)
Checkout(r) ==
  /\ MayPlace
  /\ \E actor \in Accounts, b \in Baskets :
       Accept(r, "Checkout", "tx", actor, 0, "pending", b)

Get(r) ==
  \E actor \in Accounts, id \in 1 .. placed :
    Accept(r, "Get", "header", actor, id, "pending", NoBasket)

Update(r) ==
  /\ \A i \in DOMAIN items : i < MaxLineId
  /\ \E actor \in Accounts, id \in 1 .. placed, b \in Baskets :
       Accept(r, "Update", "tx", actor, id, "pending", b)

Delete(r) ==
  \E actor \in Accounts, id \in 1 .. placed :
    Accept(r, "Delete", "select", actor, id, "pending", NoBasket)

Cancel(r) ==
  \E actor \in Accounts, id \in 1 .. placed :
    Accept(r, "Cancel", "select", actor, id, "cancelled", NoBasket)

(* Anyone but an administrator is refused (ErrNotPermitted).               *)
UpdateStatus(r) ==
  \E id \in 1 .. placed, to \in MoveStatuses :
    Accept(r, "UpdateStatus", "tx", Admin, id, to, NoBasket)

Start(r) ==
  Create(r) \/ Checkout(r) \/ Get(r) \/ Update(r) \/ Delete(r) \/ Cancel(r)
    \/ UpdateStatus(r)

-----------------------------------------------------------------------------
(* Repository.Delete looks for the order in scope before its transaction.  *)
FindOrder(r) ==
  /\ At(r, {"Delete"}, "select")
  /\ IF Matches(orders, req[r].id, req[r].actor) THEN GoTo(r, "tx") ELSE Finish(r)
  /\ UNCHANGED <<tables, history>>

(* Service.Cancel reads the order and refuses one that is not pending.     *)
FindPending(r) ==
  /\ At(r, {"Cancel"}, "select")
  /\ IF /\ Matches(orders, req[r].id, req[r].actor)
        /\ orders[req[r].id].status = "pending"
     THEN GoTo(r, "tx")
     ELSE Finish(r)
  /\ UNCHANGED <<tables, history>>

(* Repository.Get, its first query: the header in scope.  Insert re-reads  *)
(* with AnyOrder, every other method with the scope of its actor.          *)
ReadScope(q) == IF q.method \in Inserting THEN Admin ELSE q.actor

(* Mutant: the re-read after a write asks for the status it wrote.         *)
ReadHeaderIfStill(r) ==
  /\ req[r].pc = "header"
  /\ IF /\ Matches(orders, req[r].id, ReadScope(req[r]))
        /\ orders[req[r].id].status = req[r].to
     THEN req' = [req EXCEPT ![r].pc = "lines",
                             ![r].read = orders[req[r].id].serial]
     ELSE Finish(r)
  /\ UNCHANGED <<tables, history>>

ReadHeader(r) ==
  /\ req[r].pc = "header"
  /\ IF Matches(orders, req[r].id, ReadScope(req[r]))
     THEN req' = [req EXCEPT ![r].pc = "lines",
                             ![r].read = orders[req[r].id].serial]
     ELSE Finish(r)
  /\ UNCHANGED <<tables, history>>

(* Mutant: Cancel returns its answer without publishing.                   *)
ReadLinesQuietly(r) ==
  /\ req[r].pc = "lines"
  /\ IF req[r].method \in Publishing \ {"Cancel"} THEN GoTo(r, "publish") ELSE Finish(r)
  /\ UNCHANGED <<tables, history>>

(* Its second query: the lines, by order id alone.  The answer is the      *)
(* header read before with the lines read now.                             *)
ReadLines(r) ==
  /\ req[r].pc = "lines"
  /\ IF req[r].method \in Publishing THEN GoTo(r, "publish") ELSE Finish(r)
  /\ UNCHANGED <<tables, history>>

(* publishOrderEvent.  A checkout names the shopper's own phone, the other *)
(* methods the phone of the row they re-read.                              *)
PhoneOf(q) == IF q.method = "Checkout" THEN q.wrote ELSE q.read

Publish(r) ==
  /\ req[r].pc = "publish"
  /\ sent' = sent \cup {[event |-> EventOf(req[r]), serial |-> req[r].wrote,
                         phone |-> PhoneOf(req[r])]}
  /\ Finish(r)
  /\ UNCHANGED <<tables, placed, owed, dropped>>

-----------------------------------------------------------------------------
(* Faults.  A query outside the transaction fails (the database refuses    *)
(* it, or the client went away and its context is cancelled): the method   *)
(* returns the error, and the event of a change already committed is lost. *)
ReadFails(r) ==
  /\ MayFail
  /\ req[r].pc \in {"select", "header", "lines"}
  /\ dropped' = dropped \cup Pending(r)
  /\ Cardinality(dropped') <= MaxFaults
  /\ Finish(r)
  /\ UNCHANGED <<tables, placed, owed, sent>>

(* The process stops and starts again: every request is gone.              *)
Restart ==
  /\ MayFail
  /\ \E r \in Requests : req[r] # Idle
  /\ dropped' = dropped \cup UNION {Pending(r) : r \in Requests}
  /\ Cardinality(dropped') <= MaxFaults
  /\ req' = [r \in Requests |-> Idle]
  /\ UNCHANGED <<tables, placed, owed, sent>>

(* Every step of a request outside its transaction.                        *)
ServiceStep(r) ==
  \/ Start(r)
  \/ FindOrder(r)
  \/ FindPending(r)
  \/ ReadHeader(r)
  \/ ReadLines(r)
  \/ Publish(r)
  \/ ReadFails(r)

-----------------------------------------------------------------------------
(* Properties both adapters are asked about. *)

Live(serial) == \E id \in DOMAIN orders : orders[id].serial = serial

(* The lines of an order are exactly the lines of the basket its total was *)
(* computed from, in order, or there are none at all: never a part of a    *)
(* basket, a mix of two, or a line written for another order that had the  *)
(* same id.  Insert, Update and Delete of the repository are about this.   *)
WholeBasket(id) ==
  \E first \in DOMAIN items :
    /\ LinesOf(items, id) = first .. first + LineCount[orders[id].basket] - 1
    /\ \A i \in LinesOf(items, id) :
         items[i] = ItemOf(id, orders[id].serial, orders[id].basket, i - first + 1)

AllOrNothing ==
  /\ \A id \in DOMAIN orders : LinesOf(items, id) = {} \/ WholeBasket(id)
  /\ \A i \in DOMAIN items : items[i].order \in DOMAIN orders

(* A committed change of an order that still exists is published, to the   *)
(* phone of that order, unless a fault hit the request that made it: it is *)
(* sent, or lost to a fault, or its request is still on the way.  Cancel,  *)
(* UpdateStatus and Checkout publish after a re-read that other requests   *)
(* may get in front of.                                                    *)
NoEventForgotten ==
  \A e \in owed :
    \/ ~ Live(e.serial)
    \/ e \in dropped
    \/ [event |-> e.event, serial |-> e.serial, phone |-> e.serial] \in sent
    \/ \E r \in Requests : Owes(req[r], e)

(* No event is published for a change that was not committed.              *)
NoPhantomEvent ==
  \A m \in sent : [event |-> m.event, serial |-> m.serial] \in owed

(* No two requests publish the same event about the same order, so a       *)
(* customer is not told twice of one change.                               *)
NoDuplicateEvent ==
  [][\A r \in Requests : Publish(r) =>
       ~ \E m \in sent : m.event = EventOf(req[r]) /\ m.serial = req[r].wrote]_vars

(* verified_at is set on exactly the orders UpdateStatus has confirmed.    *)
VerifiedIffConfirmed ==
  \A id \in DOMAIN orders :
    orders[id].verified <=> [event |-> "confirmed", serial |-> orders[id].serial] \in owed

(* A header changes or goes only in a step of a request whose actor the    *)
(* order is in scope of at that instant, however old the answer its        *)
(* ownership check got.                                                    *)
HeadersAnswerToScope ==
  [][\A id \in DOMAIN orders :
       (id \in DOMAIN orders' => orders'[id] # orders[id])
         => \E r \in Requests : req'[r] # req[r] /\ InScope(orders[id], req[r].actor)]_vars

(* A status changes only along validTransitions.                           *)
StatusStepsLegal ==
  [][\A id \in DOMAIN orders \cap DOMAIN orders' :
       (orders'[id].serial = orders[id].serial /\ orders'[id].status # orders[id].status)
         => IsValidTransition(orders[id].status, orders'[id].status)]_vars

(* The life of the orders as OrderLifecycle sees it: by serial, so that an *)
(* id given out again is another order.                                    *)
Serials == 1 .. MaxPlaced

LifeOf(serial) ==
  IF Live(serial)
  THEN orders[CHOOSE id \in DOMAIN orders : orders[id].serial = serial].status
  ELSE IF serial <= placed THEN "removed" ELSE "unplaced"

Lifecycle == INSTANCE OrderLifecycle
               WITH Orders <- Serials, life <- [s \in Serials |-> LifeOf(s)]

(* Every order lives the documented lifecycle, whatever requests race: it  *)
(* is placed once, moves along validTransitions, stays where it is final,  *)
(* and once removed does not come back under its old or another id.        *)
LifecycleHolds == Lifecycle!Spec

-----------------------------------------------------------------------------
(* What the source's comments and documents say of these methods. *)

(* Service.Cancel: "Cancel cancels a pending order the Actor owns", and    *)
(* "only pending orders can be cancelled".                                 *)
CancelsOnlyPending ==
  [][\A r \in Requests :
       (req[r].method = "Cancel" /\ req[r].wrote = 0 /\ req'[r].wrote # 0)
         => orders[req[r].id].status = "pending"]_vars

(* Repository.Delete confirms the scope before it removes anything, so     *)
(* that a delete cannot destroy the lines of another account's order: an   *)
(* order that has been placed keeps its lines for as long as it exists.    *)
OrdersKeepTheirLines ==
  \A id \in DOMAIN orders : LinesOf(items, id) # {}
=============================================================================
