------------------------- MODULE OrdersSQLiteProofs -------------------------
(***************************************************************************)
(* Theorems about the order module on SQLite, for any number of requests,  *)
(* readers, orders, accounts and baskets, though ids are given out again:  *)
(*   types      and that no event is of a change that was not committed    *)
(*   lines      an order has its own basket's lines                        *)
(*   headers    verified_at tells the truth, only requests in scope write  *)
(*              a header, and an order lives the lifecycle of              *)
(*              OrderLifecycle                                             *)
(*   events     the event of a committed change is published, once         *)
(*   documents  answers and invoices read beside the writers are of one    *)
(*              order each                                                 *)
(* Each part says where it begins what its inductive invariant adds.       *)
(***************************************************************************)
EXTENDS OrderDocuments, OrderTablesProofs, FiniteSetTheorems, SequenceTheorems

SQLitePcs == {"idle", "select", "tx", "header", "lines", "publish"}

LEMMA IdleIsRequest == Idle \in Request /\ Idle.pc \in SQLitePcs
BY DEF Idle, Request, AllMethods, Pcs, Actors, StoredStatuses, Statuses, SQLitePcs

(* A step of one request leaves a well-typed function of requests.         *)
LEMMA RequestUpdate ==
  ASSUME TypeOK, NEW r \in Requests, NEW q \in Request, q.pc \in SQLitePcs,
         req' = [req EXCEPT ![r] = q]
  PROVE  /\ req' \in [Requests -> Request]
         /\ \A s \in Requests : req'[s].pc \in SQLitePcs
BY DEF TypeOK, SQLitePcs

LEMMA FinishType ==
  ASSUME TypeOK, NEW r \in Requests, Finish(r)
  PROVE  /\ req' \in [Requests -> Request]
         /\ \A s \in Requests : req'[s].pc \in SQLitePcs
BY RequestUpdate, IdleIsRequest DEF Finish

LEMMA GoToType ==
  ASSUME TypeOK, NEW r \in Requests, NEW pc \in SQLitePcs, GoTo(r, pc)
  PROVE  /\ req' \in [Requests -> Request]
         /\ \A s \in Requests : req'[s].pc \in SQLitePcs
<1>1. [req[r] EXCEPT !.pc = pc] \in Request
  BY DEF TypeOK, Request, SQLitePcs, Pcs
<1>2. [req[r] EXCEPT !.pc = pc].pc = pc
  BY DEF TypeOK, Request
<1>3. req' = [req EXCEPT ![r] = [req[r] EXCEPT !.pc = pc]]
  BY DEF GoTo, TypeOK
<1> QED
  BY <1>1, <1>2, <1>3, RequestUpdate

LEMMA AcceptType ==
  ASSUME TypeOK, NEW r \in Requests, NEW method \in AllMethods, NEW pc \in SQLitePcs,
         NEW actor \in Actors, NEW id \in Nat, NEW to \in StoredStatuses,
         NEW basket \in Baskets \cup {NoBasket},
         Accept(r, method, pc, actor, id, to, basket)
  PROVE  TypeOK'
<1> DEFINE q == [method |-> method, pc |-> pc, actor |-> actor, id |-> id,
                 to |-> to, basket |-> basket, wrote |-> 0, read |-> 0]
<1>1. q \in Request /\ q.pc \in SQLitePcs
  BY DEF Request, Pcs, SQLitePcs
<1>2. req' = [req EXCEPT ![r] = q]
  BY DEF Accept
<1> HIDE DEF q
<1>3. req' \in [Requests -> Request] /\ \A s \in Requests : req'[s].pc \in SQLitePcs
  BY <1>1, <1>2, RequestUpdate
<1> QED
  BY <1>3 DEF Accept, TypeOK, tables, history, SQLitePcs

LEMMA StartType ==
  ASSUME TypeOK, NEW r \in Requests, Start(r)
  PROVE  TypeOK'
<1>0. /\ Accounts \subseteq Actors
      /\ \A id \in 1 .. placed : id \in Nat
      /\ {"pending", "cancelled"} \subseteq StoredStatuses
      /\ BodyStatuses \subseteq StoredStatuses /\ Statuses \subseteq StoredStatuses
      /\ Admin \in Actors
      /\ {"tx", "header", "select"} \subseteq SQLitePcs
      /\ {"Create", "Checkout", "Get", "Update", "Delete", "Cancel", "UpdateStatus"}
           \subseteq AllMethods
      /\ 0 \in Nat
  BY OrdersAssumption
     DEF Actors, Accounts, TypeOK, StoredStatuses, Statuses, SQLitePcs, AllMethods
<1>1. CASE Create(r)
  BY <1>0, <1>1, AcceptType DEF Create
<1>2. CASE Checkout(r)
  BY <1>0, <1>2, AcceptType DEF Checkout
<1>3. CASE Get(r)
  BY <1>0, <1>3, AcceptType DEF Get
<1>4. CASE Update(r)
  BY <1>0, <1>4, AcceptType DEF Update
<1>5. CASE Delete(r)
  BY <1>0, <1>5, AcceptType DEF Delete
<1>6. CASE Cancel(r)
  BY <1>0, <1>6, AcceptType DEF Cancel
<1>7. CASE UpdateStatus(r)
  BY <1>0, <1>7, AcceptType, OrdersAssumption DEF UpdateStatus
<1> QED
  BY <1>1, <1>2, <1>3, <1>4, <1>5, <1>6, <1>7 DEF Start

-----------------------------------------------------------------------------
(* The transactions, one at a time: what each does to the tables.          *)

LEMMA ItemsAreTable == TypeOK => IsItemTable(items) /\ IsTable(orders)
BY DEF TypeOK, IsItemTable, IsTable

LEMMA OwnerIsTyped == \A actor \in Actors : OwnerOf(actor) \in Accounts \cup {Nobody}
BY DEF OwnerOf, Actors, Accounts

(* What TypeOK does not say of a request and the next step relies on: one  *)
(* that writes a basket has one, and one on its way to publish an event    *)
(* has a committed change to publish it for.                               *)
HasBasket(q) == q.method \in {"Create", "Checkout", "Update"} => q.basket \in Baskets

MayTell(q, changes) ==
  /\ q.pc = "publish" => q.method \in Publishing
  /\ q.pc \in {"header", "lines", "publish"} /\ q.method \in Publishing
       => [event |-> EventOf(q), serial |-> q.wrote] \in changes

RequestsSound == \A r \in Requests : HasBasket(req[r]) /\ MayTell(req[r], owed)

(* The inductive invariant.                                                *)
IInv == TypeOK /\ RequestsSound /\ NoPhantomEvent

LEMMA InsertOrderType ==
  ASSUME TypeOK, RequestsSound, NEW r \in Requests, InsertOrder(r)
  PROVE  TypeOK'
<1> DEFINE q == req[r]
<1>0. /\ q \in Request /\ q.method \in {"Create", "Checkout"} /\ q.basket \in Baskets
      /\ placed + 1 \in Nat
  BY DEF TypeOK, InsertOrder, RequestsSound, HasBasket, At, Inserting
<1>1. PICK id \in NextIds(orders), first \in NextIds(items) :
        /\ orders' = InsertRow(orders, id,
             [owner |-> OwnerOf(q.actor), status |-> q.to, basket |-> q.basket,
              serial |-> placed + 1, verified |-> FALSE])
        /\ items' = InsertLines(items, first, id, placed + 1, q.basket)
        /\ req' = [req EXCEPT ![r].pc = "header", ![r].id = id,
                              ![r].wrote = placed + 1]
  BY DEF InsertOrder
<1>2. id \in Nat \ {0} /\ id \notin DOMAIN orders
  BY NextIdIsFresh, ItemsAreTable DEF IsTable
<1>3. DOMAIN orders' \subseteq Nat \ {0} /\ orders' \in [DOMAIN orders' -> OrderRow]
  <2> DEFINE row == [owner |-> OwnerOf(q.actor), status |-> q.to, basket |-> q.basket,
                     serial |-> placed + 1, verified |-> FALSE]
  <2>1. row \in OrderRow
    BY <1>0, OwnerIsTyped DEF OrderRow, Request
  <2> HIDE DEF row
  <2>2. orders' = InsertRow(orders, id, row)
    BY <1>1 DEF row
  <2> QED
    BY <1>2, <2>1, <2>2 DEF InsertRow, TypeOK
<1>4. DOMAIN items' \subseteq Nat \ {0} /\ items' \in [DOMAIN items' -> ItemRow]
  <2>1. IsItemTable(items')
    BY <1>0, <1>1, <1>2, InsertLinesShape, ItemsAreTable, OrderTablesAssumption
  <2> QED
    BY <2>1 DEF IsItemTable, IsTable
<1>5. req' \in [Requests -> Request] /\ \A s \in Requests : req'[s].pc \in SQLitePcs
  <2> DEFINE n == [q EXCEPT !.pc = "header", !.id = id, !.wrote = placed + 1]
  <2>1. n \in Request /\ n.pc = "header"
    BY <1>0, <1>2 DEF Request, Pcs
  <2>2. req' = [req EXCEPT ![r] = n]
    BY <1>1 DEF TypeOK
  <2> HIDE DEF n
  <2> QED
    BY <2>1, <2>2, RequestUpdate DEF SQLitePcs
<1>6. owed' \subseteq Event /\ placed' \in Nat /\ sent' = sent /\ dropped' = dropped
  BY <1>0 DEF InsertOrder, TypeOK, Event, EventNames
<1> QED
  BY <1>3, <1>4, <1>5, <1>6 DEF TypeOK, SQLitePcs

LEMMA ReplaceOrderType ==
  ASSUME TypeOK, RequestsSound, NEW r \in Requests, ReplaceOrder(r)
  PROVE  TypeOK'
<1> DEFINE q == req[r]
<1>0. q \in Request /\ q.method = "Update" /\ q.basket \in Baskets
  BY DEF TypeOK, ReplaceOrder, RequestsSound, HasBasket, At
<1>1. CASE Matches(orders, q.id, q.actor)
  <2> DEFINE cleared == DeleteLines(items, q.id)
  <2>1. q.id \in DOMAIN orders /\ orders[q.id] \in OrderRow /\ orders[q.id].serial \in Nat
    BY <1>1 DEF Matches, TypeOK, OrderRow
  <2>2. orders' \in [DOMAIN orders -> OrderRow] /\ DOMAIN orders' = DOMAIN orders
    BY <1>0, <1>1, <2>1 DEF ReplaceOrder, TypeOK, OrderRow
  <2>3. IsItemTable(items')
    <3>1. IsItemTable(cleared)
      BY DeleteLinesShape, ItemsAreTable
    <3>2. PICK first \in NextIds(cleared) :
            items' = InsertLines(cleared, first, q.id, orders[q.id].serial, q.basket)
      BY <1>1 DEF ReplaceOrder
    <3>3. q.id \in Nat /\ orders[q.id].serial \in Nat /\ q.basket \in Baskets
      BY <1>0, <2>1 DEF Request
    <3> HIDE DEF cleared, q
    <3>4. IsItemTable(InsertLines(cleared, first, q.id, orders[q.id].serial, q.basket))
      BY <3>1, <3>3, InsertLinesShape, OrderTablesAssumption
    <3> QED
      BY <3>2, <3>4
  <2>4. req' \in [Requests -> Request] /\ \A s \in Requests : req'[s].pc \in SQLitePcs
    <3> DEFINE n == [q EXCEPT !.pc = "header", !.wrote = orders[q.id].serial]
    <3>1. n \in Request /\ n.pc = "header"
      BY <1>0, <2>1 DEF Request, Pcs
    <3>2. req' = [req EXCEPT ![r] = n]
      BY <1>1 DEF TypeOK, ReplaceOrder
    <3> HIDE DEF n
    <3> QED
      BY <3>1, <3>2, RequestUpdate DEF SQLitePcs
  <2> QED
    BY <2>2, <2>3, <2>4 DEF TypeOK, SQLitePcs, IsItemTable, IsTable, ReplaceOrder, history
<1>2. CASE ~ Matches(orders, q.id, q.actor)
  <2>1. Finish(r) /\ UNCHANGED <<orders, items, history>>
    BY <1>2 DEF ReplaceOrder, tables
  <2> QED
    BY <2>1, FinishType DEF TypeOK, history, SQLitePcs
<1> QED
  BY <1>1, <1>2

LEMMA RemoveOrderType ==
  ASSUME TypeOK, NEW r \in Requests, RemoveOrder(r)
  PROVE  TypeOK'
<1>1. IsItemTable(items')
  BY DeleteLinesShape, ItemsAreTable DEF RemoveOrder
<1>2. DOMAIN orders' \subseteq Nat \ {0} /\ orders' \in [DOMAIN orders' -> OrderRow]
  BY DEF RemoveOrder, DeleteHeader, DeleteRow, Restrict, TypeOK
<1> QED
  BY <1>1, <1>2, FinishType
     DEF TypeOK, IsItemTable, IsTable, RemoveOrder, history, SQLitePcs

LEMMA MoveOrderType ==
  ASSUME TypeOK, NEW r \in Requests, MoveOrder(r)
  PROVE  TypeOK'
<1> DEFINE q == req[r]
           row == orders[q.id]
<1>0. q \in Request
  BY DEF TypeOK
<1>1. CASE Matches(orders, q.id, q.actor) /\ IsValidTransition(row.status, q.to)
  <2>1. q.id \in DOMAIN orders /\ row \in OrderRow /\ row.serial \in Nat
    BY <1>1 DEF Matches, TypeOK, OrderRow
  <2>2. q.to \in EventNames
    BY <1>1 DEF IsValidTransition, ValidTransitions, EventNames
  <2>3. orders' \in [DOMAIN orders -> OrderRow] /\ DOMAIN orders' = DOMAIN orders
    <3> DEFINE n == Moved(row, q.to)
    <3>1. (row.verified \/ q.to = "confirmed") \in BOOLEAN
      BY <2>1 DEF OrderRow
    <3>2. n \in OrderRow
      BY <1>0, <2>1, <3>1 DEF OrderRow, Request, Moved
    <3>3. orders' = [orders EXCEPT ![q.id] = n]
      BY <1>1 DEF MoveOrder
    <3> HIDE DEF n
    <3> QED
      BY <3>2, <3>3 DEF TypeOK
  <2>4. owed' \subseteq Event
    BY <1>1, <2>1, <2>2 DEF MoveOrder, TypeOK, Event
  <2>5. req' \in [Requests -> Request] /\ \A s \in Requests : req'[s].pc \in SQLitePcs
    <3> DEFINE n == [q EXCEPT !.pc = "header", !.wrote = row.serial]
    <3>1. n \in Request /\ n.pc = "header"
      BY <1>0, <2>1 DEF Request, Pcs
    <3>2. req' = [req EXCEPT ![r] = n]
      BY <1>1 DEF TypeOK, MoveOrder
    <3> HIDE DEF n
    <3> QED
      BY <3>1, <3>2, RequestUpdate DEF SQLitePcs
  <2> QED
    BY <2>3, <2>4, <2>5 DEF TypeOK, SQLitePcs, MoveOrder
<1>2. CASE ~ (Matches(orders, q.id, q.actor) /\ IsValidTransition(row.status, q.to))
  <2>1. Finish(r) /\ UNCHANGED <<orders, items, placed, owed, sent, dropped>>
    BY <1>2 DEF MoveOrder
  <2> QED
    BY <2>1, FinishType DEF TypeOK, SQLitePcs
<1> QED
  BY <1>1, <1>2

-----------------------------------------------------------------------------
(* The steps outside the transactions.                                     *)

LEMMA PendingIsOwed == \A r \in Requests : Pending(r) \subseteq owed
BY DEF Pending

LEMMA ServiceStepType ==
  ASSUME TypeOK, RequestsSound, NEW r \in Requests, ServiceStep(r)
  PROVE  TypeOK'
<1>0. {"tx", "publish"} \subseteq SQLitePcs
  BY DEF SQLitePcs
<1>1. CASE Start(r)
  BY <1>1, StartType
<1>2. CASE FindOrder(r) \/ FindPending(r) \/ ReadLines(r)
  <2>1. Finish(r) \/ GoTo(r, "tx") \/ GoTo(r, "publish")
    BY <1>2 DEF FindOrder, FindPending, ReadLines
  <2>2. UNCHANGED <<orders, items, placed, owed, sent, dropped>>
    BY <1>2 DEF FindOrder, FindPending, ReadLines, tables, history
  <2>3. req' \in [Requests -> Request] /\ \A s \in Requests : req'[s].pc \in SQLitePcs
    BY <1>0, <2>1, FinishType, GoToType
  <2> QED
    BY <2>2, <2>3 DEF TypeOK, SQLitePcs
<1>3. CASE ReadHeader(r)
  <2>1. UNCHANGED <<orders, items, placed, owed, sent, dropped>>
    BY <1>3 DEF ReadHeader, tables, history
  <2>2. CASE Matches(orders, req[r].id, ReadScope(req[r]))
    <3> DEFINE n == [req[r] EXCEPT !.pc = "lines", !.read = orders[req[r].id].serial]
    <3>1. orders[req[r].id].serial \in Nat
      BY <2>2 DEF Matches, TypeOK, OrderRow
    <3>2. n \in Request /\ n.pc = "lines"
      <4>1. req[r] \in Request
        BY DEF TypeOK
      <4>2. PICK q : q = req[r]
        OBVIOUS
      <4>3. PICK serial : serial = orders[req[r].id].serial
        OBVIOUS
      <4>4. [q EXCEPT !.pc = "lines", !.read = serial] \in Request
        BY <3>1, <4>1, <4>2, <4>3 DEF Request, Pcs
      <4>5. [q EXCEPT !.pc = "lines", !.read = serial].pc = "lines"
        BY <4>1, <4>2 DEF Request
      <4> QED
        BY <4>2, <4>3, <4>4, <4>5
    <3>3. req' = [req EXCEPT ![r] = n]
      BY <1>3, <2>2 DEF ReadHeader, TypeOK
    <3> HIDE DEF n
    <3>4. req' \in [Requests -> Request] /\ \A s \in Requests : req'[s].pc \in SQLitePcs
      BY <3>2, <3>3, RequestUpdate DEF SQLitePcs
    <3> QED
      BY <2>1, <3>4 DEF TypeOK, SQLitePcs
  <2>3. CASE ~ Matches(orders, req[r].id, ReadScope(req[r]))
    <3>1. Finish(r)
      BY <1>3, <2>3 DEF ReadHeader
    <3> QED
      BY <2>1, <3>1, FinishType DEF TypeOK, SQLitePcs
  <2> QED
    BY <2>2, <2>3
<1>4. CASE Publish(r)
  <2> DEFINE m == [event |-> EventOf(req[r]), serial |-> req[r].wrote,
                   phone |-> PhoneOf(req[r])]
  <2>1. [event |-> EventOf(req[r]), serial |-> req[r].wrote] \in Event
    BY <1>4 DEF Publish, RequestsSound, MayTell, TypeOK
  <2>2. EventOf(req[r]) \in EventNames
    BY <2>1 DEF Event
  <2>3. req[r].wrote \in Nat /\ PhoneOf(req[r]) \in Nat
    BY DEF TypeOK, Request, PhoneOf
  <2>4. m \in SentEvent
    BY <2>2, <2>3 DEF SentEvent
  <2>5. sent' = sent \cup {m} /\ Finish(r)
        /\ UNCHANGED <<orders, items, placed, owed, dropped>>
    BY <1>4 DEF Publish, tables
  <2> HIDE DEF m
  <2> QED
    BY <2>4, <2>5, FinishType DEF TypeOK, SQLitePcs
<1>5. CASE ReadFails(r)
  <2>1. Finish(r) /\ UNCHANGED <<orders, items, placed, owed, sent>>
    BY <1>5 DEF ReadFails, tables
  <2>2. dropped' \subseteq Event
    BY <1>5, PendingIsOwed DEF ReadFails, TypeOK
  <2> QED
    BY <2>1, <2>2, FinishType DEF TypeOK, SQLitePcs
<1> QED
  BY <1>1, <1>2, <1>3, <1>4, <1>5 DEF ServiceStep

LEMMA RestartType ==
  ASSUME TypeOK, Restart
  PROVE  TypeOK'
<1>1. req' \in [Requests -> Request] /\ \A s \in Requests : req'[s].pc \in SQLitePcs
  BY IdleIsRequest DEF Restart
<1>2. dropped' \subseteq Event
  BY PendingIsOwed DEF Restart, TypeOK
<1> QED
  BY <1>1, <1>2 DEF Restart, TypeOK, tables, SQLitePcs

-----------------------------------------------------------------------------
(* No step leaves a request without its basket or its committed change.    *)

LEMMA SoundUpdate ==
  ASSUME TypeOK, RequestsSound, NEW r \in Requests, NEW n, owed \subseteq owed',
         HasBasket(n), MayTell(n, owed'), req' = [req EXCEPT ![r] = n]
  PROVE  RequestsSound'
<1> SUFFICES ASSUME NEW s \in Requests
             PROVE  HasBasket(req'[s]) /\ MayTell(req'[s], owed')
  BY DEF RequestsSound
<1>1. CASE s = r
  BY <1>1 DEF TypeOK
<1>2. CASE s # r
  <2>1. req'[s] = req[s]
    BY <1>2 DEF TypeOK
  <2>2. HasBasket(req[s]) /\ MayTell(req[s], owed)
    BY DEF RequestsSound
  <2> QED
    BY <2>1, <2>2 DEF MayTell
<1> QED
  BY <1>1, <1>2

LEMMA IdleIsSound == \A changes : HasBasket(Idle) /\ MayTell(Idle, changes)
BY DEF HasBasket, MayTell, Idle

LEMMA FinishSound ==
  ASSUME TypeOK, RequestsSound, NEW r \in Requests, Finish(r), owed \subseteq owed'
  PROVE  RequestsSound'
BY SoundUpdate, IdleIsSound DEF Finish

(* A request that moves on with everything else as it was stays sound, if  *)
(* the pc it moves to is one its method may be at.                         *)
LEMMA MoveOnSound ==
  ASSUME TypeOK, RequestsSound, NEW r \in Requests, NEW pc, NEW n, owed' = owed,
         n.pc = pc, n.method = req[r].method, n.to = req[r].to,
         n.basket = req[r].basket, n.wrote = req[r].wrote,
         req' = [req EXCEPT ![r] = n],
         \/ pc = "tx"
         \/ req[r].pc \in {"header", "lines"} /\ pc = "lines"
         \/ req[r].pc = "lines" /\ pc = "publish" /\ req[r].method \in Publishing
  PROVE  RequestsSound'
<1>1. HasBasket(req[r]) /\ MayTell(req[r], owed)
  BY DEF RequestsSound
<1>2. HasBasket(n)
  BY <1>1 DEF HasBasket
<1>3. EventOf(n) = EventOf(req[r])
  BY DEF EventOf
<1>4. MayTell(n, owed')
  BY <1>1, <1>3 DEF MayTell
<1> QED
  BY <1>2, <1>4, SoundUpdate

LEMMA AcceptSound ==
  ASSUME TypeOK, RequestsSound, NEW r \in Requests,
         NEW method, NEW pc, NEW actor, NEW id, NEW to, NEW basket,
         method \in {"Create", "Checkout", "Update"} => basket \in Baskets,
         pc \in {"tx", "select"} \/ (pc = "header" /\ method = "Get"),
         Accept(r, method, pc, actor, id, to, basket)
  PROVE  RequestsSound'
<1> DEFINE n == [method |-> method, pc |-> pc, actor |-> actor, id |-> id,
                 to |-> to, basket |-> basket, wrote |-> 0, read |-> 0]
<1>1. req' = [req EXCEPT ![r] = n] /\ owed' = owed
  BY DEF Accept, history
<1>2. n.method = method /\ n.pc = pc /\ n.basket = basket
  OBVIOUS
<1> HIDE DEF n
<1>3. HasBasket(n) /\ MayTell(n, owed')
  BY <1>2 DEF HasBasket, MayTell, Publishing, Moving
<1> QED
  BY <1>1, <1>3, SoundUpdate

LEMMA StartSound ==
  ASSUME TypeOK, RequestsSound, NEW r \in Requests, Start(r)
  PROVE  RequestsSound'
<1>1. CASE Create(r)
  BY <1>1, AcceptSound DEF Create
<1>2. CASE Checkout(r)
  BY <1>2, AcceptSound DEF Checkout
<1>3. CASE Get(r)
  BY <1>3, AcceptSound DEF Get
<1>4. CASE Update(r)
  BY <1>4, AcceptSound DEF Update
<1>5. CASE Delete(r)
  BY <1>5, AcceptSound DEF Delete
<1>6. CASE Cancel(r)
  BY <1>6, AcceptSound DEF Cancel
<1>7. CASE UpdateStatus(r)
  BY <1>7, AcceptSound, OrdersAssumption DEF UpdateStatus
<1> QED
  BY <1>1, <1>2, <1>3, <1>4, <1>5, <1>6, <1>7 DEF Start

LEMMA ServiceStepSound ==
  ASSUME TypeOK, RequestsSound, NEW r \in Requests, ServiceStep(r)
  PROVE  RequestsSound'
<1>0. req[r] \in Request
  BY DEF TypeOK
<1>1. CASE Start(r)
  BY <1>1, StartSound
<1>2. CASE Finish(r) /\ owed' = owed
  BY <1>2, FinishSound
<1>3. CASE (FindOrder(r) \/ FindPending(r) \/ ReadLines(r)) /\ ~ Finish(r)
  <2>1. PICK pc \in {"tx", "publish"} :
          /\ req' = [req EXCEPT ![r].pc = pc]
          /\ owed' = owed
          /\ pc = "publish" => req[r].pc = "lines" /\ req[r].method \in Publishing
    BY <1>3 DEF FindOrder, FindPending, ReadLines, GoTo, history
  <2> DEFINE n == [req[r] EXCEPT !.pc = pc]
  <2>2. req' = [req EXCEPT ![r] = n]
    BY <2>1 DEF TypeOK
  <2>3. /\ n.pc = pc /\ n.method = req[r].method /\ n.to = req[r].to
        /\ n.basket = req[r].basket /\ n.wrote = req[r].wrote
    BY <1>0 DEF Request
  <2> HIDE DEF n
  <2> QED
    BY <2>1, <2>2, <2>3, MoveOnSound
<1>4. CASE ReadHeader(r) /\ ~ Finish(r)
  <2> DEFINE n == [req[r] EXCEPT !.pc = "lines", !.read = orders[req[r].id].serial]
  <2>1. req' = [req EXCEPT ![r] = n] /\ owed' = owed /\ req[r].pc = "header"
    BY <1>4 DEF ReadHeader, history, TypeOK
  <2>2. /\ n.pc = "lines" /\ n.method = req[r].method /\ n.to = req[r].to
        /\ n.basket = req[r].basket /\ n.wrote = req[r].wrote
    BY <1>0 DEF Request
  <2> HIDE DEF n
  <2> QED
    BY <2>1, <2>2, MoveOnSound
<1>5. Publish(r) \/ ReadFails(r) => Finish(r) /\ owed' = owed
  BY DEF Publish, ReadFails
<1>6. FindOrder(r) \/ FindPending(r) \/ ReadLines(r) \/ ReadHeader(r) => owed' = owed
  BY DEF FindOrder, FindPending, ReadLines, ReadHeader, history
<1> QED
  BY <1>1, <1>2, <1>3, <1>4, <1>5, <1>6 DEF ServiceStep

LEMMA TransactionSound ==
  ASSUME TypeOK, RequestsSound, NEW r \in Requests, Transaction(r)
  PROVE  RequestsSound'
<1> DEFINE q == req[r]
<1>0. q \in Request /\ HasBasket(q)
  BY DEF TypeOK, RequestsSound
<1>1. CASE Finish(r) /\ owed' = owed
  BY <1>1, FinishSound
<1>2. CASE InsertOrder(r)
  <2>1. PICK id \in NextIds(orders) :
          req' = [req EXCEPT ![r].pc = "header", ![r].id = id, ![r].wrote = placed + 1]
    BY <1>2 DEF InsertOrder
  <2> DEFINE n == [q EXCEPT !.pc = "header", !.id = id, !.wrote = placed + 1]
  <2>2. req' = [req EXCEPT ![r] = n]
    BY <2>1 DEF TypeOK
  <2>3. /\ n.pc = "header" /\ n.method = q.method /\ n.basket = q.basket
        /\ n.wrote = placed + 1
    BY <1>0 DEF Request
  <2>4. q.method \in {"Create", "Checkout"}
    BY <1>2 DEF InsertOrder, At, Inserting
  <2>5. /\ owed \subseteq owed'
        /\ q.method = "Checkout" => [event |-> "placed", serial |-> placed + 1] \in owed'
    BY <1>2 DEF InsertOrder
  <2> HIDE DEF n
  <2>6. HasBasket(n)
    BY <1>0, <2>3 DEF HasBasket
  <2>7. MayTell(n, owed')
    BY <2>3, <2>4, <2>5 DEF MayTell, Publishing, Moving, EventOf
  <2> QED
    BY <2>2, <2>5, <2>6, <2>7, SoundUpdate
<1>3. CASE ReplaceOrder(r) /\ ~ Finish(r)
  <2> DEFINE n == [q EXCEPT !.pc = "header", !.wrote = orders[q.id].serial]
  <2>1. req' = [req EXCEPT ![r] = n] /\ owed' = owed /\ q.method = "Update"
    BY <1>3 DEF ReplaceOrder, At, history, TypeOK
  <2>2. n.pc = "header" /\ n.method = q.method /\ n.basket = q.basket
    BY <1>0 DEF Request
  <2> HIDE DEF n
  <2>3. HasBasket(n) /\ MayTell(n, owed')
    BY <1>0, <2>1, <2>2 DEF HasBasket, MayTell, Publishing, Moving
  <2> QED
    BY <2>1, <2>3, SoundUpdate
<1>4. CASE MoveOrder(r) /\ ~ Finish(r)
  <2> DEFINE n == [q EXCEPT !.pc = "header", !.wrote = orders[q.id].serial]
  <2>1. /\ req' = [req EXCEPT ![r] = n]
        /\ owed' = owed \cup {[event |-> q.to, serial |-> orders[q.id].serial]}
        /\ q.method \in Moving
    BY <1>4 DEF MoveOrder, At, TypeOK
  <2>2. /\ n.pc = "header" /\ n.method = q.method /\ n.to = q.to
        /\ n.wrote = orders[q.id].serial
    BY <1>0 DEF Request
  <2> HIDE DEF n
  <2>3. HasBasket(n) /\ MayTell(n, owed')
    BY <2>1, <2>2 DEF HasBasket, MayTell, Moving, EventOf
  <2> QED
    BY <2>1, <2>3, SoundUpdate
<1>5. RemoveOrder(r) \/ TransactionFails(r) => Finish(r) /\ owed' = owed
  BY DEF RemoveOrder, TransactionFails, history
<1>6. /\ ReplaceOrder(r) => owed' = owed
      /\ MoveOrder(r) /\ Finish(r) => owed' = owed \/ RequestsSound'
  <2>1. ReplaceOrder(r) => owed' = owed
    BY DEF ReplaceOrder, history
  <2>2. MoveOrder(r) => owed \subseteq owed'
    BY DEF MoveOrder
  <2> QED
    BY <2>1, <2>2, FinishSound
<1> QED
  BY <1>1, <1>2, <1>3, <1>4, <1>5, <1>6 DEF Transaction

LEMMA RestartSound ==
  ASSUME TypeOK, Restart
  PROVE  RequestsSound'
<1>1. \A r \in Requests : req'[r] = Idle
  BY DEF Restart
<1> QED
  BY <1>1, IdleIsSound DEF RequestsSound

-----------------------------------------------------------------------------
(* NoPhantomEvent: events owed are never forgotten again, and only Publish *)
(* sends one, for a request that has its change committed.                 *)

LEMMA OwedGrows ==
  ASSUME Next
  PROVE  owed \subseteq owed' /\ (sent' = sent \/ \E r \in Requests : Publish(r))
<1>1. CASE Restart
  BY <1>1 DEF Restart
<1>2. ASSUME NEW r \in Requests, Start(r)
      PROVE  UNCHANGED <<owed, sent>>
  BY <1>2 DEF Start, Create, Checkout, Get, Update, Delete, Cancel, UpdateStatus,
              Accept, history
<1>3. ASSUME NEW r \in Requests, ServiceStep(r), ~ Publish(r)
      PROVE  UNCHANGED <<owed, sent>>
  BY <1>2, <1>3 DEF ServiceStep, FindOrder, FindPending, ReadHeader, ReadLines,
                    ReadFails, history
<1>4. ASSUME NEW r \in Requests, Publish(r)
      PROVE  owed' = owed
  BY <1>4 DEF Publish
<1>5. ASSUME NEW r \in Requests, Transaction(r)
      PROVE  owed \subseteq owed' /\ sent' = sent
  BY <1>5 DEF Transaction, InsertOrder, ReplaceOrder, RemoveOrder, MoveOrder,
              TransactionFails, history
<1> QED
  BY <1>1, <1>3, <1>4, <1>5 DEF Next

LEMMA PhantomStep ==
  ASSUME RequestsSound, NoPhantomEvent, Next
  PROVE  NoPhantomEvent'
<1> SUFFICES ASSUME NEW m \in sent'
             PROVE  [event |-> m.event, serial |-> m.serial] \in owed'
  BY DEF NoPhantomEvent
<1>1. CASE m \in sent
  BY <1>1, OwedGrows DEF NoPhantomEvent
<1>2. CASE m \notin sent
  <2>1. PICK r \in Requests : Publish(r)
    BY <1>2, OwedGrows
  <2>2. m = [event |-> EventOf(req[r]), serial |-> req[r].wrote,
             phone |-> PhoneOf(req[r])]
    BY <1>2, <2>1 DEF Publish
  <2>3. [event |-> EventOf(req[r]), serial |-> req[r].wrote] \in owed
    BY <2>1 DEF Publish, RequestsSound, MayTell
  <2> QED
    BY <2>2, <2>3, OwedGrows
<1> QED
  BY <1>1, <1>2

-----------------------------------------------------------------------------
LEMMA InitHolds == Init => IInv
<1> SUFFICES ASSUME Init
             PROVE  IInv
  OBVIOUS
<1>1. TypeOK
  BY IdleIsRequest DEF Init, TypeOK, SQLitePcs
<1>2. RequestsSound
  BY IdleIsSound DEF Init, RequestsSound
<1> QED
  BY <1>1, <1>2 DEF Init, IInv, NoPhantomEvent

LEMMA StepHolds == IInv /\ [Next]_vars => IInv'
<1> SUFFICES ASSUME TypeOK, RequestsSound, NoPhantomEvent, [Next]_vars
             PROVE  TypeOK' /\ RequestsSound' /\ NoPhantomEvent'
  BY DEF IInv
<1>1. CASE UNCHANGED vars
  BY <1>1 DEF vars, TypeOK, RequestsSound, HasBasket, MayTell, NoPhantomEvent
<1>2. CASE Next
  <2>1. CASE Restart
    BY <1>2, <2>1, RestartType, RestartSound, PhantomStep
  <2>2. ASSUME NEW r \in Requests, ServiceStep(r)
        PROVE  TypeOK' /\ RequestsSound'
    BY <2>2, ServiceStepType, ServiceStepSound
  <2>3. ASSUME NEW r \in Requests, Transaction(r)
        PROVE  TypeOK' /\ RequestsSound'
    <3>1. CASE TransactionFails(r)
      <4>1. Finish(r) /\ UNCHANGED <<orders, items, placed, owed, sent, dropped>>
        BY <3>1 DEF TransactionFails, tables, history
      <4>2. TypeOK'
        BY <4>1, FinishType DEF TypeOK, SQLitePcs
      <4> QED
        BY <2>3, <4>2, TransactionSound
    <3> QED
      BY <2>3, <3>1, InsertOrderType, ReplaceOrderType, RemoveOrderType, MoveOrderType,
         TransactionSound
         DEF Transaction
  <2> QED
    BY <1>2, <2>1, <2>2, <2>3, PhantomStep DEF Next
<1> QED
  BY <1>1, <1>2

(* Every state of the order module is well typed, however many requests    *)
(* interleave and whichever statements fail.                               *)
THEOREM TypeCorrect == Spec => []TypeOK
<1>1. IInv => TypeOK
  BY DEF IInv
<1> QED
  BY <1>1, InitHolds, StepHolds, PTL DEF Spec

(* No notification is published for a change of an order that was not      *)
(* committed, whatever races, fails or restarts.                           *)
THEOREM NoPhantom == Spec => []NoPhantomEvent
<1>1. IInv => NoPhantomEvent
  BY DEF IInv
<1> QED
  BY <1>1, InitHolds, StepHolds, PTL DEF Spec

-----------------------------------------------------------------------------
(***************************************************************************)
(* AllOrNothing on SQLite: an order has all the lines of the basket its    *)
(* total was computed from or none, for any number of requests, orders and *)
(* baskets.  AllOrNothing itself is inductive relative to IInv: an insert  *)
(* needs that no line names an id that is not in use, which is its second  *)
(* conjunct.                                                               *)
(***************************************************************************)

LinesFor(id) == LinesOf(items, id) = {} \/ WholeBasket(id)

(* An order whose header and lines a step leaves alone stays as it was.    *)
LEMMA Untouched ==
  ASSUME TypeOK, NEW id \in DOMAIN orders, id \in DOMAIN orders', LinesFor(id),
         orders'[id].serial = orders[id].serial,
         orders'[id].basket = orders[id].basket,
         LinesOf(items, id)' = LinesOf(items, id),
         \A i \in LinesOf(items, id) : items'[i] = items[i]
  PROVE  LinesFor(id)'
<1>1. CASE LinesOf(items, id) = {}
  BY <1>1 DEF LinesFor
<1>2. CASE WholeBasket(id)
  <2>1. PICK first \in DOMAIN items :
          /\ LinesOf(items, id) = first .. first + LineCount[orders[id].basket] - 1
          /\ \A i \in LinesOf(items, id) :
               items[i] = ItemOf(id, orders[id].serial, orders[id].basket, i - first + 1)
    BY <1>2 DEF WholeBasket
  <2>2. LineCount[orders[id].basket] \in Nat \ {0} /\ first \in Nat
    BY OrderTablesAssumption DEF TypeOK, OrderRow
  <2>3. first \in LinesOf(items, id)
    BY <2>1, <2>2
  <2>4. first \in DOMAIN items'
    BY <2>3 DEF LinesOf
  <2> QED
    BY <2>1, <2>4 DEF LinesFor, WholeBasket
<1> QED
  BY <1>1, <1>2 DEF LinesFor

(* insertItems under an id that has no lines gives it its whole basket and *)
(* leaves the lines of every other order alone.                            *)
LEMMA InsertedBasket ==
  ASSUME NEW before, IsItemTable(before), NEW first \in NextIds(before),
         NEW id \in Nat, NEW serial \in Nat, NEW b \in Baskets,
         LinesOf(before, id) = {}
  PROVE  LET after == InsertLines(before, first, id, serial, b)
         IN /\ first \in DOMAIN after
            /\ LinesOf(after, id) = first .. first + LineCount[b] - 1
            /\ \A i \in LinesOf(after, id) : after[i] = ItemOf(id, serial, b, i - first + 1)
            /\ \A other : other # id => LinesOf(after, other) = LinesOf(before, other)
            /\ \A i \in DOMAIN before : after[i] = before[i]
            /\ \A i \in DOMAIN after : i \in DOMAIN before \/ after[i].order = id
<1> DEFINE after == InsertLines(before, first, id, serial, b)
           new == first .. first + LineCount[b] - 1
<1>1. /\ DOMAIN after = DOMAIN before \cup new
      /\ new \cap DOMAIN before = {}
      /\ first \in new
      /\ \A i \in DOMAIN before : after[i] = before[i]
      /\ \A i \in new : after[i] = ItemOf(id, serial, b, i - first + 1)
  BY InsertLinesShape, OrderTablesAssumption
<1>2. \A n : ItemOf(id, serial, b, n).order = id
  BY DEF ItemOf
<1> HIDE DEF after, new
<1>3. \A i \in new : after[i].order = id
  BY <1>1, <1>2
<1>4. LinesOf(after, id) = new
  BY <1>1, <1>3 DEF LinesOf
<1>5. \A other : other # id => LinesOf(after, other) = LinesOf(before, other)
  BY <1>1, <1>3 DEF LinesOf
<1> QED
  BY <1>1, <1>3, <1>4, <1>5 DEF after, new

LEMMA InsertOrderLines ==
  ASSUME TypeOK, RequestsSound, AllOrNothing, NEW r \in Requests, InsertOrder(r)
  PROVE  AllOrNothing'
<1>a. PICK b, serial, row :
        /\ b = req[r].basket /\ serial = placed + 1
        /\ row = [owner |-> OwnerOf(req[r].actor), status |-> req[r].to, basket |-> b,
                  serial |-> serial, verified |-> FALSE]
  OBVIOUS
<1>b. row.serial = serial /\ row.basket = b
  BY <1>a
<1>0. b \in Baskets /\ serial \in Nat
  BY <1>a DEF TypeOK, InsertOrder, RequestsSound, HasBasket, At, Inserting
<1>1. PICK id \in NextIds(orders), first \in NextIds(items) :
        /\ orders' = InsertRow(orders, id, row)
        /\ items' = InsertLines(items, first, id, serial, b)
  BY <1>a DEF InsertOrder
<1>2. id \in Nat \ {0} /\ id \notin DOMAIN orders
  BY NextIdIsFresh, ItemsAreTable DEF IsTable
<1>3. /\ DOMAIN orders' = DOMAIN orders \cup {id}
      /\ orders'[id].serial = serial /\ orders'[id].basket = b
      /\ \A o \in DOMAIN orders : orders'[o] = orders[o]
  BY <1>b, <1>1, <1>2 DEF InsertRow
<1>4. LinesOf(items, id) = {}
  BY <1>2 DEF LinesOf, AllOrNothing
<1>5. /\ first \in DOMAIN items'
      /\ LinesOf(items', id) = first .. first + LineCount[b] - 1
      /\ \A i \in LinesOf(items', id) :
           items'[i] = ItemOf(id, serial, b, i - first + 1)
      /\ \A other : other # id => LinesOf(items', other) = LinesOf(items, other)
      /\ \A i \in DOMAIN items : items'[i] = items[i]
      /\ \A i \in DOMAIN items' : i \in DOMAIN items \/ items'[i].order = id
  <2> DEFINE after == InsertLines(items, first, id, serial, b)
  <2>1. /\ first \in DOMAIN after
        /\ LinesOf(after, id) = first .. first + LineCount[b] - 1
        /\ \A i \in LinesOf(after, id) : after[i] = ItemOf(id, serial, b, i - first + 1)
        /\ \A other : other # id => LinesOf(after, other) = LinesOf(items, other)
        /\ \A i \in DOMAIN items : after[i] = items[i]
        /\ \A i \in DOMAIN after : i \in DOMAIN items \/ after[i].order = id
    BY <1>0, <1>2, <1>4, InsertedBasket, ItemsAreTable
  <2>2. items' = after
    BY <1>1
  <2> HIDE DEF after
  <2> QED
    BY <2>1, <2>2
<1>6. LinesFor(id)'
  BY <1>3, <1>5 DEF LinesFor, WholeBasket
<1>7. ASSUME NEW o \in DOMAIN orders
      PROVE  LinesFor(o)'
  <2>1. o # id /\ LinesFor(o)
    BY <1>2 DEF AllOrNothing, LinesFor
  <2>2. \A i \in LinesOf(items, o) : items'[i] = items[i]
    BY <1>5 DEF LinesOf
  <2> QED
    BY <1>3, <1>5, <2>1, <2>2, Untouched
<1>8. \A i \in DOMAIN items' : items'[i].order \in DOMAIN orders'
  BY <1>3, <1>5 DEF AllOrNothing
<1> QED
  BY <1>3, <1>6, <1>7, <1>8 DEF AllOrNothing, LinesFor

LEMMA ReplaceOrderLines ==
  ASSUME TypeOK, RequestsSound, AllOrNothing, NEW r \in Requests, ReplaceOrder(r),
         Matches(orders, req[r].id, req[r].actor)
  PROVE  AllOrNothing'
<1>a. PICK id, b, serial, cleared :
        /\ id = req[r].id /\ b = req[r].basket /\ serial = orders[id].serial
        /\ cleared = DeleteLines(items, id)
  OBVIOUS
<1>0. /\ b \in Baskets /\ id \in DOMAIN orders /\ id \in Nat /\ serial \in Nat
      /\ orders[id] \in OrderRow
  BY <1>a DEF TypeOK, ReplaceOrder, RequestsSound, HasBasket, At, Matches, OrderRow
<1>1. PICK first \in NextIds(cleared) :
        items' = InsertLines(cleared, first, id, serial, b)
  BY <1>a DEF ReplaceOrder
<1>2. /\ DOMAIN orders' = DOMAIN orders
      /\ orders'[id].serial = serial /\ orders'[id].basket = b
      /\ \A o \in DOMAIN orders : o # id => orders'[o] = orders[o]
  <2>1. orders' = [orders EXCEPT ![id] = [orders[id] EXCEPT !.basket = b]]
    BY <1>a DEF ReplaceOrder, TypeOK
  <2> DEFINE n == [orders[id] EXCEPT !.basket = b]
  <2>2. n.serial = serial /\ n.basket = b
    BY <1>a, <1>0 DEF OrderRow
  <2> HIDE DEF n
  <2>3. orders' = [orders EXCEPT ![id] = n]
    BY <2>1 DEF n
  <2> QED
    BY <1>0, <2>2, <2>3 DEF TypeOK
<1>3. /\ DOMAIN cleared = {i \in DOMAIN items : items[i].order # id}
      /\ \A i \in DOMAIN cleared : cleared[i] = items[i]
      /\ IsItemTable(cleared)
      /\ LinesOf(cleared, id) = {}
  <2>1. /\ DOMAIN DeleteLines(items, id) = {i \in DOMAIN items : items[i].order # id}
        /\ \A i \in DOMAIN DeleteLines(items, id) : DeleteLines(items, id)[i] = items[i]
        /\ IsItemTable(DeleteLines(items, id))
        /\ LinesOf(DeleteLines(items, id), id) = {}
    BY DeleteLinesShape, ItemsAreTable
  <2> QED
    BY <1>a, <2>1
<1>4. /\ first \in DOMAIN items'
      /\ LinesOf(items', id) = first .. first + LineCount[b] - 1
      /\ \A i \in LinesOf(items', id) :
           items'[i] = ItemOf(id, serial, b, i - first + 1)
      /\ \A other : other # id => LinesOf(items', other) = LinesOf(cleared, other)
      /\ \A i \in DOMAIN cleared : items'[i] = cleared[i]
      /\ \A i \in DOMAIN items' : i \in DOMAIN cleared \/ items'[i].order = id
  BY <1>0, <1>1, <1>3, InsertedBasket
<1>5. LinesFor(id)'
  BY <1>2, <1>4 DEF LinesFor, WholeBasket
<1>6. ASSUME NEW o \in DOMAIN orders, o # id
      PROVE  LinesFor(o)'
  <2>1. LinesFor(o)
    BY DEF AllOrNothing, LinesFor
  <2>2. LinesOf(cleared, o) = LinesOf(items, o)
    BY <1>3, <1>6 DEF LinesOf
  <2>3. LinesOf(items', o) = LinesOf(items, o)
    BY <1>4, <1>6, <2>2
  <2>4. \A i \in LinesOf(items, o) : items'[i] = items[i]
    <3>1. \A i \in LinesOf(cleared, o) : i \in DOMAIN cleared
      BY DEF LinesOf
    <3> QED
      BY <1>3, <1>4, <2>2, <3>1
  <2> QED
    BY <1>2, <1>6, <2>1, <2>3, <2>4, Untouched
<1>7. \A i \in DOMAIN items' : items'[i].order \in DOMAIN orders'
  BY <1>0, <1>2, <1>3, <1>4 DEF AllOrNothing
<1> QED
  BY <1>2, <1>5, <1>6, <1>7 DEF AllOrNothing, LinesFor

LEMMA RemoveOrderLines ==
  ASSUME TypeOK, AllOrNothing, NEW r \in Requests, RemoveOrder(r)
  PROVE  AllOrNothing'
<1>a. PICK id : id = req[r].id
  OBVIOUS
<1>1. /\ DOMAIN items' = {i \in DOMAIN items : items[i].order # id}
      /\ \A i \in DOMAIN items' : items'[i] = items[i]
      /\ LinesOf(items', id) = {}
  <2>1. /\ DOMAIN DeleteLines(items, id) = {i \in DOMAIN items : items[i].order # id}
        /\ \A i \in DOMAIN DeleteLines(items, id) : DeleteLines(items, id)[i] = items[i]
        /\ IsItemTable(DeleteLines(items, id))
        /\ LinesOf(DeleteLines(items, id), id) = {}
    BY DeleteLinesShape, ItemsAreTable
  <2> QED
    BY <1>a, <2>1 DEF RemoveOrder
<1>2. /\ DOMAIN orders' \subseteq DOMAIN orders
      /\ DOMAIN orders \ {id} \subseteq DOMAIN orders'
      /\ \A o \in DOMAIN orders' : orders'[o] = orders[o]
  BY <1>a, DeleteHeaderShape DEF RemoveOrder
<1>3. ASSUME NEW o \in DOMAIN orders', o # id
      PROVE  LinesFor(o)'
  <2>1. o \in DOMAIN orders /\ LinesFor(o) /\ orders'[o] = orders[o]
    BY <1>2 DEF AllOrNothing, LinesFor
  <2>2. /\ LinesOf(items', o) = LinesOf(items, o)
        /\ \A i \in LinesOf(items, o) : items'[i] = items[i]
    BY <1>1, <1>3 DEF LinesOf
  <2> QED
    BY <2>1, <2>2, Untouched
<1>4. LinesFor(id)'
  BY <1>1 DEF LinesFor
<1>5. \A i \in DOMAIN items' : items'[i].order \in DOMAIN orders'
  BY <1>1, <1>2 DEF AllOrNothing
<1> QED
  BY <1>3, <1>4, <1>5 DEF AllOrNothing, LinesFor

LEMMA MoveOrderLines ==
  ASSUME TypeOK, AllOrNothing, NEW r \in Requests, MoveOrder(r)
  PROVE  AllOrNothing'
<1>1. /\ items' = items /\ DOMAIN orders' = DOMAIN orders
      /\ \A o \in DOMAIN orders : /\ orders'[o].serial = orders[o].serial
                                  /\ orders'[o].basket = orders[o].basket
  <2>1. CASE orders' = orders
    BY <2>1 DEF MoveOrder
  <2>2. CASE orders' # orders
    <3> DEFINE id == req[r].id
               n == Moved(orders[id], req[r].to)
    <3>1. orders' = [orders EXCEPT ![id] = n] /\ id \in DOMAIN orders /\ items' = items
      BY <2>2 DEF MoveOrder, Matches
    <3>2. n.serial = orders[id].serial /\ n.basket = orders[id].basket
      BY <3>1 DEF TypeOK, OrderRow, Moved
    <3> HIDE DEF n
    <3> QED
      BY <3>1, <3>2 DEF TypeOK
  <2> QED
    BY <2>1, <2>2
<1>2. ASSUME NEW o \in DOMAIN orders
      PROVE  LinesFor(o)'
  <2>1. LinesFor(o)
    BY DEF AllOrNothing, LinesFor
  <2>2. LinesOf(items, o)' = LinesOf(items, o)
    BY <1>1 DEF LinesOf
  <2> QED
    BY <1>1, <2>1, <2>2, Untouched
<1> QED
  BY <1>1, <1>2 DEF AllOrNothing, LinesFor

(* Outside a transaction nothing writes a table.                           *)
LEMMA OutsideTables ==
  ASSUME NEW r \in Requests, ServiceStep(r)
  PROVE  UNCHANGED <<orders, items>>
<1>1. Start(r) => UNCHANGED <<orders, items>>
  BY DEF Start, Create, Checkout, Get, Update, Delete, Cancel, UpdateStatus, Accept,
         tables
<1> QED
  BY <1>1 DEF ServiceStep, FindOrder, FindPending, ReadHeader, ReadLines, Publish,
              ReadFails, tables

LEMMA LinesStep ==
  ASSUME IInv, AllOrNothing, [Next]_vars
  PROVE  AllOrNothing'
<1>0. TypeOK /\ RequestsSound
  BY DEF IInv
<1>1. CASE UNCHANGED <<orders, items>>
  BY <1>1 DEF AllOrNothing, WholeBasket, LinesOf
<1>2. UNCHANGED vars \/ Restart => UNCHANGED <<orders, items>>
  BY DEF vars, Restart, tables
<1>3. ASSUME NEW r \in Requests, Transaction(r)
      PROVE  AllOrNothing' \/ UNCHANGED <<orders, items>>
  <2>1. CASE InsertOrder(r)
    BY <1>0, <2>1, InsertOrderLines
  <2>2. CASE ReplaceOrder(r)
    <3>1. Matches(orders, req[r].id, req[r].actor) \/ UNCHANGED <<orders, items>>
      BY <2>2 DEF ReplaceOrder, tables
    <3> QED
      BY <1>0, <2>2, <3>1, ReplaceOrderLines
  <2>3. CASE RemoveOrder(r)
    BY <1>0, <2>3, RemoveOrderLines
  <2>4. CASE MoveOrder(r)
    BY <1>0, <2>4, MoveOrderLines
  <2>5. TransactionFails(r) => UNCHANGED <<orders, items>>
    BY DEF TransactionFails, tables
  <2> QED
    BY <1>3, <2>1, <2>2, <2>3, <2>4, <2>5 DEF Transaction
<1> QED
  BY <1>1, <1>2, <1>3, OutsideTables DEF Next

(* The lines of an order are always exactly its basket's, or none: no      *)
(* interleaving of creates, updates and deletes leaves a part of a basket, *)
(* a mix of two baskets, or lines under an id whose order is gone.         *)
THEOREM LinesSafe == Spec => []AllOrNothing
<1>1. Init => AllOrNothing
  BY DEF Init, AllOrNothing
<1>2. AllOrNothing /\ IInv /\ [Next]_vars => AllOrNothing'
  BY LinesStep
<1>3. Spec => []IInv
  BY InitHolds, StepHolds, PTL DEF Spec
<1> QED
  BY <1>1, <1>2, <1>3, PTL DEF Spec

-----------------------------------------------------------------------------
(* Headers.  An insert needs that no event is owed under the serial it     *)
(* takes (SerialsTaken), and a transition that no other order has the      *)
(* serial of the one it moves (SerialsDiffer).                             *)

Confirmed(serial) == [event |-> "confirmed", serial |-> serial]

SerialsTaken ==
  /\ \A id \in DOMAIN orders : orders[id].serial <= placed
  /\ \A e \in owed : e.serial <= placed

SerialsDiffer ==
  \A i, j \in DOMAIN orders : orders[i].serial = orders[j].serial => i = j

VInv == SerialsTaken /\ SerialsDiffer /\ VerifiedIffConfirmed

LEMMA InsertOrderVerified ==
  ASSUME TypeOK, VInv, NEW r \in Requests, InsertOrder(r)
  PROVE  VInv'
<1>a. PICK row : row = [owner |-> OwnerOf(req[r].actor), status |-> req[r].to,
                        basket |-> req[r].basket, serial |-> placed + 1,
                        verified |-> FALSE]
  OBVIOUS
<1>b. row.serial = placed + 1 /\ row.verified = FALSE
  BY <1>a
<1>1. PICK id \in NextIds(orders) : orders' = InsertRow(orders, id, row)
  BY <1>a DEF InsertOrder
<1>2. id \notin DOMAIN orders
  BY NextIdIsFresh, ItemsAreTable DEF IsTable
<1>3. /\ DOMAIN orders' = DOMAIN orders \cup {id}
      /\ orders'[id] = row
      /\ \A i \in DOMAIN orders : orders'[i] = orders[i]
  BY <1>1, <1>2 DEF InsertRow
<1>4. /\ placed \in Nat /\ placed' = placed + 1 /\ owed \subseteq Event
      /\ \A i \in DOMAIN orders : orders[i].serial \in Nat
  BY DEF InsertOrder, TypeOK, OrderRow
<1>5. \A e \in owed' : e \in owed \/ e = [event |-> "placed", serial |-> placed + 1]
  BY DEF InsertOrder
<1>6. owed \subseteq owed'
  BY DEF InsertOrder
<1>7. \A e \in owed : e.serial \in Nat /\ e.serial <= placed
  BY <1>4 DEF VInv, SerialsTaken, Event
<1>8. SerialsTaken'
  <2>1. ASSUME NEW e \in owed' PROVE e.serial <= placed'
    BY <1>4, <1>5, <1>7
  <2>2. ASSUME NEW i \in DOMAIN orders' PROVE orders'[i].serial <= placed'
    BY <1>b, <1>3, <1>4 DEF VInv, SerialsTaken
  <2> QED
    BY <2>1, <2>2 DEF SerialsTaken
<1>9. SerialsDiffer'
  BY <1>b, <1>3, <1>4 DEF VInv, SerialsTaken, SerialsDiffer
<1>10. ASSUME NEW serial
       PROVE  Confirmed(serial) \in owed' <=> Confirmed(serial) \in owed
  BY <1>5, <1>6 DEF Confirmed
<1>11. Confirmed(placed + 1) \notin owed
  BY <1>4, <1>7 DEF Confirmed
<1>12. VerifiedIffConfirmed'
  <2>1. ASSUME NEW i \in DOMAIN orders
        PROVE  orders'[i].verified <=> Confirmed(orders'[i].serial) \in owed'
    BY <1>3, <1>10 DEF VInv, VerifiedIffConfirmed, Confirmed
  <2>2. ~ orders'[id].verified /\ Confirmed(orders'[id].serial) \notin owed'
    BY <1>b, <1>3, <1>10, <1>11
  <2> QED
    BY <1>3, <2>1, <2>2 DEF VerifiedIffConfirmed, Confirmed
<1> QED
  BY <1>8, <1>9, <1>12 DEF VInv

(* A step that keeps the serial and the stamp of every order that stays,   *)
(* and the events there are.                                               *)
LEMMA StampsRest ==
  ASSUME VInv, UNCHANGED <<owed, placed>>, DOMAIN orders' \subseteq DOMAIN orders,
         \A i \in DOMAIN orders' : /\ orders'[i].serial = orders[i].serial
                                   /\ orders'[i].verified = orders[i].verified
  PROVE  VInv'
BY DEF VInv, SerialsTaken, SerialsDiffer, VerifiedIffConfirmed

LEMMA ReplaceOrderVerified ==
  ASSUME TypeOK, VInv, NEW r \in Requests, ReplaceOrder(r)
  PROVE  VInv'
<1>0. UNCHANGED <<owed, placed>>
  BY DEF ReplaceOrder, history
<1>1. CASE Matches(orders, req[r].id, req[r].actor)
  <2> DEFINE id == req[r].id
             n == [orders[id] EXCEPT !.basket = req[r].basket]
  <2>1. id \in DOMAIN orders /\ orders[id] \in OrderRow
    BY <1>1 DEF Matches, TypeOK
  <2>2. orders' = [orders EXCEPT ![id] = n]
    BY <1>1, <2>1 DEF ReplaceOrder, TypeOK
  <2>3. n.serial = orders[id].serial /\ n.verified = orders[id].verified
    BY <2>1 DEF OrderRow
  <2> HIDE DEF n, id
  <2>4. /\ DOMAIN orders' = DOMAIN orders
        /\ \A i \in DOMAIN orders : /\ orders'[i].serial = orders[i].serial
                                    /\ orders'[i].verified = orders[i].verified
    BY <2>1, <2>2, <2>3 DEF TypeOK
  <2> QED
    BY <1>0, <2>4, StampsRest
<1>2. CASE ~ Matches(orders, req[r].id, req[r].actor)
  BY <1>0, <1>2, StampsRest DEF ReplaceOrder, tables
<1> QED
  BY <1>1, <1>2

LEMMA RemoveOrderVerified ==
  ASSUME TypeOK, VInv, NEW r \in Requests, RemoveOrder(r)
  PROVE  VInv'
<1>1. UNCHANGED <<owed, placed>>
  BY DEF RemoveOrder, history
<1>2. orders' = DeleteHeader(orders, req[r].id, req[r].actor)
  BY DEF RemoveOrder
<1>3. /\ DOMAIN orders' \subseteq DOMAIN orders
      /\ \A i \in DOMAIN orders' : orders'[i] = orders[i]
  BY <1>2, DeleteHeaderShape
<1> QED
  BY <1>1, <1>3, StampsRest

LEMMA MoveOrderVerified ==
  ASSUME TypeOK, VInv, NEW r \in Requests, MoveOrder(r)
  PROVE  VInv'
<1> DEFINE id == req[r].id
           to == req[r].to
<1>1. CASE Matches(orders, id, req[r].actor) /\ IsValidTransition(orders[id].status, to)
  <2> DEFINE n == Moved(orders[id], to)
             e == [event |-> to, serial |-> orders[id].serial]
  <2>1. /\ id \in DOMAIN orders /\ orders[id] \in OrderRow
        /\ orders' = [orders EXCEPT ![id] = n]
        /\ owed' = owed \cup {e}
        /\ placed' = placed
    BY <1>1 DEF MoveOrder, Matches, TypeOK
  <2>2. n.serial = orders[id].serial /\ (n.verified <=> orders[id].verified \/ to = "confirmed")
    BY <2>1 DEF Moved, OrderRow
  <2>3. e.event = to /\ e.serial = orders[id].serial
    OBVIOUS
  <2>4. \A serial : e = Confirmed(serial) <=> to = "confirmed" /\ serial = orders[id].serial
    BY DEF Confirmed
  <2> HIDE DEF n, e, id, to
  <2>5. /\ DOMAIN orders' = DOMAIN orders
        /\ orders'[id] = n
        /\ \A i \in DOMAIN orders : i # id => orders'[i] = orders[i]
    BY <2>1 DEF TypeOK
  <2>6. \A i \in DOMAIN orders : orders'[i].serial = orders[i].serial
    BY <2>2, <2>5
  <2>7. SerialsTaken' /\ SerialsDiffer'
    BY <2>1, <2>3, <2>5, <2>6 DEF VInv, SerialsTaken, SerialsDiffer
  <2>8. ASSUME NEW i \in DOMAIN orders
        PROVE  orders'[i].verified <=> Confirmed(orders'[i].serial) \in owed'
    <3>1. orders[i].verified <=> Confirmed(orders[i].serial) \in owed
      BY DEF VInv, VerifiedIffConfirmed, Confirmed
    <3>2. Confirmed(orders'[i].serial) \in owed'
            <=> \/ Confirmed(orders[i].serial) \in owed
                \/ to = "confirmed" /\ orders[i].serial = orders[id].serial
      BY <2>1, <2>4, <2>6
    <3>3. orders[i].serial = orders[id].serial <=> i = id
      BY <2>1 DEF VInv, SerialsDiffer
    <3>4. orders'[i].verified <=> orders[i].verified \/ (to = "confirmed" /\ i = id)
      BY <2>2, <2>5
    <3> QED
      BY <3>1, <3>2, <3>3, <3>4
  <2> QED
    BY <2>5, <2>7, <2>8 DEF VInv, VerifiedIffConfirmed, Confirmed
<1>2. CASE ~ (Matches(orders, id, req[r].actor) /\ IsValidTransition(orders[id].status, to))
  BY <1>2, StampsRest DEF MoveOrder
<1> QED
  BY <1>1, <1>2

(* Outside a transaction no header is written and nothing becomes owed.    *)
LEMMA HeadersRest ==
  ASSUME NEW r \in Requests, ServiceStep(r)
  PROVE  UNCHANGED <<orders, owed, placed>>
<1>1. Start(r) => UNCHANGED <<orders, owed, placed>>
  BY DEF Start, Create, Checkout, Get, Update, Delete, Cancel, UpdateStatus, Accept,
         tables, history
<1> QED
  BY <1>1 DEF ServiceStep, FindOrder, FindPending, ReadHeader, ReadLines, Publish,
              ReadFails, tables, history

LEMMA VerifiedStep == IInv /\ VInv /\ [Next]_vars => VInv'
<1> SUFFICES ASSUME IInv, VInv, [Next]_vars
             PROVE  VInv'
  OBVIOUS
<1>0. TypeOK
  BY DEF IInv
<1>1. UNCHANGED <<orders, owed, placed>> => VInv'
  BY DEF VInv, SerialsTaken, SerialsDiffer, VerifiedIffConfirmed
<1>2. UNCHANGED vars \/ Restart => UNCHANGED <<orders, owed, placed>>
  BY DEF vars, Restart, tables
<1>3. ASSUME NEW r \in Requests, Transaction(r)
      PROVE  VInv'
  <2>1. TransactionFails(r) => UNCHANGED <<orders, owed, placed>>
    BY DEF TransactionFails, tables, history
  <2> QED
    BY <1>0, <1>1, <1>3, <2>1, InsertOrderVerified, ReplaceOrderVerified,
       RemoveOrderVerified, MoveOrderVerified DEF Transaction
<1> QED
  BY <1>1, <1>2, <1>3, HeadersRest DEF Next

LEMMA VerifiedInit == Init => VInv
BY DEF Init, VInv, SerialsTaken, SerialsDiffer, VerifiedIffConfirmed

(* verified_at is stamped on exactly the orders a committed UpdateStatus   *)
(* has confirmed (repository.go UpdateStatus): no cancelled, replaced or   *)
(* re-created order under the same id carries another order's stamp.       *)
THEOREM Verified == Spec => []VerifiedIffConfirmed
<1>1. Init => VInv
  BY VerifiedInit
<1>2. VInv /\ IInv /\ [Next]_vars => VInv'
  BY VerifiedStep
<1>3. VInv => VerifiedIffConfirmed
  BY DEF VInv
<1>4. Spec => []IInv
  BY InitHolds, StepHolds, PTL DEF Spec
<1> QED
  BY <1>1, <1>2, <1>3, <1>4, PTL DEF Spec

-----------------------------------------------------------------------------
(* A transaction that is refused or fails leaves the headers alone; one    *)
(* that writes a header has found it in scope, in the same statement or    *)
(* the same transaction.                                                   *)
LEMMA ScopeStep ==
  ASSUME TypeOK, NEW r \in Requests, Transaction(r),
         NEW id \in DOMAIN orders, id \in DOMAIN orders' => orders'[id] # orders[id]
  PROVE  req'[r] # req[r] /\ InScope(orders[id], req[r].actor)
<1> DEFINE q == req[r]
<1>0. q \in Request /\ req \in [Requests -> Request]
  BY DEF TypeOK
<1>1. CASE InsertOrder(r)
  <2>0. PICK row : row = [owner |-> OwnerOf(q.actor), status |-> q.to,
                          basket |-> q.basket, serial |-> placed + 1,
                          verified |-> FALSE]
    OBVIOUS
  <2>1. PICK new \in NextIds(orders) : orders' = InsertRow(orders, new, row)
    BY <1>1, <2>0 DEF InsertOrder
  <2>2. new \notin DOMAIN orders
    BY NextIdIsFresh, ItemsAreTable DEF IsTable
  <2>3. id \in DOMAIN orders' /\ orders'[id] = orders[id]
    BY <2>1, <2>2 DEF InsertRow
  <2> QED
    BY <2>3
<1>2. CASE ReplaceOrder(r)
  <2>1. Matches(orders, q.id, q.actor)
    BY <1>2 DEF ReplaceOrder, tables
  <2>2. id = q.id
    BY <1>2, <2>1 DEF ReplaceOrder, Matches, TypeOK
  <2>3. req' = [req EXCEPT ![r].pc = "header", ![r].wrote = orders[q.id].serial]
        /\ q.pc = "tx"
    BY <1>2, <2>1 DEF ReplaceOrder, At
  <2>4. req'[r].pc = "header"
    BY <1>0, <2>3 DEF Request
  <2> QED
    BY <2>1, <2>2, <2>3, <2>4 DEF Matches
<1>3. CASE RemoveOrder(r)
  <2>1. Matches(orders, q.id, q.actor) /\ orders' = DeleteRow(orders, q.id)
    BY <1>3 DEF RemoveOrder, DeleteHeader
  <2>2. id = q.id
    BY <2>1 DEF DeleteRow, Restrict
  <2>3. req'[r].pc = "idle" /\ q.pc = "tx"
    BY <1>0, <1>3 DEF RemoveOrder, At, Finish, Idle
  <2> QED
    BY <2>1, <2>2, <2>3 DEF Matches
<1>4. CASE MoveOrder(r)
  <2>1. Matches(orders, q.id, q.actor) /\ IsValidTransition(orders[q.id].status, q.to)
    BY <1>4 DEF MoveOrder
  <2>2. id = q.id
    BY <1>4, <2>1 DEF MoveOrder, Matches, TypeOK
  <2>3. req' = [req EXCEPT ![r].pc = "header", ![r].wrote = orders[q.id].serial]
        /\ q.pc = "tx"
    BY <1>4, <2>1 DEF MoveOrder, At
  <2>4. req'[r].pc = "header"
    BY <1>0, <2>3 DEF Request
  <2> QED
    BY <2>1, <2>2, <2>3, <2>4 DEF Matches
<1>5. ~ TransactionFails(r)
  BY DEF TransactionFails, tables
<1> QED
  BY <1>1, <1>2, <1>3, <1>4, <1>5 DEF Transaction

(* Repository.Update, Delete and UpdateStatus write a header only in scope *)
(* of their actor at that instant, however old the answer of the check in  *)
(* front of the transaction: no account reaches another's order, be it     *)
(* through an id that was given out again.                                 *)
THEOREM HeadersInScope == Spec => HeadersAnswerToScope
<1>1. IInv /\ [Next]_vars =>
        [\A id \in DOMAIN orders :
           (id \in DOMAIN orders' => orders'[id] # orders[id])
             => \E r \in Requests : req'[r] # req[r] /\ InScope(orders[id], req[r].actor)]_vars
  <2> SUFFICES ASSUME IInv, Next, NEW id \in DOMAIN orders,
                      id \in DOMAIN orders' => orders'[id] # orders[id]
               PROVE  \E r \in Requests :
                        req'[r] # req[r] /\ InScope(orders[id], req[r].actor)
    OBVIOUS
  <2>1. ~ Restart /\ \A r \in Requests : ~ ServiceStep(r)
    BY HeadersRest DEF Restart, tables
  <2>2. PICK r \in Requests : Transaction(r)
    BY <2>1 DEF Next
  <2> QED
    BY <2>2, ScopeStep DEF IInv
<1>2. Spec => []IInv
  BY InitHolds, StepHolds, PTL DEF Spec
<1> QED
  BY <1>1, <1>2, PTL DEF Spec, HeadersAnswerToScope

-----------------------------------------------------------------------------
LEMMA VInvNumbers ==
  ASSUME TypeOK, VInv, VInv'
  PROVE  Numbered(orders, placed) /\ Distinct(orders')
BY DEF TypeOK, VInv, SerialsTaken, SerialsDiffer, Distinct, Numbered

LEMMA InsertIsPlace ==
  ASSUME TypeOK, RequestsSound, VInv, VInv', NEW r \in Requests, InsertOrder(r)
  PROVE  lifeBar' = lifeBar \/ Lifecycle!Next
<1>1. PICK row : row = [owner |-> OwnerOf(req[r].actor), status |-> req[r].to,
                        basket |-> req[r].basket, serial |-> placed + 1,
                        verified |-> FALSE]
  OBVIOUS
<1>2. PICK id \in NextIds(orders) : orders' = InsertRow(orders, id, row)
  BY <1>1 DEF InsertOrder
<1>3. id \notin DOMAIN orders
  BY NextIdIsFresh, ItemsAreTable DEF IsTable
<1>4. /\ DOMAIN orders' = DOMAIN orders \cup {id} /\ orders'[id] = row
      /\ \A i \in DOMAIN orders : orders'[i] = orders[i]
      /\ placed' = placed + 1
  BY <1>2, <1>3 DEF InsertRow, InsertOrder
<1>5. row.serial = placed + 1 /\ row.status \in StoredStatuses
  BY <1>1 DEF TypeOK, Request
<1> QED
  BY <1>3, <1>4, <1>5, VInvNumbers, LifePlaces

LEMMA ReplaceStutters ==
  ASSUME TypeOK, VInv, VInv', NEW r \in Requests, ReplaceOrder(r)
  PROVE  lifeBar' = lifeBar
<1>1. /\ DOMAIN orders' = DOMAIN orders
      /\ \A i \in DOMAIN orders : /\ orders'[i].serial = orders[i].serial
                                  /\ orders'[i].status = orders[i].status
  <2>1. CASE Matches(orders, req[r].id, req[r].actor)
    <3> DEFINE id == req[r].id
               n == [orders[id] EXCEPT !.basket = req[r].basket]
    <3>1. id \in DOMAIN orders /\ orders[id] \in OrderRow
      BY <2>1 DEF Matches, TypeOK
    <3>2. orders' = [orders EXCEPT ![id] = n]
      BY <2>1, <3>1 DEF ReplaceOrder, TypeOK
    <3>3. n.serial = orders[id].serial /\ n.status = orders[id].status
      BY <3>1 DEF OrderRow
    <3> HIDE DEF n, id
    <3> QED
      BY <3>1, <3>2, <3>3 DEF TypeOK
  <2>2. CASE ~ Matches(orders, req[r].id, req[r].actor)
    BY <2>2 DEF ReplaceOrder, tables
  <2> QED
    BY <2>1, <2>2
<1>2. placed' = placed
  BY DEF ReplaceOrder, history
<1> QED
  BY <1>1, <1>2, VInvNumbers, LifeRests

LEMMA RemoveIsRemove ==
  ASSUME TypeOK, VInv, VInv', NEW r \in Requests, RemoveOrder(r)
  PROVE  lifeBar' = lifeBar \/ Lifecycle!Next
<1> DEFINE id == req[r].id
<1>1. /\ DOMAIN orders' \subseteq DOMAIN orders
      /\ DOMAIN orders \ {id} \subseteq DOMAIN orders'
      /\ \A i \in DOMAIN orders' : orders'[i] = orders[i]
      /\ placed' = placed
  BY DeleteHeaderShape DEF RemoveOrder, history
<1> QED
  BY <1>1, VInvNumbers, LifeRemoves

LEMMA MoveIsMove ==
  ASSUME TypeOK, VInv, VInv', NEW r \in Requests, MoveOrder(r)
  PROVE  lifeBar' = lifeBar \/ Lifecycle!Next
<1> DEFINE id == req[r].id
           to == req[r].to
<1>0. placed' = placed
  BY DEF MoveOrder
<1>1. CASE Matches(orders, id, req[r].actor) /\ IsValidTransition(orders[id].status, to)
  <2> DEFINE n == Moved(orders[id], to)
  <2>1. /\ id \in DOMAIN orders /\ orders[id] \in OrderRow
        /\ orders' = [orders EXCEPT ![id] = n]
    BY <1>1 DEF MoveOrder, Matches, TypeOK
  <2>2. n.serial = orders[id].serial /\ n.status = to
    BY <2>1 DEF Moved, OrderRow
  <2> HIDE DEF n
  <2>3. /\ DOMAIN orders' = DOMAIN orders
        /\ orders'[id] = n
        /\ \A i \in DOMAIN orders : i # id => orders'[i] = orders[i]
    BY <2>1 DEF TypeOK
  <2> QED
    BY <1>0, <1>1, <2>1, <2>2, <2>3, VInvNumbers, LifeMoves
<1>2. CASE ~ (Matches(orders, id, req[r].actor) /\ IsValidTransition(orders[id].status, to))
  <2>1. UNCHANGED orders
    BY <1>2 DEF MoveOrder
  <2> QED
    BY <1>0, <2>1, VInvNumbers, LifeRests
<1> QED
  BY <1>1, <1>2

LEMMA BarStep ==
  ASSUME IInv, VInv, VInv', [Next]_vars
  PROVE  [Lifecycle!Next]_lifeBar
<1>0. TypeOK /\ RequestsSound
  BY DEF IInv
<1>1. UNCHANGED <<orders, placed>> => lifeBar' = lifeBar
  BY DEF lifeBar, LifeOf, Live, Serials
<1>2. UNCHANGED vars \/ Restart => UNCHANGED <<orders, placed>>
  BY DEF vars, Restart, tables
<1>3. ASSUME NEW r \in Requests, Transaction(r)
      PROVE  lifeBar' = lifeBar \/ Lifecycle!Next
  <2>1. TransactionFails(r) => UNCHANGED <<orders, placed>>
    BY DEF TransactionFails, tables, history
  <2> QED
    BY <1>0, <1>1, <1>3, <2>1, InsertIsPlace, ReplaceStutters, RemoveIsRemove,
       MoveIsMove DEF Transaction
<1> QED
  BY <1>1, <1>2, <1>3, HeadersRest DEF Next

(* Every order on SQLite lives the documented lifecycle: it is placed      *)
(* once, moves along validTransitions only, stays where it is final, and,  *)
(* once removed, does not come back, though its id does.                   *)
THEOREM Implements == Spec => LifecycleHolds
<1>1. Init => Lifecycle!Init
  BY LifeBegins DEF Init
<1>2. IInv /\ VInv /\ VInv' /\ [Next]_vars => [Lifecycle!Next]_lifeBar
  BY BarStep
<1>3. Spec => [](IInv /\ VInv)
  BY InitHolds, StepHolds, VerifiedInit, VerifiedStep, PTL DEF Spec
<1> QED
  BY <1>1, <1>2, <1>3, PTL DEF Spec, LifecycleHolds, Lifecycle!Spec, lifeBar

-----------------------------------------------------------------------------
(***************************************************************************)
(* What customers are told of their orders on SQLite, for any number of    *)
(* requests and orders: no event of a committed change is forgotten, and   *)
(* none is published twice.                                                *)
(*                                                                         *)
(* Neither is inductive.  That the re-read behind a commit finds its order *)
(* needs that the request still names the one row that carries the serial  *)
(* it wrote, in the scope it reads with (Finding); that the phone is the   *)
(* right one, that what it read is that row (Truthful); that nobody is     *)
(* told twice, that the events a status still has ahead of it are not owed *)
(* yet (Ahead), so that a commit owes an event nobody owed before.         *)
(***************************************************************************)

LiveIn(table, serial) == \E id \in DOMAIN table : table[id].serial = serial

LEMMA LiveNow == \A s : Live(s) <=> LiveIn(orders, s)
BY DEF Live, LiveIn

LEMMA LiveNext == \A s : Live(s)' <=> LiveIn(orders', s)
BY DEF Live, LiveIn

(* A request that has committed a change it is to publish an event about.  *)
Owing(q) == q.method \in Publishing /\ q.wrote # 0
Mark(q) == [event |-> EventOf(q), serial |-> q.wrote]
Message(e) == [event |-> e.event, serial |-> e.serial, phone |-> e.serial]

Positive ==
  /\ \A id \in DOMAIN orders : orders[id].serial # 0
  /\ \A e \in owed : e.serial # 0

Early == {"idle", "select", "tx"}
Clean == \A r \in Requests : req[r].pc \in Early => req[r].wrote = 0

FindsIn(table, q) ==
  Matches(table, q.id, ReadScope(q)) /\ table[q.id].serial = q.wrote

Finding ==
  \A r \in Requests :
    Owing(req[r]) /\ LiveIn(orders, req[r].wrote) => FindsIn(orders, req[r])

Truthful ==
  \A r \in Requests :
    req[r].method \in Moving /\ req[r].pc \in {"lines", "publish"}
      => req[r].read = req[r].wrote \/ ~ LiveIn(orders, req[r].wrote)

(* The events an order in a status may still give rise to.                 *)
StillAhead(status) ==
  {e \in EventNames :
     \/ status = "pending" /\ e \in {"confirmed", "shipped", "delivered", "cancelled"}
     \/ status = "confirmed" /\ e \in {"shipped", "delivered", "cancelled"}
     \/ status = "shipped" /\ e \in {"delivered", "cancelled"}}

Ahead ==
  \A i \in DOMAIN orders, e \in owed :
    e.serial = orders[i].serial => e.event \notin StillAhead(orders[i].status)

Once ==
  \A r \in Requests : Owing(req[r]) =>
    \A m \in sent : ~ (m.event = EventOf(req[r]) /\ m.serial = req[r].wrote)

Apart ==
  \A r, s \in Requests :
    Owing(req[r]) /\ Owing(req[s]) /\ Mark(req[r]) = Mark(req[s]) => r = s

(* The inductive invariant, with IInv and VInv.                            *)
EInv ==
  Positive /\ Clean /\ Finding /\ Truthful /\ NoEventForgotten /\ Ahead /\ Once /\ Apart

(* A step that keeps the serial and owner of every order that stays; what  *)
(* it adds has a serial of its own.                                        *)
Kept ==
  \A i \in DOMAIN orders' : orders'[i].serial <= placed =>
    /\ i \in DOMAIN orders
    /\ orders'[i].serial = orders[i].serial
    /\ orders'[i].owner = orders[i].owner

LEMMA OwingIsOwed ==
  ASSUME IInv, VInv, Clean, NEW r \in Requests, Owing(req[r])
  PROVE  Mark(req[r]) \in owed /\ req[r].wrote <= placed /\ Mark(req[r]).serial = req[r].wrote
<1>1. req[r].pc \in {"header", "lines", "publish"}
  BY DEF IInv, TypeOK, Clean, Early, Owing
<1>2. Mark(req[r]) \in owed
  BY <1>1 DEF IInv, RequestsSound, MayTell, Owing, Mark
<1>3. Mark(req[r]).serial = req[r].wrote
  BY DEF Mark
<1> QED
  BY <1>2, <1>3 DEF VInv, SerialsTaken

LEMMA DeadStaysDead ==
  ASSUME Kept, NEW s, s <= placed, LiveIn(orders', s)
  PROVE  LiveIn(orders, s)
BY DEF Kept, LiveIn

LEMMA FindsKept ==
  ASSUME Kept, VInv, NEW q, q.wrote <= placed,
         LiveIn(orders, q.wrote) => FindsIn(orders, q),
         LiveIn(orders', q.wrote)
  PROVE  FindsIn(orders', q)
<1>1. PICK i \in DOMAIN orders' : orders'[i].serial = q.wrote
  BY DEF LiveIn
<1>2. /\ i \in DOMAIN orders /\ orders[i].serial = q.wrote
      /\ orders'[i].owner = orders[i].owner
  BY <1>1 DEF Kept
<1>3. FindsIn(orders, q)
  BY <1>2 DEF LiveIn
<1>4. i = q.id
  BY <1>2, <1>3 DEF FindsIn, Matches, VInv, SerialsDiffer
<1> QED
  BY <1>1, <1>2, <1>3, <1>4 DEF FindsIn, Matches, InScope

(* A step of one request, which becomes n.                                 *)
LEMMA OneRequest ==
  ASSUME IInv, VInv, EInv, NEW r \in Requests, NEW n, req' = [req EXCEPT ![r] = n],
         Kept, Positive', Ahead', dropped \subseteq dropped', sent \subseteq sent',
         n.pc \in Early => n.wrote = 0,
         Owing(n) /\ LiveIn(orders', n.wrote) => FindsIn(orders', n),
         n.method \in Moving /\ n.pc \in {"lines", "publish"}
           => n.read = n.wrote \/ ~ LiveIn(orders', n.wrote),
         \A e \in owed' : e \in owed \/ Owes(n, e),
         \A e : Owes(req[r], e) =>
           Owes(n, e) \/ ~ LiveIn(orders, e.serial) \/ e \in dropped' \/ Message(e) \in sent',
         \A m \in sent' : m \in sent \/
           /\ ~ Owing(n) /\ req[r].method \in Publishing
           /\ m.event = EventOf(req[r]) /\ m.serial = req[r].wrote,
         Owing(n) => \/ Owing(req[r]) /\ Mark(n) = Mark(req[r])
                     \/ Mark(n) \notin owed
  PROVE  EInv'
<1>0. req'[r] = n /\ \A s \in Requests : s # r => req'[s] = req[s]
  BY DEF IInv, TypeOK
<1>1. \A s \in Requests : Owing(req[s]) =>
        Mark(req[s]) \in owed /\ req[s].wrote <= placed /\ Mark(req[s]).serial = req[s].wrote
  BY OwingIsOwed DEF EInv
<1>2. Clean'
  BY <1>0 DEF EInv, Clean
<1>3. Finding'
  <2> SUFFICES ASSUME NEW s \in Requests, Owing(req'[s]), LiveIn(orders', req'[s].wrote)
               PROVE  FindsIn(orders', req'[s])
    BY DEF Finding
  <2>1. CASE s = r
    BY <1>0, <2>1
  <2>2. CASE s # r
    <3>1. req'[s] = req[s] /\ Owing(req[s]) /\ req[s].wrote <= placed
      BY <1>0, <1>1, <2>2
    <3>2. LiveIn(orders, req[s].wrote) => FindsIn(orders, req[s])
      BY <3>1 DEF EInv, Finding
    <3> QED
      BY <3>1, <3>2, FindsKept
  <2> QED
    BY <2>1, <2>2
<1>4. Truthful'
  <2> SUFFICES ASSUME NEW s \in Requests, req'[s].method \in Moving,
                      req'[s].pc \in {"lines", "publish"}, LiveIn(orders', req'[s].wrote)
               PROVE  req'[s].read = req'[s].wrote
    BY DEF Truthful
  <2>1. CASE s = r
    BY <1>0, <2>1
  <2>2. CASE s # r
    <3>1. req'[s] = req[s]
      BY <1>0, <2>2
    <3>2. req[s].wrote <= placed
      <4>1. Mark(req[s]) \in owed /\ Mark(req[s]).serial = req[s].wrote
        BY <3>1 DEF IInv, RequestsSound, MayTell, Mark, Publishing
      <4> QED
        BY <4>1 DEF VInv, SerialsTaken
    <3> QED
      BY <3>1, <3>2, DeadStaysDead DEF EInv, Truthful
  <2> QED
    BY <2>1, <2>2
<1>5. NoEventForgotten'
  <2> SUFFICES ASSUME NEW e \in owed', LiveIn(orders', e.serial), e \notin dropped',
                      Message(e) \notin sent'
               PROVE  \E s \in Requests : Owes(req'[s], e)
    BY LiveNext DEF NoEventForgotten, Message
  <2>1. CASE Owes(n, e)
    BY <1>0, <2>1
  <2>2. CASE ~ Owes(n, e)
    <3>1. e \in owed /\ e.serial <= placed
      BY <2>2 DEF VInv, SerialsTaken
    <3>2. LiveIn(orders, e.serial) /\ e \notin dropped /\ Message(e) \notin sent
      BY <3>1, DeadStaysDead
    <3>3. PICK s \in Requests : Owes(req[s], e)
      BY <3>1, <3>2, LiveNow DEF EInv, NoEventForgotten, Message
    <3>4. s # r
      BY <2>2, <3>2, <3>3
    <3> QED
      BY <1>0, <3>3, <3>4
  <2> QED
    BY <2>1, <2>2
<1>6. Once'
  <2> SUFFICES ASSUME NEW s \in Requests, Owing(req'[s]), NEW m \in sent',
                      m.event = EventOf(req'[s]), m.serial = req'[s].wrote
               PROVE  FALSE
    BY DEF Once
  <2>1. CASE m \in sent
    <3>1. CASE s # r
      BY <1>0, <2>1, <3>1 DEF EInv, Once
    <3>2. CASE s = r
      <4>1. Mark(n) \in owed
        BY <1>0, <2>1, <3>2 DEF IInv, NoPhantomEvent, Mark
      <4>2. Owing(req[r]) /\ Mark(n) = Mark(req[r])
        BY <1>0, <3>2, <4>1
      <4>3. m.event = EventOf(req[r]) /\ m.serial = req[r].wrote
        <5>1. Mark(n).event = EventOf(n) /\ Mark(n).serial = n.wrote
          BY DEF Mark
        <5>2. Mark(req[r]).event = EventOf(req[r]) /\ Mark(req[r]).serial = req[r].wrote
          BY DEF Mark
        <5> QED
          BY <1>0, <3>2, <4>2, <5>1, <5>2
      <4> QED
        BY <2>1, <4>2, <4>3 DEF EInv, Once
    <3> QED
      BY <3>1, <3>2
  <2>2. CASE m \notin sent
    <3>1. /\ ~ Owing(n) /\ req[r].method \in Publishing
          /\ m.event = EventOf(req[r]) /\ m.serial = req[r].wrote
      BY <2>2
    <3>2. s # r /\ req'[s] = req[s] /\ Owing(req[s])
      BY <1>0, <3>1
    <3>3. Owing(req[r]) /\ Mark(req[r]) = Mark(req[s])
      BY <3>1, <3>2 DEF Owing, Mark
    <3> QED
      BY <3>2, <3>3 DEF EInv, Apart
  <2> QED
    BY <2>1, <2>2
<1>7. Apart'
  <2> SUFFICES ASSUME NEW s \in Requests, NEW t \in Requests, s # t,
                      Owing(req'[s]), Owing(req'[t]), Mark(req'[s]) = Mark(req'[t])
               PROVE  FALSE
    BY DEF Apart
  <2>1. ASSUME NEW u \in Requests, u # r, Owing(req[u]), Owing(n), Mark(req[u]) = Mark(n)
        PROVE  FALSE
    BY <1>1, <2>1 DEF EInv, Apart
  <2> QED
    BY <1>0, <2>1 DEF EInv, Apart
<1> QED
  BY <1>2, <1>3, <1>4, <1>5, <1>6, <1>7 DEF EInv

-----------------------------------------------------------------------------
(* The steps outside the transactions. *)

LEMMA TablesRest ==
  ASSUME IInv, EInv, UNCHANGED <<orders, owed, placed>>
  PROVE  Kept /\ Positive' /\ Ahead'
<1>1. Kept /\ Positive'
  BY DEF Kept, EInv, Positive
<1>2. Ahead'
  BY DEF EInv, Ahead
<1> QED
  BY <1>1, <1>2

(* A request that is not on its way to publish anything becomes one that   *)
(* is not either.                                                          *)
LEMMA QuietStep ==
  ASSUME IInv, VInv, EInv, NEW r \in Requests, NEW n, req' = [req EXCEPT ![r] = n],
         Kept, Positive', Ahead', owed' = owed, sent' = sent, dropped \subseteq dropped',
         n.wrote = 0 \/ n.method \notin Publishing, n.pc \in Early => n.wrote = 0,
         n.pc \notin {"lines", "publish"} \/ n.method \notin Moving,
         \A e : Owes(req[r], e) => ~ LiveIn(orders, e.serial) \/ e \in dropped'
  PROVE  EInv'
<1>1. ~ Owing(n)
  BY DEF Owing
<1> QED
  BY <1>1, OneRequest

LEMMA IdleIsQuiet ==
  Idle.wrote = 0 /\ Idle.pc = "idle" /\ Idle.method = "none"
BY DEF Idle

LEMMA FinishQuiet ==
  ASSUME IInv, VInv, EInv, NEW r \in Requests, Finish(r),
         Kept, Positive', Ahead', owed' = owed, sent' = sent, dropped \subseteq dropped',
         \A e : Owes(req[r], e) => ~ LiveIn(orders, e.serial) \/ e \in dropped'
  PROVE  EInv'
<1>1. req' = [req EXCEPT ![r] = Idle]
  BY DEF Finish
<1>2. Idle.pc \notin {"lines", "publish"}
  BY IdleIsQuiet
<1> QED
  BY <1>1, <1>2, IdleIsQuiet, QuietStep

LEMMA OwesNothing ==
  ASSUME EInv, NEW r \in Requests, req[r].pc \in Early \/ req[r].method \notin Publishing
  PROVE  \A e : ~ Owes(req[r], e)
BY DEF EInv, Clean, Owes

LEMMA AcceptEvents ==
  ASSUME IInv, VInv, EInv, NEW r \in Requests, NEW method, NEW pc, NEW actor, NEW id,
         NEW to, NEW basket, pc \in {"tx", "select", "header"},
         Accept(r, method, pc, actor, id, to, basket)
  PROVE  EInv'
<1> DEFINE n == [method |-> method, pc |-> pc, actor |-> actor, id |-> id,
                 to |-> to, basket |-> basket, wrote |-> 0, read |-> 0]
<1>1. /\ req' = [req EXCEPT ![r] = n] /\ req[r] = Idle
      /\ UNCHANGED <<orders, placed, owed, sent, dropped>>
  BY DEF Accept, tables, history
<1>2. n.wrote = 0 /\ n.pc \notin {"lines", "publish"}
  OBVIOUS
<1> HIDE DEF n
<1>3. \A e : ~ Owes(req[r], e)
  BY <1>1, IdleIsQuiet DEF Owes
<1>4. Kept /\ Positive' /\ Ahead'
  BY <1>1, TablesRest
<1> QED
  BY <1>1, <1>2, <1>3, <1>4, QuietStep

LEMMA StartEvents ==
  ASSUME IInv, VInv, EInv, NEW r \in Requests, Start(r)
  PROVE  EInv'
<1>1. CASE Create(r)
  BY <1>1, AcceptEvents DEF Create
<1>2. CASE Checkout(r)
  BY <1>2, AcceptEvents DEF Checkout
<1>3. CASE Get(r)
  BY <1>3, AcceptEvents DEF Get
<1>4. CASE Update(r)
  BY <1>4, AcceptEvents DEF Update
<1>5. CASE Delete(r)
  BY <1>5, AcceptEvents DEF Delete
<1>6. CASE Cancel(r)
  BY <1>6, AcceptEvents DEF Cancel
<1>7. CASE UpdateStatus(r)
  BY <1>7, AcceptEvents DEF UpdateStatus
<1> QED
  BY <1>1, <1>2, <1>3, <1>4, <1>5, <1>6, <1>7 DEF Start

LEMMA FindEvents ==
  ASSUME IInv, VInv, EInv, NEW r \in Requests, FindOrder(r) \/ FindPending(r)
  PROVE  EInv'
<1>1. /\ UNCHANGED <<orders, placed, owed, sent, dropped>>
      /\ req[r].pc = "select" /\ (Finish(r) \/ GoTo(r, "tx"))
  BY DEF FindOrder, FindPending, At, tables, history
<1>2. Kept /\ Positive' /\ Ahead'
  BY <1>1, TablesRest
<1>3. (\A e : ~ Owes(req[r], e)) /\ req[r].wrote = 0
  BY <1>1, OwesNothing DEF Early, EInv, Clean
<1>4. CASE Finish(r)
  BY <1>1, <1>2, <1>3, <1>4, FinishQuiet
<1>5. CASE GoTo(r, "tx")
  <2> DEFINE n == [req[r] EXCEPT !.pc = "tx"]
  <2>1. req' = [req EXCEPT ![r] = n]
    BY <1>5 DEF GoTo, IInv, TypeOK
  <2>2. n.pc = "tx" /\ n.wrote = 0
    BY <1>3 DEF IInv, TypeOK, Request
  <2> HIDE DEF n
  <2> QED
    BY <1>1, <1>2, <1>3, <2>1, <2>2, QuietStep
<1> QED
  BY <1>1, <1>4, <1>5

(* What a request about to publish has written, it finds while the order   *)
(* is there.                                                               *)
LEMMA FoundOrDead ==
  ASSUME EInv, NEW r \in Requests, req[r].method \in Publishing,
         LiveIn(orders, req[r].wrote)
  PROVE  FindsIn(orders, req[r]) /\ Owing(req[r])
<1>1. req[r].wrote # 0
  BY DEF EInv, Positive, LiveIn
<1> QED
  BY <1>1 DEF EInv, Finding, Owing

LEMMA ReadHeaderEvents ==
  ASSUME IInv, VInv, EInv, NEW r \in Requests, ReadHeader(r)
  PROVE  EInv'
<1> DEFINE q == req[r]
<1>1. UNCHANGED <<orders, placed, owed, sent, dropped>> /\ q.pc = "header"
  BY DEF ReadHeader, tables, history
<1>2. Kept /\ Positive' /\ Ahead'
  BY <1>1, TablesRest
<1>3. CASE ~ Matches(orders, q.id, ReadScope(q))
  <2>1. Finish(r)
    BY <1>3 DEF ReadHeader
  <2>2. ASSUME NEW e, Owes(q, e), LiveIn(orders, e.serial)
        PROVE  FALSE
    <3>1. q.method \in Publishing /\ e.serial = q.wrote
      BY <2>2 DEF Owes
    <3> QED
      BY <1>3, <2>2, <3>1, FoundOrDead DEF FindsIn
  <2> QED
    BY <1>1, <1>2, <2>1, <2>2, FinishQuiet
<1>4. CASE Matches(orders, q.id, ReadScope(q))
  <2> DEFINE n == [q EXCEPT !.pc = "lines", !.read = orders[q.id].serial]
  <2>1. req' = [req EXCEPT ![r] = n]
    BY <1>4 DEF ReadHeader, IInv, TypeOK
  <2>2. /\ n.pc = "lines" /\ n.read = orders[q.id].serial
        /\ n.method = q.method /\ n.to = q.to /\ n.id = q.id
        /\ n.actor = q.actor /\ n.wrote = q.wrote
    BY DEF IInv, TypeOK, Request
  <2> HIDE DEF n
  <2>3. /\ Owing(n) <=> Owing(q)
        /\ Mark(n) = Mark(q)
        /\ \A e : Owes(q, e) <=> Owes(n, e)
        /\ FindsIn(orders, n) <=> FindsIn(orders, q)
    BY <2>2 DEF Owing, Mark, Owes, EventOf, FindsIn, ReadScope
  <2>4. n.method \in Moving => n.read = n.wrote \/ ~ LiveIn(orders', n.wrote)
    BY <1>1, <2>2, FoundOrDead DEF FindsIn, Publishing
  <2>5. Owing(n) /\ LiveIn(orders', n.wrote) => FindsIn(orders', n)
    BY <1>1, <2>2, <2>3 DEF EInv, Finding
  <2> QED
    BY <1>1, <1>2, <2>1, <2>2, <2>3, <2>4, <2>5, OneRequest DEF Early
<1> QED
  BY <1>3, <1>4

LEMMA ReadLinesEvents ==
  ASSUME IInv, VInv, EInv, NEW r \in Requests, ReadLines(r)
  PROVE  EInv'
<1> DEFINE q == req[r]
<1>1. UNCHANGED <<orders, placed, owed, sent, dropped>> /\ q.pc = "lines"
  BY DEF ReadLines, tables, history
<1>2. Kept /\ Positive' /\ Ahead'
  BY <1>1, TablesRest
<1>3. CASE q.method \notin Publishing
  <2>1. Finish(r)
    BY <1>3 DEF ReadLines
  <2> QED
    BY <1>1, <1>2, <1>3, <2>1, OwesNothing, FinishQuiet
<1>4. CASE q.method \in Publishing
  <2> DEFINE n == [q EXCEPT !.pc = "publish"]
  <2>1. req' = [req EXCEPT ![r] = n]
    BY <1>4 DEF ReadLines, GoTo, IInv, TypeOK
  <2>2. /\ n.pc = "publish" /\ n.read = q.read
        /\ n.method = q.method /\ n.to = q.to /\ n.id = q.id
        /\ n.actor = q.actor /\ n.wrote = q.wrote
    BY DEF IInv, TypeOK, Request
  <2> HIDE DEF n
  <2>3. /\ Owing(n) <=> Owing(q)
        /\ Mark(n) = Mark(q)
        /\ \A e : Owes(q, e) <=> Owes(n, e)
        /\ FindsIn(orders, n) <=> FindsIn(orders, q)
    BY <2>2 DEF Owing, Mark, Owes, EventOf, FindsIn, ReadScope
  <2>4. n.method \in Moving => n.read = n.wrote \/ ~ LiveIn(orders', n.wrote)
    BY <1>1, <2>2 DEF EInv, Truthful
  <2>5. Owing(n) /\ LiveIn(orders', n.wrote) => FindsIn(orders', n)
    BY <1>1, <2>2, <2>3 DEF EInv, Finding
  <2> QED
    BY <1>1, <1>2, <2>1, <2>2, <2>3, <2>4, <2>5, OneRequest DEF Early
<1> QED
  BY <1>3, <1>4

LEMMA PublishEvents ==
  ASSUME IInv, VInv, EInv, NEW r \in Requests, Publish(r)
  PROVE  EInv'
<1> DEFINE q == req[r]
           m == [event |-> EventOf(q), serial |-> q.wrote, phone |-> PhoneOf(q)]
<1>1. /\ UNCHANGED <<orders, placed, owed, dropped>> /\ q.pc = "publish"
      /\ sent' = sent \cup {m} /\ req' = [req EXCEPT ![r] = Idle]
  BY DEF Publish, Finish, tables
<1>2. Kept /\ Positive' /\ Ahead'
  BY <1>1, TablesRest
<1>3. q.method \in Publishing
  BY <1>1 DEF IInv, RequestsSound, MayTell
<1>4. m.event = EventOf(q) /\ m.serial = q.wrote
  OBVIOUS
<1>5. ASSUME NEW e, Owes(q, e), LiveIn(orders, e.serial)
      PROVE  Message(e) \in sent'
  <2>1. e = [event |-> EventOf(q), serial |-> q.wrote]
    BY <1>5 DEF Owes
  <2>2. e.event = EventOf(q) /\ e.serial = q.wrote
    BY <2>1
  <2>3. PhoneOf(q) = q.wrote
    BY <1>1, <1>3, <1>5, <2>2 DEF PhoneOf, Publishing, EInv, Truthful
  <2>4. Message(e) = m
    BY <2>2, <2>3 DEF Message
  <2> QED
    BY <1>1, <2>4
<1> HIDE DEF m
<1>6. ~ Owing(Idle) /\ Idle.pc \notin {"lines", "publish"}
  BY IdleIsQuiet DEF Owing
<1> QED
  BY <1>1, <1>2, <1>3, <1>4, <1>5, <1>6, IdleIsQuiet, OneRequest

LEMMA ReadFailsEvents ==
  ASSUME IInv, VInv, EInv, NEW r \in Requests, ReadFails(r)
  PROVE  EInv'
<1>1. /\ UNCHANGED <<orders, placed, owed, sent>> /\ Finish(r)
      /\ dropped' = dropped \cup Pending(r)
  BY DEF ReadFails, tables
<1>2. Kept /\ Positive' /\ Ahead'
  BY <1>1, TablesRest
<1>3. ASSUME NEW e, Owes(req[r], e)
      PROVE  e \in dropped'
  <2>1. e \in owed
    BY <1>3, OwingIsOwed DEF Owes, Owing, Mark, EInv
  <2> QED
    BY <1>1, <1>3, <2>1 DEF Pending
<1> QED
  BY <1>1, <1>2, <1>3, FinishQuiet

LEMMA RestartEvents ==
  ASSUME IInv, VInv, EInv, Restart
  PROVE  EInv'
<1>1. /\ UNCHANGED <<orders, placed, owed, sent>>
      /\ req' = [r \in Requests |-> Idle]
      /\ dropped' = dropped \cup UNION {Pending(r) : r \in Requests}
  BY DEF Restart, tables
<1>2. Positive' /\ Ahead'
  BY <1>1, TablesRest
<1>3. \A r \in Requests : req'[r] = Idle
  BY <1>1
<1>4. \A r \in Requests : ~ Owing(req'[r]) /\ req'[r].wrote = 0 /\ req'[r].pc = "idle"
  BY <1>3, IdleIsQuiet DEF Owing
<1>5. Clean' /\ Finding' /\ Truthful' /\ Once' /\ Apart'
  BY <1>4 DEF Clean, Finding, Truthful, Once, Apart
<1>6. NoEventForgotten'
  <2> SUFFICES ASSUME NEW e \in owed, Live(e.serial), e \notin dropped', Message(e) \notin sent
               PROVE  FALSE
    BY <1>1 DEF NoEventForgotten, Message, Live
  <2>1. PICK r \in Requests : Owes(req[r], e)
    BY <1>1 DEF EInv, NoEventForgotten, Message
  <2>2. e \in Pending(r)
    BY <2>1 DEF Pending
  <2> QED
    BY <1>1, <2>2
<1> QED
  BY <1>2, <1>5, <1>6 DEF EInv

LEMMA ServiceEvents ==
  ASSUME IInv, VInv, EInv, NEW r \in Requests, ServiceStep(r)
  PROVE  EInv'
BY StartEvents, FindEvents, ReadHeaderEvents, ReadLinesEvents, PublishEvents,
   ReadFailsEvents DEF ServiceStep

-----------------------------------------------------------------------------
(* The transactions. *)

LEMMA InsertEvents ==
  ASSUME IInv, VInv, EInv, NEW r \in Requests, InsertOrder(r)
  PROVE  EInv'
<1> DEFINE q == req[r]
           e == [event |-> "placed", serial |-> placed + 1]
<1>0. /\ q \in Request /\ q.method \in Inserting /\ q.pc = "tx"
      /\ placed \in Nat /\ placed' = placed + 1
      /\ UNCHANGED <<sent, dropped>>
      /\ owed' = owed \cup (IF q.method = "Checkout" THEN {e} ELSE {})
  BY DEF InsertOrder, IInv, TypeOK, At
<1>a. PICK row : row = [owner |-> OwnerOf(q.actor), status |-> q.to, basket |-> q.basket,
                        serial |-> placed + 1, verified |-> FALSE]
  OBVIOUS
<1>b. row.serial = placed + 1
  BY <1>a
<1>1. PICK id \in NextIds(orders) :
        /\ orders' = InsertRow(orders, id, row)
        /\ req' = [req EXCEPT ![r].pc = "header", ![r].id = id, ![r].wrote = placed + 1]
  BY <1>a DEF InsertOrder
<1>2. id \notin DOMAIN orders
  BY NextIdIsFresh, ItemsAreTable DEF IsTable, IInv
<1>3. /\ DOMAIN orders' = DOMAIN orders \cup {id}
      /\ orders'[id] = row
      /\ \A i \in DOMAIN orders : orders'[i] = orders[i]
  BY <1>1, <1>2 DEF InsertRow
<1> DEFINE n == [q EXCEPT !.pc = "header", !.id = id, !.wrote = placed + 1]
<1>4. req' = [req EXCEPT ![r] = n]
  BY <1>1 DEF IInv, TypeOK
<1>5. /\ n.pc = "header" /\ n.method = q.method /\ n.id = id /\ n.wrote = placed + 1
  BY <1>0 DEF Request
<1>6. e.event = "placed" /\ e.serial = placed + 1
  OBVIOUS
<1>7. \A x \in owed : x.serial \in Nat /\ x.serial <= placed /\ x.serial # 0
  BY DEF VInv, SerialsTaken, IInv, TypeOK, Event, EInv, Positive
<1>8. \A i \in DOMAIN orders : orders[i].serial \in Nat /\ orders[i].serial <= placed
  BY DEF VInv, SerialsTaken, IInv, TypeOK, OrderRow
<1>9. Owes(n, e) <=> q.method = "Checkout"
  BY <1>0, <1>5 DEF Owes, Publishing, Moving, Inserting, EventOf
<1>10. Owing(n) => Mark(n) = e
  BY <1>0, <1>5 DEF Owing, Mark, Publishing, Moving, Inserting, EventOf
<1> HIDE DEF n, e
<1>11. Kept
  BY <1>0, <1>b, <1>3 DEF Kept
<1>12. Positive'
  BY <1>0, <1>b, <1>3, <1>6 DEF EInv, Positive
<1>13. Ahead'
  <2> SUFFICES ASSUME NEW i \in DOMAIN orders', NEW x \in owed', x.serial = orders'[i].serial
               PROVE  x.event \notin StillAhead(orders'[i].status)
    BY DEF Ahead
  <2>1. CASE x = e
    BY <1>6, <2>1 DEF StillAhead
  <2>2. CASE x # e
    <3>1. x \in owed
      BY <1>0, <2>2
    <3>2. i \in DOMAIN orders
      BY <1>0, <1>b, <1>3, <1>7, <3>1
    <3> QED
      BY <1>3, <3>1, <3>2 DEF EInv, Ahead
  <2> QED
    BY <2>1, <2>2
<1>14. LiveIn(orders', n.wrote) => FindsIn(orders', n)
  BY <1>0, <1>b, <1>3, <1>5 DEF FindsIn, Matches, InScope, ReadScope
<1>15. e \notin owed
  BY <1>0, <1>6, <1>7
<1>16. \A x : ~ Owes(q, x)
  BY <1>0, OwesNothing DEF Early
<1> QED
  BY <1>0, <1>4, <1>5, <1>9, <1>10, <1>11, <1>12, <1>13, <1>14, <1>15, <1>16, OneRequest
     DEF Early

LEMMA ReplaceEvents ==
  ASSUME IInv, VInv, EInv, NEW r \in Requests, ReplaceOrder(r)
  PROVE  EInv'
<1> DEFINE q == req[r]
           id == q.id
<1>0. /\ q \in Request /\ q.method = "Update" /\ q.pc = "tx"
      /\ UNCHANGED <<placed, owed, sent, dropped>>
  BY DEF ReplaceOrder, IInv, TypeOK, At, history
<1>1. \A e : ~ Owes(q, e)
  BY <1>0, OwesNothing DEF Early
<1>2. CASE ~ Matches(orders, id, q.actor)
  <2>1. Finish(r) /\ orders' = orders
    BY <1>2 DEF ReplaceOrder, tables
  <2>2. Kept /\ Positive' /\ Ahead'
    BY <1>0, <2>1, TablesRest
  <2> QED
    BY <1>0, <1>1, <2>1, <2>2, FinishQuiet
<1>3. CASE Matches(orders, id, q.actor)
  <2> DEFINE row == [orders[id] EXCEPT !.basket = q.basket]
             n == [q EXCEPT !.pc = "header", !.wrote = orders[id].serial]
  <2>1. id \in DOMAIN orders /\ orders[id] \in OrderRow
    BY <1>3 DEF Matches, IInv, TypeOK
  <2>2. orders' = [orders EXCEPT ![id] = row]
    BY <1>3, <2>1 DEF ReplaceOrder, IInv, TypeOK
  <2>3. row.serial = orders[id].serial /\ row.owner = orders[id].owner
        /\ row.status = orders[id].status
    BY <2>1 DEF OrderRow
  <2>4. req' = [req EXCEPT ![r] = n]
    BY <1>3 DEF ReplaceOrder, IInv, TypeOK
  <2>5. n.pc = "header" /\ n.method = "Update"
    BY <1>0 DEF Request
  <2> HIDE DEF row, n, id
  <2>6. /\ DOMAIN orders' = DOMAIN orders
        /\ \A i \in DOMAIN orders : /\ orders'[i].serial = orders[i].serial
                                    /\ orders'[i].owner = orders[i].owner
                                    /\ orders'[i].status = orders[i].status
    BY <2>1, <2>2, <2>3 DEF IInv, TypeOK
  <2>7. Kept /\ Positive'
    BY <1>0, <2>6 DEF Kept, EInv, Positive
  <2>8. Ahead'
    BY <1>0, <2>6 DEF EInv, Ahead
  <2> QED
    BY <1>0, <1>1, <2>4, <2>5, <2>7, <2>8, QuietStep DEF Publishing, Moving, Early
<1> QED
  BY <1>2, <1>3

LEMMA RemoveEvents ==
  ASSUME IInv, VInv, EInv, NEW r \in Requests, RemoveOrder(r)
  PROVE  EInv'
<1>0. /\ UNCHANGED <<placed, owed, sent, dropped>> /\ Finish(r) /\ req[r].pc = "tx"
      /\ orders' = DeleteHeader(orders, req[r].id, req[r].actor)
  BY DEF RemoveOrder, At, history
<1>1. /\ DOMAIN orders' \subseteq DOMAIN orders
      /\ \A i \in DOMAIN orders' : orders'[i] = orders[i]
  BY <1>0, DeleteHeaderShape
<1>2. Kept /\ Positive'
  BY <1>0, <1>1 DEF Kept, EInv, Positive
<1>3. Ahead'
  BY <1>0, <1>1 DEF EInv, Ahead
<1>4. \A e : ~ Owes(req[r], e)
  BY <1>0, OwesNothing DEF Early
<1> QED
  BY <1>0, <1>2, <1>3, <1>4, FinishQuiet

(* A step of validTransitions is ahead of the status it starts from, and   *)
(* leaves ahead only what was, itself not among it.                        *)
LEMMA StepsAhead ==
  ASSUME NEW from, NEW to, IsValidTransition(from, to)
  PROVE  /\ to \in StillAhead(from) /\ to \notin StillAhead(to)
         /\ StillAhead(to) \subseteq StillAhead(from)
BY DEF IsValidTransition, ValidTransitions, StillAhead, EventNames

LEMMA MoveEvents ==
  ASSUME IInv, VInv, EInv, NEW r \in Requests, MoveOrder(r)
  PROVE  EInv'
<1> DEFINE q == req[r]
           id == q.id
           to == q.to
<1>0. /\ q \in Request /\ q.method \in Moving /\ q.pc = "tx"
      /\ UNCHANGED <<placed, sent, dropped>>
  BY DEF MoveOrder, IInv, TypeOK, At
<1>1. \A e : ~ Owes(q, e)
  BY <1>0, OwesNothing DEF Early
<1>2. CASE ~ (Matches(orders, id, q.actor) /\ IsValidTransition(orders[id].status, to))
  <2>1. Finish(r) /\ orders' = orders /\ owed' = owed
    BY <1>2 DEF MoveOrder
  <2>2. Kept /\ Positive' /\ Ahead'
    BY <1>0, <2>1, TablesRest
  <2> QED
    BY <1>0, <1>1, <2>1, <2>2, FinishQuiet
<1>3. CASE Matches(orders, id, q.actor) /\ IsValidTransition(orders[id].status, to)
  <2> DEFINE row == Moved(orders[id], to)
             s == orders[id].serial
             e == [event |-> to, serial |-> s]
             n == [q EXCEPT !.pc = "header", !.wrote = s]
  <2>1. id \in DOMAIN orders /\ orders[id] \in OrderRow /\ InScope(orders[id], q.actor)
    BY <1>3 DEF Matches, IInv, TypeOK
  <2>2. orders' = [orders EXCEPT ![id] = row] /\ owed' = owed \cup {e}
    BY <1>3 DEF MoveOrder, IInv, TypeOK
  <2>3. row.serial = s /\ row.owner = orders[id].owner /\ row.status = to
    BY <2>1 DEF OrderRow, Moved
  <2>4. req' = [req EXCEPT ![r] = n]
    BY <1>3 DEF MoveOrder, IInv, TypeOK
  <2>5. /\ n.pc = "header" /\ n.method = q.method /\ n.id = id /\ n.to = to
        /\ n.actor = q.actor /\ n.wrote = s
    BY <1>0 DEF Request
  <2>6. e.event = to /\ e.serial = s
    OBVIOUS
  <2>7. s # 0
    BY <2>1 DEF EInv, Positive
  <2>8. Owes(n, e) /\ Mark(n) = e
    BY <1>0, <2>5, <2>7 DEF Owes, Mark, EventOf, Publishing, Moving
  <2>9. PICK from : from = orders[id].status
    OBVIOUS
  <2>10. /\ to \in StillAhead(from) /\ to \notin StillAhead(to)
         /\ StillAhead(to) \subseteq StillAhead(from)
    BY <1>3, <2>9, StepsAhead
  <2>11. \A i \in DOMAIN orders : orders[i].serial = s => i = id
    BY <2>1 DEF VInv, SerialsDiffer
  <2> HIDE DEF row, n, id, e, to, s
  <2>12. /\ DOMAIN orders' = DOMAIN orders
         /\ orders'[id] = row
         /\ \A i \in DOMAIN orders : i # id => orders'[i] = orders[i]
    BY <2>1, <2>2 DEF IInv, TypeOK
  <2>13. \A i \in DOMAIN orders : /\ orders'[i].serial = orders[i].serial
                                  /\ orders'[i].owner = orders[i].owner
    BY <2>3, <2>12 DEF s
  <2>14. Kept /\ Positive'
    BY <1>0, <2>2, <2>6, <2>7, <2>12, <2>13 DEF Kept, EInv, Positive
  <2>15. Ahead'
    <3> SUFFICES ASSUME NEW i \in DOMAIN orders', NEW x \in owed',
                        x.serial = orders'[i].serial
                 PROVE  x.event \notin StillAhead(orders'[i].status)
      BY DEF Ahead
    <3>1. i \in DOMAIN orders /\ orders'[i].serial = orders[i].serial
      BY <2>12, <2>13
    <3>2. CASE x = e
      BY <2>3, <2>6, <2>10, <2>11, <2>12, <3>1, <3>2
    <3>3. CASE x # e
      <4>1. x \in owed /\ x.event \notin StillAhead(orders[i].status)
        BY <2>2, <3>1, <3>3 DEF EInv, Ahead
      <4> QED
        BY <2>3, <2>9, <2>10, <2>12, <3>1, <4>1
    <3> QED
      BY <3>2, <3>3
  <2>16. FindsIn(orders', n)
    BY <1>0, <2>1, <2>3, <2>5, <2>12 DEF FindsIn, Matches, InScope, ReadScope, Moving, Inserting
  <2>17. e \notin owed
    BY <2>1, <2>6, <2>9, <2>10 DEF EInv, Ahead, s
  <2> QED
    BY <1>0, <1>1, <2>2, <2>4, <2>5, <2>8, <2>14, <2>15, <2>16, <2>17, OneRequest DEF Early
<1> QED
  BY <1>2, <1>3

LEMMA TransactionFailsEvents ==
  ASSUME IInv, VInv, EInv, NEW r \in Requests, TransactionFails(r)
  PROVE  EInv'
<1>1. UNCHANGED <<orders, placed, owed, sent, dropped>> /\ Finish(r) /\ req[r].pc = "tx"
  BY DEF TransactionFails, tables, history
<1>2. \A e : ~ Owes(req[r], e)
  BY <1>1, OwesNothing DEF Early
<1> QED
  BY <1>1, <1>2, TablesRest, FinishQuiet

LEMMA EventsStep == IInv /\ VInv /\ EInv /\ [Next]_vars => EInv'
<1> SUFFICES ASSUME IInv, VInv, EInv, [Next]_vars
             PROVE  EInv'
  OBVIOUS
<1>1. CASE UNCHANGED vars
  BY <1>1 DEF vars, EInv, Positive, Clean, Finding, Truthful, NoEventForgotten, Ahead,
              Once, Apart, Live
<1>2. ASSUME NEW r \in Requests, Transaction(r)
      PROVE  EInv'
  BY <1>2, InsertEvents, ReplaceEvents, RemoveEvents, MoveEvents, TransactionFailsEvents
     DEF Transaction
<1> QED
  BY <1>1, <1>2, RestartEvents, ServiceEvents DEF Next

LEMMA EventsInit == Init => EInv
<1> SUFFICES ASSUME Init
             PROVE  EInv
  OBVIOUS
<1>1. \A r \in Requests : req[r] = Idle
  BY DEF Init
<1>2. \A r \in Requests : ~ Owing(req[r]) /\ req[r].wrote = 0 /\ req[r].pc = "idle"
  BY <1>1, IdleIsQuiet DEF Owing
<1>3. Clean /\ Finding /\ Truthful /\ Once /\ Apart
  BY <1>2 DEF Clean, Finding, Truthful, Once, Apart
<1>4. Positive /\ Ahead /\ NoEventForgotten
  BY DEF Init, Positive, Ahead, NoEventForgotten
<1> QED
  BY <1>3, <1>4 DEF EInv

LEMMA EventsHold == Spec => [](IInv /\ VInv /\ EInv)
<1>1. Init => IInv /\ VInv /\ EInv
  BY InitHolds, VerifiedInit, EventsInit
<1>2. (IInv /\ VInv /\ EInv) /\ [Next]_vars => (IInv /\ VInv /\ EInv)'
  BY StepHolds, VerifiedStep, EventsStep
<1> QED
  BY <1>1, <1>2, PTL DEF Spec

(* A committed change of an order that still exists is published, to that  *)
(* order's phone, unless a fault hit its request (service.go Checkout,     *)
(* Cancel, UpdateStatus): no other request that gets in front of the       *)
(* re-read, and no id given out again, makes it forgotten or misdirected.  *)
THEOREM NothingForgotten == Spec => []NoEventForgotten
<1>1. IInv /\ VInv /\ EInv => NoEventForgotten
  BY DEF EInv
<1> QED
  BY <1>1, EventsHold, PTL

(* No two requests publish the same event about the same order: of two     *)
(* that race to make the same transition (service.go Cancel, UpdateStatus) *)
(* one commits it, and a checkout announces an order of its own.           *)
THEOREM ToldOnce == Spec => NoDuplicateEvent
<1>1. IInv /\ VInv /\ EInv /\ [Next]_vars =>
        [\A r \in Requests : Publish(r) =>
           ~ \E m \in sent : m.event = EventOf(req[r]) /\ m.serial = req[r].wrote]_vars
  <2> SUFFICES ASSUME IInv, EInv, NEW r \in Requests, Publish(r)
               PROVE  ~ \E m \in sent : m.event = EventOf(req[r]) /\ m.serial = req[r].wrote
    OBVIOUS
  <2>1. req[r].pc = "publish"
    BY DEF Publish
  <2>2. req[r].method \in Publishing /\ Mark(req[r]) \in owed
    BY <2>1 DEF IInv, RequestsSound, MayTell, Mark
  <2>3. Owing(req[r])
    BY <2>2 DEF EInv, Positive, Owing, Mark
  <2> QED
    BY <2>3 DEF EInv, Once
<1> QED
  BY <1>1, EventsHold, PTL DEF Spec, NoDuplicateEvent

-----------------------------------------------------------------------------
(***************************************************************************)
(* Documents.  A reader goes from query to query while requests write.     *)
(* That its answer mixes no two orders needs that a header nobody wrote is *)
(* still as it was read (PageFair), and that every page is made of headers *)
(* of the table to begin with, which takes counting the orders in scope    *)
(* (EveryRankIsTaken).  That an invoice keeps its number needs that only   *)
(* placed orders have one and a live one its own id (ColumnFair).          *)
(***************************************************************************)

Header == [id : Nat, serial : Nat, basket : Baskets]
Document ==
  [kind : {"none", "list", "get", "invoice"}, pc : {"idle", "items", "assign", "answer"},
   actor : Actors, heads : Seq(Header), lines : Seq(SUBSET ItemRow), number : Nat]

(* The number in a column, the table and the history being arguments so    *)
(* that what is said of them can be said of the next state too.            *)
NumberIn(column, serial) == IF serial \in DOMAIN column THEN column[serial] ELSE 0

(* An order that was placed has this number on record if it still exists,  *)
(* and that is its id.                                                     *)
OnRecord(serial, number, column, table, n) ==
  /\ serial \in 0 .. n
  /\ \A id \in DOMAIN table :
       table[id].serial = serial => NumberIn(column, serial) = number /\ number = id

(* Only orders that were placed have a number, and a live one its own id.  *)
ColumnFair(column, table, n) ==
  /\ DOMAIN column \subseteq 0 .. n
  /\ \A id \in DOMAIN table : NumberIn(column, table[id].serial) \in {0, id}

(* An invoice on its way: the order it is for, if it still exists, has the *)
(* id it had, and a number once read or assigned is on record.             *)
InvoiceFair(q, column, table, n) ==
  q.kind = "invoice" =>
    /\ Len(q.heads) = 1
    /\ q.heads[1].serial \in 0 .. n
    /\ \A id \in DOMAIN table : table[id].serial = q.heads[1].serial => id = q.heads[1].id
    /\ q.number # 0 => OnRecord(q.heads[1].serial, q.number, column, table, n)
    /\ q.pc = "answer" => q.number # 0

(* An answer on its way: while lines are still to be read, the headers of  *)
(* orders nobody wrote are as they were read.                              *)
PageFair(q, written, table) ==
  /\ Len(q.lines) <= Len(q.heads)
  /\ q.pc = "items" =>
       /\ Len(q.lines) < Len(q.heads)
       /\ \A k \in DOMAIN q.heads : q.heads[k].id \notin written =>
            /\ q.heads[k].id \in DOMAIN table
            /\ table[q.heads[k].id].serial = q.heads[k].serial
            /\ table[q.heads[k].id].basket = q.heads[k].basket
  /\ \A k \in DOMAIN q.lines :
       q.heads[k].id \notin written => Whole(q.heads[k], q.lines[k])

DocumentsType ==
  /\ IsFiniteSet(DOMAIN orders)
  /\ doc \in [Readers -> Document]
  /\ touched \in [Readers -> SUBSET Nat]

InvoicesFair ==
  /\ ColumnFair(numbers, orders, placed)
  /\ \A invoice \in rendered :
       OnRecord(invoice.serial, invoice.number, numbers, orders, placed)
  /\ \A d \in Readers : InvoiceFair(doc[d], numbers, orders, placed)

PagesFair == \A d \in Readers : PageFair(doc[d], touched[d], orders)

DInv == DocumentsType /\ InvoicesFair /\ PagesFair

-----------------------------------------------------------------------------
(* In a finite set of ids each rank from the top is somebody's: to rank is *)
(* to count the ids above, which tells any two ids apart, and as many      *)
(* ranks are to be had as there are ids.                                   *)
Above(ids, id) == {i \in ids : i > id}

LEMMA AboveIsLess ==
  ASSUME NEW ids \in SUBSET Nat, IsFiniteSet(ids), NEW id \in ids
  PROVE  /\ IsFiniteSet(Above(ids, id)) /\ Cardinality(Above(ids, id)) \in Nat
         /\ Cardinality(Above(ids, id)) < Cardinality(ids)
<1>1. Above(ids, id) \in SUBSET ids /\ Above(ids, id) # ids
  BY DEF Above
<1>2. Cardinality(ids) \in Nat /\ IsFiniteSet(Above(ids, id))
  BY <1>1, FS_Subset, FS_CardinalityType
<1>3. Cardinality(Above(ids, id)) \in Nat
  BY <1>2, FS_CardinalityType
<1>4. /\ Cardinality(Above(ids, id)) <= Cardinality(ids)
      /\ Cardinality(ids) # Cardinality(Above(ids, id))
  BY <1>1, FS_Subset
<1> QED
  BY <1>2, <1>3, <1>4

LEMMA RanksDiffer ==
  ASSUME NEW ids \in SUBSET Nat, IsFiniteSet(ids), NEW i \in ids, NEW j \in ids, i < j
  PROVE  Cardinality(Above(ids, j)) < Cardinality(Above(ids, i))
<1>0. ids \subseteq Int /\ i \in Int /\ j \in Int
  OBVIOUS
<1>1. /\ \A k \in Above(ids, j) : k \in Above(ids, i)
      /\ j \in Above(ids, i) /\ j \notin Above(ids, j)
  BY <1>0 DEF Above
<1>2. /\ Cardinality(Above(ids, j)) \in Nat /\ Cardinality(Above(ids, i)) \in Nat
      /\ IsFiniteSet(Above(ids, i))
  BY AboveIsLess
<1>3. /\ Cardinality(Above(ids, j)) <= Cardinality(Above(ids, i))
      /\ Cardinality(Above(ids, i)) # Cardinality(Above(ids, j))
  BY <1>1, <1>2, FS_Subset
<1> QED
  BY <1>2, <1>3

LEMMA EveryRankIsTaken ==
  ASSUME NEW ids \in SUBSET Nat, IsFiniteSet(ids), NEW n \in 1 .. Cardinality(ids)
  PROVE  \E id \in ids : Cardinality(Above(ids, id)) = n - 1
<1> DEFINE rank == [id \in ids |-> Cardinality(Above(ids, id))]
           ranks == 0 .. Cardinality(ids) - 1
<1>1. Cardinality(ids) \in Nat
  BY FS_CardinalityType
<1>2. \A id \in ids : rank[id] \in ranks
  BY <1>1, AboveIsLess
<1>3. \A i, j \in ids : rank[i] = rank[j] => i = j
  <2> SUFFICES ASSUME NEW i \in ids, NEW j \in ids, i # j
               PROVE  rank[i] # rank[j]
    OBVIOUS
  <2>0. i \in Nat /\ j \in Nat /\ rank[i] \in Int /\ rank[j] \in Int
    BY <1>2
  <2>1. i < j \/ j < i
    BY <2>0
  <2> QED
    BY <2>0, <2>1, RanksDiffer
<1>4. rank \in Injection(ids, ranks)
  BY <1>2, <1>3 DEF Injection, IsInjective
<1>5. IsFiniteSet(ranks) /\ Cardinality(ranks) = Cardinality(ids)
  <2>1. PICK top : top = Cardinality(ids) - 1
    OBVIOUS
  <2>2. top \in Int /\ top + 1 = Cardinality(ids) /\ top - 0 + 1 = Cardinality(ids)
        /\ (0 > top => Cardinality(ids) = 0)
    BY <1>1, <2>1
  <2>3. IsFiniteSet(0 .. top) /\ Cardinality(0 .. top) = IF 0 > top THEN 0 ELSE top - 0 + 1
    BY <2>2, FS_Interval
  <2> QED
    BY <2>1, <2>2, <2>3
<1>6. rank \in Surjection(ids, ranks)
  BY <1>4, <1>5, FS_Injection
<1>7. n - 1 \in ranks
  BY <1>1
<1> QED
  BY <1>6, <1>7 DEF Surjection

-----------------------------------------------------------------------------
(* A transaction moves no order to another serial and adds at most the one *)
(* that is placed next.                                                    *)
LEMMA KeptByTransaction ==
  ASSUME TypeOK, NEW r \in Requests, Transaction(r)
  PROVE  /\ \A i \in DOMAIN orders' : orders'[i].serial <= placed =>
              i \in DOMAIN orders /\ orders'[i].serial = orders[i].serial
         /\ placed' \in {placed, placed + 1}
         /\ \E id : DOMAIN orders' \subseteq DOMAIN orders \cup {id}
<1> DEFINE q == req[r]
<1>0. placed \in Nat
  BY DEF TypeOK
<1>1. CASE InsertOrder(r)
  <2>0. PICK row : row = [owner |-> OwnerOf(q.actor), status |-> q.to,
                          basket |-> q.basket, serial |-> placed + 1,
                          verified |-> FALSE]
    OBVIOUS
  <2>1. PICK id \in NextIds(orders) : orders' = InsertRow(orders, id, row)
    BY <1>1, <2>0 DEF InsertOrder
  <2>2. id \notin DOMAIN orders
    BY NextIdIsFresh, ItemsAreTable DEF IsTable
  <2>3. /\ DOMAIN orders' = DOMAIN orders \cup {id} /\ orders'[id] = row
        /\ \A i \in DOMAIN orders : orders'[i] = orders[i]
        /\ placed' = placed + 1
    BY <1>1, <2>1, <2>2 DEF InsertRow, InsertOrder
  <2>4. row.serial = placed + 1
    BY <2>0
  <2> QED
    BY <1>0, <2>3, <2>4
<1>2. CASE ReplaceOrder(r)
  <2>0. placed' = placed
    BY <1>2 DEF ReplaceOrder, history
  <2>1. CASE Matches(orders, q.id, q.actor)
    <3> DEFINE id == q.id
               n == [orders[id] EXCEPT !.basket = q.basket]
    <3>1. id \in DOMAIN orders /\ orders[id] \in OrderRow
      BY <2>1 DEF Matches, TypeOK
    <3>2. orders' = [orders EXCEPT ![id] = n]
      BY <1>2, <2>1, <3>1 DEF ReplaceOrder, TypeOK
    <3>3. n.serial = orders[id].serial
      BY <3>1 DEF OrderRow
    <3> HIDE DEF n, id
    <3> QED
      BY <2>0, <3>1, <3>2, <3>3 DEF TypeOK
  <2>2. CASE ~ Matches(orders, q.id, q.actor)
    BY <1>2, <2>0, <2>2 DEF ReplaceOrder, tables
  <2> QED
    BY <2>1, <2>2
<1>3. CASE RemoveOrder(r)
  <2>1. placed' = placed /\ orders' = DeleteHeader(orders, q.id, q.actor)
    BY <1>3 DEF RemoveOrder, history
  <2>2. /\ DOMAIN orders' \subseteq DOMAIN orders
        /\ \A i \in DOMAIN orders' : orders'[i] = orders[i]
    BY <2>1, DeleteHeaderShape
  <2> QED
    BY <2>1, <2>2
<1>4. CASE MoveOrder(r)
  <2>0. placed' = placed
    BY <1>4 DEF MoveOrder
  <2>1. CASE Matches(orders, q.id, q.actor) /\ IsValidTransition(orders[q.id].status, q.to)
    <3> DEFINE id == q.id
               n == Moved(orders[id], q.to)
    <3>1. id \in DOMAIN orders /\ orders[id] \in OrderRow
      BY <2>1 DEF Matches, TypeOK
    <3>2. orders' = [orders EXCEPT ![id] = n]
      BY <1>4, <2>1, <3>1 DEF MoveOrder, TypeOK
    <3>3. n.serial = orders[id].serial
      BY <3>1 DEF OrderRow, Moved
    <3> HIDE DEF n, id
    <3> QED
      BY <2>0, <3>1, <3>2, <3>3 DEF TypeOK
  <2>2. CASE ~ (Matches(orders, q.id, q.actor) /\ IsValidTransition(orders[q.id].status, q.to))
    BY <1>4, <2>0, <2>2 DEF MoveOrder
  <2> QED
    BY <2>1, <2>2
<1>5. CASE TransactionFails(r)
  BY <1>5 DEF TransactionFails, tables, history
<1> QED
  BY <1>1, <1>2, <1>3, <1>4, <1>5 DEF Transaction

LEMMA KeptByWriter ==
  ASSUME TypeOK, Next
  PROVE  /\ \A i \in DOMAIN orders' : orders'[i].serial <= placed =>
              i \in DOMAIN orders /\ orders'[i].serial = orders[i].serial
         /\ placed' \in {placed, placed + 1}
         /\ \E id : DOMAIN orders' \subseteq DOMAIN orders \cup {id}
<1>1. Restart => UNCHANGED <<orders, placed>>
  BY DEF Restart, tables
<1> QED
  BY <1>1, HeadersRest, KeptByTransaction DEF Next

LEMMA OrdersStayFinite ==
  ASSUME TypeOK, IsFiniteSet(DOMAIN orders), Next
  PROVE  IsFiniteSet(DOMAIN orders')
<1>1. PICK id : DOMAIN orders' \subseteq DOMAIN orders \cup {id}
  BY KeptByWriter
<1>2. PICK ids : ids = DOMAIN orders \cup {id}
  OBVIOUS
<1>3. IsFiniteSet(ids)
  BY <1>2, FS_AddElement
<1> QED
  BY <1>1, <1>2, <1>3, FS_Subset

-----------------------------------------------------------------------------
(* What is true of the invoices stays true while others write.             *)
SameOrders(table, after, n) ==
  \A i \in DOMAIN after : /\ after[i].serial \in Nat
                          /\ after[i].serial <= n =>
                               i \in DOMAIN table /\ after[i].serial = table[i].serial

LEMMA RecordStays ==
  ASSUME NEW table, NEW after, NEW column, NEW n \in Nat, NEW m \in {n, n + 1},
         SameOrders(table, after, n), NEW serial, NEW number,
         OnRecord(serial, number, column, table, n)
  PROVE  OnRecord(serial, number, column, after, m)
BY DEF SameOrders, OnRecord

LEMMA ColumnStays ==
  ASSUME NEW table, NEW after, NEW column, NEW n \in Nat, NEW m \in {n, n + 1},
         SameOrders(table, after, n), ColumnFair(column, table, n)
  PROVE  ColumnFair(column, after, m)
<1>1. DOMAIN column \subseteq 0 .. m
  BY DEF ColumnFair
<1>2. ASSUME NEW id \in DOMAIN after
      PROVE  NumberIn(column, after[id].serial) \in {0, id}
  <2>1. CASE after[id].serial <= n
    BY <2>1 DEF SameOrders, ColumnFair
  <2>2. CASE ~ (after[id].serial <= n)
    <3>1. after[id].serial \notin DOMAIN column
      BY <2>2 DEF SameOrders, ColumnFair
    <3> QED
      BY <3>1 DEF NumberIn
  <2> QED
    BY <2>1, <2>2
<1> QED
  BY <1>1, <1>2 DEF ColumnFair

LEMMA InvoiceStays ==
  ASSUME NEW table, NEW after, NEW column, NEW n \in Nat, NEW m \in {n, n + 1},
         SameOrders(table, after, n), NEW q, InvoiceFair(q, column, table, n)
  PROVE  InvoiceFair(q, column, after, m)
<1> SUFFICES ASSUME q.kind = "invoice"
             PROVE  InvoiceFair(q, column, after, m)
  BY DEF InvoiceFair
<1> DEFINE serial == q.heads[1].serial
<1>1. /\ Len(q.heads) = 1 /\ serial \in 0 .. n /\ (q.pc = "answer" => q.number # 0)
      /\ \A id \in DOMAIN table : table[id].serial = serial => id = q.heads[1].id
      /\ q.number # 0 => OnRecord(serial, q.number, column, table, n)
  BY DEF InvoiceFair
<1> HIDE DEF serial
<1>2. serial \in 0 .. m /\ serial <= n
  BY <1>1
<1>3. \A id \in DOMAIN after : after[id].serial = serial => id = q.heads[1].id
  BY <1>1, <1>2 DEF SameOrders
<1>4. q.number # 0 => OnRecord(serial, q.number, column, after, m)
  BY <1>1, RecordStays
<1> QED
  BY <1>1, <1>2, <1>3, <1>4 DEF InvoiceFair, serial

LEMMA InvoicesBesideWriter ==
  ASSUME IInv, VInv, VInv', IInv', InvoicesFair, WriterStep
  PROVE  InvoicesFair'
<1>1. /\ placed \in Nat /\ placed' \in {placed, placed + 1} /\ Next
      /\ UNCHANGED <<doc, numbers, rendered>>
  BY KeptByWriter DEF IInv, TypeOK, WriterStep
<1>2. SameOrders(orders, orders', placed)
  BY <1>1, KeptByWriter DEF IInv, TypeOK, SameOrders, OrderRow
<1>3. ColumnFair(numbers, orders', placed')
  BY <1>1, <1>2, ColumnStays DEF InvoicesFair
<1>4. \A invoice \in rendered :
        OnRecord(invoice.serial, invoice.number, numbers, orders', placed')
  BY <1>1, <1>2, RecordStays DEF InvoicesFair
<1>5. \A d \in Readers : InvoiceFair(doc[d], numbers, orders', placed')
  BY <1>1, <1>2, InvoiceStays DEF InvoicesFair
<1> QED
  BY <1>1, <1>3, <1>4, <1>5 DEF InvoicesFair

LEMMA PageBesideWriter ==
  ASSUME NEW q, NEW written, NEW more, PageFair(q, written, orders), written \subseteq more,
         q.pc = "items" => Written \subseteq more
  PROVE  PageFair(q, more, orders')
<1>1. ASSUME NEW id, id \notin Written, id \in DOMAIN orders
      PROVE  id \in DOMAIN orders' /\ orders'[id] = orders[id]
  BY <1>1 DEF Written
<1> QED
  BY <1>1 DEF PageFair

LEMMA PagesBesideWriter ==
  ASSUME DocumentsType, PagesFair, WriterStep
  PROVE  PagesFair'
<1>1. ASSUME NEW d \in Readers
      PROVE  PageFair(doc[d], touched'[d], orders')
  <2>1. /\ touched[d] \subseteq touched'[d]
        /\ doc[d].pc = "items" => Written \subseteq touched'[d]
    BY DEF WriterStep
  <2> QED
    BY <2>1, PageBesideWriter DEF PagesFair
<1>2. doc' = doc
  BY DEF WriterStep
<1> QED
  BY <1>1, <1>2 DEF PagesFair

LEMMA TypeBesideWriter ==
  ASSUME IInv, IInv', DocumentsType, WriterStep
  PROVE  DocumentsType'
<1>1. Next /\ doc' = doc
  BY DEF WriterStep
<1>2. IsFiniteSet(DOMAIN orders')
  BY <1>1, OrdersStayFinite DEF IInv, DocumentsType
<1>3. Written \subseteq Nat
  BY DEF Written, IInv, TypeOK
<1>4. touched' \in [Readers -> SUBSET Nat]
  BY <1>3 DEF WriterStep, DocumentsType
<1> QED
  BY <1>1, <1>2, <1>4 DEF DocumentsType

-----------------------------------------------------------------------------
(* A step of one reader, which becomes n.                                  *)
LEMMA OneReader ==
  ASSUME DInv, NEW d \in Readers, NEW n \in Document, doc' = [doc EXCEPT ![d] = n],
         UNCHANGED vars, touched' \in {touched, [touched EXCEPT ![d] = {}]},
         ColumnFair(numbers', orders, placed),
         \A invoice \in rendered' :
           OnRecord(invoice.serial, invoice.number, numbers', orders, placed),
         \A e \in Readers : InvoiceFair(doc[e], numbers', orders, placed),
         InvoiceFair(n, numbers', orders, placed), PageFair(n, touched'[d], orders)
  PROVE  DInv'
<1>1. orders' = orders /\ placed' = placed
  BY DEF vars
<1>2. /\ doc'[d] = n /\ \A e \in Readers : e # d => doc'[e] = doc[e] /\ touched'[e] = touched[e]
      /\ touched' \in [Readers -> SUBSET Nat] /\ doc' \in [Readers -> Document]
  BY DEF DInv, DocumentsType
<1>3. DocumentsType'
  BY <1>1, <1>2 DEF DInv, DocumentsType
<1>4. InvoicesFair'
  BY <1>1, <1>2 DEF InvoicesFair
<1>5. PagesFair'
  BY <1>1, <1>2 DEF DInv, PagesFair
<1> QED
  BY <1>3, <1>4, <1>5 DEF DInv

(* The same of a step that assigns no number and hands nothing out.        *)
LEMMA OneReaderReads ==
  ASSUME DInv, NEW d \in Readers, NEW n \in Document, doc' = [doc EXCEPT ![d] = n],
         UNCHANGED <<vars, numbers, rendered>>,
         touched' \in {touched, [touched EXCEPT ![d] = {}]},
         InvoiceFair(n, numbers, orders, placed), PageFair(n, touched'[d], orders)
  PROVE  DInv'
<1>1. /\ ColumnFair(numbers', orders, placed)
      /\ \A invoice \in rendered' :
           OnRecord(invoice.serial, invoice.number, numbers', orders, placed)
      /\ \A e \in Readers : InvoiceFair(doc[e], numbers', orders, placed)
      /\ InvoiceFair(n, numbers', orders, placed)
  BY DEF DInv, InvoicesFair
<1>2. UNCHANGED vars
  OBVIOUS
<1> QED
  BY <1>1, <1>2, OneReader

LEMMA NoDocFields ==
  /\ NoDoc \in Document /\ NoDoc.kind = "none" /\ NoDoc.pc = "idle"
  /\ NoDoc.lines = <<>> /\ NoDoc.heads = <<>>
<1>1. <<>> \in Seq(Header) /\ <<>> \in Seq(SUBSET ItemRow)
  BY EmptySeq
<1> QED
  BY <1>1 DEF NoDoc, Document, Actors

LEMMA NoDocFair ==
  ASSUME NEW column, NEW table, NEW n, NEW written
  PROVE  InvoiceFair(NoDoc, column, table, n) /\ PageFair(NoDoc, written, table)
<1>1. Len(NoDoc.lines) = 0 /\ Len(NoDoc.heads) = 0 /\ DOMAIN NoDoc.lines = {}
  BY NoDocFields
<1> QED
  BY <1>1, NoDocFields DEF InvoiceFair, PageFair

LEMMA HeadIsHeader ==
  ASSUME TypeOK, NEW id \in DOMAIN orders
  PROVE  /\ HeadOf(id) \in Header
         /\ HeadOf(id).id = id /\ HeadOf(id).serial = orders[id].serial
         /\ HeadOf(id).basket = orders[id].basket
BY DEF TypeOK, OrderRow, HeadOf, Header

LEMMA AskFair ==
  ASSUME TypeOK, DInv, NEW d \in Readers, NEW kind \in {"list", "get", "invoice"},
         NEW actor \in Actors, NEW heads \in Seq(Header), NEW number \in Nat,
         \A k \in DOMAIN heads : \E id \in DOMAIN orders : heads[k] = HeadOf(id),
         InvoiceFair([kind |-> kind, pc |-> "items", actor |-> actor, heads |-> heads,
                      lines |-> <<>>, number |-> number], numbers, orders, placed),
         Ask(d, kind, actor, heads, number)
  PROVE  DInv'
<1>1. PICK n : n = [kind |-> kind, pc |-> "items", actor |-> actor, heads |-> heads,
                    lines |-> <<>>, number |-> number]
  OBVIOUS
<1>2. <<>> \in Seq(SUBSET ItemRow) /\ Len(<<>>) = 0 /\ DOMAIN <<>> = {}
  BY EmptySeq
<1>3. n \in Document /\ n.lines = <<>> /\ n.heads = heads
  BY <1>1, <1>2 DEF Document
<1>4. Len(heads) > 0 /\ Len(heads) \in Nat
  BY EmptySeq DEF Ask
<1>5. PageFair(n, touched'[d], orders)
  BY <1>2, <1>3, <1>4, HeadIsHeader DEF PageFair
<1>6. /\ doc' = [doc EXCEPT ![d] = n] /\ touched' = [touched EXCEPT ![d] = {}]
      /\ UNCHANGED <<vars, numbers, rendered>>
  BY <1>1 DEF Ask
<1>7. InvoiceFair(n, numbers, orders, placed)
  BY <1>1
<1> QED
  BY <1>3, <1>5, <1>6, <1>7, OneReaderReads

LEMMA OneHead ==
  ASSUME TypeOK, NEW id \in DOMAIN orders
  PROVE  /\ <<HeadOf(id)>> \in Seq(Header) /\ Len(<<HeadOf(id)>>) = 1
         /\ <<HeadOf(id)>>[1] = HeadOf(id)
         /\ \A k \in DOMAIN <<HeadOf(id)>> : <<HeadOf(id)>>[k] = HeadOf(id)
BY HeadIsHeader

LEMMA NewestIsPage ==
  ASSUME TypeOK, DocumentsType, NEW actor
  PROVE  /\ Newest(actor) \in Seq(Header)
         /\ \A k \in 1 .. Len(Newest(actor)) :
              \E id \in DOMAIN orders : Newest(actor)[k] = HeadOf(id)
<1> DEFINE ids == {id \in DOMAIN orders : InScope(orders[id], actor)}
<1>1. ids \in SUBSET Nat /\ ids \in SUBSET DOMAIN orders /\ IsFiniteSet(ids)
  BY FS_Subset DEF TypeOK, DocumentsType
<1>2. Cardinality(ids) \in Nat
  BY <1>1, FS_CardinalityType
<1> DEFINE at(n) == CHOOSE id \in ids : Cardinality({i \in ids : i > id}) = n - 1
<1>3. ASSUME NEW n \in 1 .. Cardinality(ids)
      PROVE  at(n) \in DOMAIN orders
  <2> HIDE DEF ids
  <2>1. \E id \in ids : Cardinality({i \in ids : i > id}) = n - 1
    BY <1>1, EveryRankIsTaken DEF Above
  <2>2. at(n) \in ids
    BY <2>1
  <2> QED
    BY <1>1, <2>2
<1>4. Newest(actor) = [n \in 1 .. Cardinality(ids) |-> HeadOf(at(n))]
  BY DEF Newest
<1> HIDE DEF ids, at
<1>5. \A n \in 1 .. Cardinality(ids) : HeadOf(at(n)) \in Header
  BY <1>3, HeadIsHeader
<1>6. Newest(actor) \in Seq(Header)
  BY <1>2, <1>4, <1>5
<1>7. Len(Newest(actor)) = Cardinality(ids)
  BY <1>2, <1>4
<1> QED
  BY <1>3, <1>4, <1>6, <1>7

LEMMA ListFair ==
  ASSUME TypeOK, DInv, NEW d \in Readers, ListOrders(d)
  PROVE  DInv'
<1>1. PICK actor \in Accounts, offset \in 0 .. 1 :
        Ask(d, "list", actor,
            SubSeq(Newest(actor), offset + 1,
                   IF offset + PageLimit < Len(Newest(actor))
                   THEN offset + PageLimit ELSE Len(Newest(actor))), 0)
  BY DEF ListOrders
<1>2. PICK all : all = Newest(actor)
  OBVIOUS
<1>3. /\ all \in Seq(Header) /\ Len(all) \in Nat
      /\ \A k \in 1 .. Len(all) : all[k] \in Header
      /\ \A k \in 1 .. Len(all) : \E id \in DOMAIN orders : all[k] = HeadOf(id)
  BY <1>2, NewestIsPage, LenProperties, ElementOfSeq DEF DInv
<1>4. PICK m, n : /\ m = offset + 1
                  /\ n = IF offset + PageLimit < Len(all) THEN offset + PageLimit ELSE Len(all)
  OBVIOUS
<1>5. m \in Int /\ n \in Int /\ m >= 1 /\ n <= Len(all)
  BY <1>3, <1>4, DocumentsAssumption
<1>6. \A i \in m .. n : all[i] \in Header /\ i \in 1 .. Len(all)
  BY <1>3, <1>5
<1>7. PICK heads : heads = SubSeq(all, m, n)
  OBVIOUS
<1>8. /\ heads \in Seq(Header)
      /\ Len(heads) = IF m <= n THEN n - m + 1 ELSE 0
      /\ \A i \in 1 .. n - m + 1 : heads[i] = all[m + i - 1]
  BY <1>5, <1>6, <1>7, SubSeqProperties
<1>9. ASSUME NEW k \in DOMAIN heads
      PROVE  \E id \in DOMAIN orders : heads[k] = HeadOf(id)
  <2>1. k \in 1 .. n - m + 1 /\ m + k - 1 \in m .. n
    BY <1>5, <1>8, LenProperties
  <2> QED
    BY <1>3, <1>6, <1>8, <2>1
<1>10. actor \in Actors
  BY DEF Accounts, Actors
<1>11. Ask(d, "list", actor, heads, 0)
  BY <1>1, <1>2, <1>4, <1>7
<1>12. InvoiceFair([kind |-> "list", pc |-> "items", actor |-> actor, heads |-> heads,
                    lines |-> <<>>, number |-> 0], numbers, orders, placed)
  BY DEF InvoiceFair
<1> QED
  BY <1>8, <1>9, <1>10, <1>11, <1>12, AskFair

LEMMA GetFair ==
  ASSUME TypeOK, DInv, NEW d \in Readers, GetOrder(d)
  PROVE  DInv'
<1>1. PICK actor \in Accounts, id \in DOMAIN orders : Ask(d, "get", actor, <<HeadOf(id)>>, 0)
  BY DEF GetOrder
<1>2. PICK heads : heads = <<HeadOf(id)>>
  OBVIOUS
<1>3. heads \in Seq(Header) /\ \A k \in DOMAIN heads : heads[k] = HeadOf(id)
  BY <1>2, OneHead
<1>4. actor \in Actors
  BY DEF Accounts, Actors
<1>5. InvoiceFair([kind |-> "get", pc |-> "items", actor |-> actor, heads |-> heads,
                   lines |-> <<>>, number |-> 0], numbers, orders, placed)
  BY DEF InvoiceFair
<1> QED
  BY <1>1, <1>2, <1>3, <1>4, <1>5, AskFair

LEMMA InvoiceAskedFair ==
  ASSUME TypeOK, VInv, DInv, NEW d \in Readers, AskInvoice(d)
  PROVE  DInv'
<1>1. PICK actor \in Accounts, id \in DOMAIN orders :
        Ask(d, "invoice", actor, <<HeadOf(id)>>, NumberOf(orders[id].serial))
  BY DEF AskInvoice
<1>2. PICK heads, number : heads = <<HeadOf(id)>> /\ number = NumberOf(orders[id].serial)
  OBVIOUS
<1>3. /\ heads \in Seq(Header) /\ Len(heads) = 1 /\ heads[1] = HeadOf(id)
      /\ \A k \in DOMAIN heads : heads[k] = HeadOf(id)
  BY <1>2, OneHead
<1>4. actor \in Actors
  BY DEF Accounts, Actors
<1>5. number = NumberIn(numbers, orders[id].serial) /\ number \in {0, id} /\ id \in Nat
  BY <1>2 DEF NumberOf, NumberIn, DInv, InvoicesFair, ColumnFair, TypeOK
<1>6. PICK serial : serial = orders[id].serial
  OBVIOUS
<1>7. /\ serial \in 0 .. placed
      /\ \A i \in DOMAIN orders : orders[i].serial = serial => i = id
  BY <1>6 DEF TypeOK, OrderRow, VInv, SerialsTaken, SerialsDiffer
<1>8. number # 0 => OnRecord(serial, number, numbers, orders, placed)
  BY <1>5, <1>6, <1>7 DEF OnRecord
<1>9. heads[1].serial = serial /\ heads[1].id = id
  BY <1>3, <1>6, HeadIsHeader
<1>10. InvoiceFair([kind |-> "invoice", pc |-> "items", actor |-> actor, heads |-> heads,
                    lines |-> <<>>, number |-> number], numbers, orders, placed)
  BY <1>3, <1>7, <1>8, <1>9 DEF InvoiceFair
<1>11. Ask(d, "invoice", actor, heads, number) /\ number \in Nat
  BY <1>1, <1>2, <1>5
<1> QED
  BY <1>3, <1>4, <1>10, <1>11, AskFair

(* The lines found for an order nobody wrote are those of its basket.      *)
LEMMA LinesAreWhole ==
  ASSUME TypeOK, AllOrNothing, NEW head, NEW id \in DOMAIN orders, head.id = id,
         orders[id].serial = head.serial, orders[id].basket = head.basket
  PROVE  Whole(head, {items[i] : i \in LinesOf(items, id)})
<1>1. CASE LinesOf(items, id) = {}
  BY <1>1 DEF Whole
<1>2. CASE WholeBasket(id)
  <2>1. PICK first \in DOMAIN items :
          /\ LinesOf(items, id) = first .. first + LineCount[orders[id].basket] - 1
          /\ \A i \in LinesOf(items, id) :
               items[i] = ItemOf(id, orders[id].serial, orders[id].basket, i - first + 1)
    BY <1>2 DEF WholeBasket
  <2>2. PICK count : count = LineCount[orders[id].basket]
    OBVIOUS
  <2>3. count \in Nat \ {0} /\ first \in Nat
    BY <2>2, OrderTablesAssumption DEF TypeOK, OrderRow
  <2>4. /\ LinesOf(items, id) = first .. first + count - 1
        /\ \A i \in LinesOf(items, id) :
             items[i] = ItemOf(id, head.serial, head.basket, i - first + 1)
    BY <2>1, <2>2
  <2>5. ASSUME NEW i \in LinesOf(items, id)
        PROVE  \E n \in 1 .. count : items[i] = ItemOf(id, head.serial, head.basket, n)
    <3>1. i - first + 1 \in 1 .. count
      BY <2>3, <2>4
    <3> QED
      BY <2>4, <3>1
  <2>6. ASSUME NEW n \in 1 .. count
        PROVE  \E i \in LinesOf(items, id) :
                 items[i] = ItemOf(id, head.serial, head.basket, n)
    <3>1. first + n - 1 \in LinesOf(items, id) /\ (first + n - 1) - first + 1 = n
      BY <2>3, <2>4
    <3> QED
      BY <2>4, <3>1
  <2>7. {items[i] : i \in LinesOf(items, id)}
          = {ItemOf(id, head.serial, head.basket, n) : n \in 1 .. count}
    BY <2>5, <2>6
  <2> QED
    BY <2>2, <2>7 DEF Whole
<1> QED
  BY <1>1, <1>2 DEF AllOrNothing

LEMMA ItemsFair ==
  ASSUME TypeOK, AllOrNothing, DInv, NEW d \in Readers, ReadItems(d)
  PROVE  DInv'
<1>1. PICK q : q = doc[d]
  OBVIOUS
<1>2. /\ q \in Document /\ q.pc = "items" /\ UNCHANGED <<vars, numbers, rendered, touched>>
      /\ InvoiceFair(q, numbers, orders, placed) /\ PageFair(q, touched[d], orders)
  BY <1>1 DEF ReadItems, DInv, DocumentsType, InvoicesFair, PagesFair
<1>3. PICK id, found : /\ id = q.heads[Len(q.lines) + 1].id
                       /\ found = {items[i] : i \in LinesOf(items, id)}
  OBVIOUS
<1>4. q.lines \in Seq(SUBSET ItemRow) /\ q.heads \in Seq(Header)
  BY <1>2 DEF Document
<1>5. /\ Len(q.lines) \in Nat /\ Len(q.heads) \in Nat /\ Len(q.lines) < Len(q.heads)
      /\ DOMAIN q.lines = 1 .. Len(q.lines) /\ DOMAIN q.heads = 1 .. Len(q.heads)
  BY <1>2, <1>4, LenProperties DEF PageFair
<1>6. found \in SUBSET ItemRow
  BY <1>3 DEF TypeOK, LinesOf
<1>7. PICK lines : lines = Append(q.lines, found)
  OBVIOUS
<1>8. /\ lines \in Seq(SUBSET ItemRow) /\ Len(lines) = Len(q.lines) + 1
      /\ DOMAIN lines = 1 .. Len(q.lines) + 1
      /\ \A k \in 1 .. Len(q.lines) : lines[k] = q.lines[k]
      /\ lines[Len(q.lines) + 1] = found
  BY <1>4, <1>5, <1>6, <1>7
<1> DEFINE read == [q EXCEPT !.lines = Append(@, found)]
           n == IF Len(read.lines) = Len(q.heads) THEN [read EXCEPT !.pc = AfterItems(q)] ELSE read
<1>9. doc' = [doc EXCEPT ![d] = n]
  BY <1>1, <1>3 DEF ReadItems
<1>10. /\ read.kind = q.kind /\ read.heads = q.heads /\ read.lines = lines
       /\ read.number = q.number /\ read.pc = "items"
  BY <1>2, <1>7 DEF Document
<1>11. AfterItems(q) \in {"assign", "answer"} /\ AfterItems(q) # "items"
       /\ (q.kind = "invoice" /\ AfterItems(q) = "answer" => q.number # 0)
  BY DEF AfterItems
<1>12. read \in Document
  BY <1>2, <1>7, <1>8 DEF Document
<1>13. [read EXCEPT !.pc = AfterItems(q)] \in Document
  BY <1>11, <1>12 DEF Document
<1>14. /\ n \in Document /\ n.kind = q.kind /\ n.heads = q.heads /\ n.lines = lines
       /\ n.number = q.number
       /\ \/ n.pc = "items" /\ Len(lines) # Len(q.heads)
          \/ n.pc = AfterItems(q)
  <2>1. CASE Len(read.lines) = Len(q.heads)
    <3>1. n = [read EXCEPT !.pc = AfterItems(q)]
      BY <2>1
    <3> HIDE DEF n
    <3>2. n.kind = read.kind /\ n.heads = read.heads /\ n.lines = read.lines
          /\ n.number = read.number /\ n.pc = AfterItems(q)
      BY <1>12, <3>1 DEF Document
    <3> QED
      BY <1>10, <1>13, <3>1, <3>2
  <2>2. CASE Len(read.lines) # Len(q.heads)
    BY <1>10, <1>12, <2>2
  <2> QED
    BY <2>1, <2>2
<1> HIDE DEF n, read
<1>15. InvoiceFair(n, numbers, orders, placed)
  BY <1>2, <1>11, <1>14 DEF InvoiceFair
<1>16. PageFair(n, touched'[d], orders)
  <2>0. touched'[d] = touched[d]
    BY <1>2
  <2>1. ASSUME NEW k \in DOMAIN lines, q.heads[k].id \notin touched[d]
        PROVE  Whole(q.heads[k], lines[k])
    <3>1. CASE k \in 1 .. Len(q.lines)
      BY <1>2, <1>5, <1>8, <2>1, <3>1 DEF PageFair
    <3>2. CASE k = Len(q.lines) + 1
      <4>1. k \in DOMAIN q.heads
        BY <1>5, <3>2
      <4>2. /\ id = q.heads[k].id /\ id \in DOMAIN orders
            /\ orders[id].serial = q.heads[k].serial /\ orders[id].basket = q.heads[k].basket
        BY <1>2, <1>3, <2>1, <3>2, <4>1 DEF PageFair
      <4>3. Whole(q.heads[k], found)
        BY <1>3, <4>2, LinesAreWhole
      <4> QED
        BY <1>8, <3>2, <4>3
    <3> QED
      BY <1>5, <1>8, <3>1, <3>2
  <2>2. Len(lines) <= Len(q.heads) /\ (n.pc = "items" => Len(lines) < Len(q.heads))
    BY <1>5, <1>8, <1>11, <1>14
  <2> QED
    BY <1>2, <1>14, <2>0, <2>1, <2>2 DEF PageFair
<1>17. UNCHANGED <<vars, numbers, rendered>> /\ touched' = touched
  BY <1>2
<1> QED
  BY <1>9, <1>14, <1>15, <1>16, <1>17, OneReaderReads

LEMMA BackToIdle ==
  ASSUME DInv, NEW d \in Readers, doc' = [doc EXCEPT ![d] = NoDoc],
         UNCHANGED <<vars, numbers, rendered>>,
         touched' \in {touched, [touched EXCEPT ![d] = {}]}
  PROVE  DInv'
BY NoDocFields, NoDocFair, OneReaderReads

(* Writing an order's id into its row disturbs no number on record.        *)
LEMMA AssignedColumn ==
  ASSUME NEW table, NEW column, NEW n, NEW id \in DOMAIN table, NEW own,
         own = table[id].serial, own \in 0 .. n,
         \A i \in DOMAIN table : table[i].serial = own => i = id,
         NEW after, after = [s \in DOMAIN column \cup {own} |->
                               IF s = own THEN id ELSE column[s]]
  PROVE  /\ ColumnFair(column, table, n) => ColumnFair(after, table, n)
         /\ \A serial, number : OnRecord(serial, number, column, table, n)
                                  => OnRecord(serial, number, after, table, n)
<1>1. \A s : NumberIn(after, s) = IF s = own THEN id ELSE NumberIn(column, s)
  BY DEF NumberIn
<1>2. DOMAIN after = DOMAIN column \cup {own}
  OBVIOUS
<1> QED
  BY <1>1, <1>2 DEF ColumnFair, OnRecord

LEMMA NumberFair ==
  ASSUME TypeOK, VInv, DInv, NEW d \in Readers, AssignNumber(d)
  PROVE  DInv'
<1>1. PICK q, id : q = doc[d] /\ id = q.heads[1].id
  OBVIOUS
<1>2. /\ q \in Document /\ q.pc = "assign" /\ UNCHANGED <<vars, rendered, touched>>
      /\ InvoiceFair(q, numbers, orders, placed) /\ PageFair(q, touched[d], orders)
  BY <1>1 DEF AssignNumber, DInv, DocumentsType, InvoicesFair, PagesFair
<1>3. CASE ~ Matches(orders, id, q.actor)
  <2>1. doc' = [doc EXCEPT ![d] = NoDoc] /\ UNCHANGED <<vars, numbers, rendered>>
        /\ touched' = touched
    BY <1>1, <1>2, <1>3 DEF AssignNumber
  <2> QED
    BY <2>1, BackToIdle
<1>4. CASE Matches(orders, id, q.actor)
  <2>1. PICK own : own = orders[id].serial
    OBVIOUS
  <2>2. /\ id \in DOMAIN orders /\ id \in Nat \ {0}
        /\ own \in 0 .. placed
        /\ \A i \in DOMAIN orders : orders[i].serial = own => i = id
    BY <1>4, <2>1 DEF Matches, TypeOK, OrderRow, VInv, SerialsTaken, SerialsDiffer
  <2>3. numbers' = [s \in DOMAIN numbers \cup {own} |-> IF s = own THEN id ELSE numbers[s]]
    BY <1>1, <1>4, <2>1 DEF AssignNumber
  <2> DEFINE n == [q EXCEPT !.pc = "answer", !.number = id]
  <2>4. doc' = [doc EXCEPT ![d] = n]
    BY <1>1, <1>4 DEF AssignNumber
  <2>5. /\ n \in Document /\ n.kind = q.kind /\ n.heads = q.heads /\ n.lines = q.lines
        /\ n.pc = "answer" /\ n.number = id
    BY <1>2, <2>2 DEF Document
  <2> HIDE DEF n
  <2>6. PICK column : column = numbers'
    OBVIOUS
  <2>7. /\ ColumnFair(numbers, orders, placed) => ColumnFair(column, orders, placed)
        /\ \A serial, number : OnRecord(serial, number, numbers, orders, placed)
                                 => OnRecord(serial, number, column, orders, placed)
    BY <2>1, <2>2, <2>3, <2>6, AssignedColumn
  <2>8. /\ ColumnFair(column, orders, placed)
        /\ \A invoice \in rendered' :
             OnRecord(invoice.serial, invoice.number, column, orders, placed)
    BY <1>2, <2>7 DEF DInv, InvoicesFair
  <2>9. ASSUME NEW e \in Readers
        PROVE  InvoiceFair(doc[e], column, orders, placed)
    BY <2>7 DEF DInv, InvoicesFair, InvoiceFair
  <2>10. ASSUME q.kind = "invoice"
         PROVE  OnRecord(q.heads[1].serial, id, column, orders, placed)
    <3>1. /\ q.heads[1].serial \in 0 .. placed
          /\ \A i \in DOMAIN orders : orders[i].serial = q.heads[1].serial => i = id
      BY <1>1, <1>2, <2>10 DEF InvoiceFair
    <3>2. NumberIn(column, own) = id
      BY <2>3, <2>6 DEF NumberIn
    <3> QED
      BY <2>1, <3>1, <3>2 DEF OnRecord
  <2>11. InvoiceFair(n, column, orders, placed)
    BY <1>2, <2>2, <2>5, <2>10 DEF InvoiceFair
  <2>12. PageFair(n, touched'[d], orders)
    <3>1. touched'[d] = touched[d]
      BY <1>2
    <3> QED
      BY <1>2, <2>5, <3>1 DEF PageFair
  <2>13. UNCHANGED vars /\ touched' = touched
    BY <1>2
  <2> QED
    BY <2>4, <2>5, <2>6, <2>8, <2>9, <2>11, <2>12, <2>13, OneReader
<1> QED
  BY <1>3, <1>4

LEMMA AnswerFair ==
  ASSUME DInv, NEW d \in Readers, Answer(d)
  PROVE  DInv'
<1>1. PICK q : q = doc[d]
  OBVIOUS
<1>2. /\ q.pc = "answer" /\ InvoiceFair(q, numbers, orders, placed)
      /\ doc' = [doc EXCEPT ![d] = NoDoc] /\ touched' = [touched EXCEPT ![d] = {}]
      /\ UNCHANGED vars /\ numbers' = numbers
  BY <1>1 DEF Answer, DInv, InvoicesFair
<1>3. PICK new : new = [serial |-> q.heads[1].serial, number |-> q.number]
  OBVIOUS
<1>4. rendered' = rendered \cup (IF q.kind = "invoice" THEN {new} ELSE {})
  BY <1>1, <1>3 DEF Answer
<1>5. q.kind = "invoice" => OnRecord(new.serial, new.number, numbers, orders, placed)
  BY <1>2, <1>3 DEF InvoiceFair
<1>6. /\ ColumnFair(numbers', orders, placed)
      /\ \A invoice \in rendered' :
           OnRecord(invoice.serial, invoice.number, numbers', orders, placed)
      /\ \A e \in Readers : InvoiceFair(doc[e], numbers', orders, placed)
  BY <1>2, <1>4, <1>5 DEF DInv, InvoicesFair
<1>7. /\ InvoiceFair(NoDoc, numbers', orders, placed) /\ PageFair(NoDoc, touched'[d], orders)
  BY NoDocFair
<1> QED
  BY <1>2, <1>6, <1>7, NoDocFields, OneReader

LEMMA DocumentsStep ==
  IInv /\ VInv /\ AllOrNothing /\ DInv /\ [DocumentsNext]_<<vars, documents>> => DInv'
<1> SUFFICES ASSUME IInv, VInv, AllOrNothing, DInv, [DocumentsNext]_<<vars, documents>>
             PROVE  DInv'
  OBVIOUS
<1>0. TypeOK
  BY DEF IInv
<1>1. CASE UNCHANGED <<vars, documents>>
  BY <1>1 DEF vars, documents, DInv, DocumentsType, InvoicesFair, PagesFair
<1>2. CASE WriterStep
  <2>1. [Next]_vars
    BY <1>2 DEF WriterStep
  <2>2. IInv' /\ VInv'
    BY <2>1, StepHolds, VerifiedStep
  <2> QED
    BY <1>2, <2>2, InvoicesBesideWriter, PagesBesideWriter, TypeBesideWriter DEF DInv
<1>3. ASSUME NEW d \in Readers, DocumentStep(d)
      PROVE  DInv'
  <2>1. ReadingFails(d) => DInv'
    BY BackToIdle DEF ReadingFails
  <2> QED
    BY <1>0, <1>3, <2>1, ListFair, GetFair, InvoiceAskedFair, ItemsFair, NumberFair, AnswerFair
       DEF DocumentStep
<1> QED
  BY <1>1, <1>2, <1>3 DEF DocumentsNext

LEMMA DocumentsBegin == DocumentsInit => DInv
<1> SUFFICES ASSUME DocumentsInit
             PROVE  DInv
  OBVIOUS
<1>1. orders = <<>> /\ numbers = <<>> /\ rendered = {} /\ placed = 0
  BY DEF DocumentsInit, Init
<1>2. DOMAIN orders = {} /\ DOMAIN numbers = {}
  BY <1>1
<1>3. IsFiniteSet(DOMAIN orders)
  BY <1>2, FS_EmptySet
<1>4. \A d \in Readers : doc[d] = NoDoc
  BY DEF DocumentsInit
<1>5. DocumentsType
  BY <1>3, NoDocFields DEF DocumentsInit, DocumentsType
<1>6. InvoicesFair
  BY <1>1, <1>2, <1>4, NoDocFair DEF InvoicesFair, ColumnFair
<1>7. PagesFair
  BY <1>4, NoDocFair DEF PagesFair
<1> QED
  BY <1>5, <1>6, <1>7 DEF DInv

LEMMA DocumentsHold == DocumentsSpec => []DInv
<1>1. DocumentsInit => IInv /\ VInv /\ AllOrNothing /\ DInv
  <2>1. Init => AllOrNothing
    BY DEF Init, AllOrNothing
  <2> QED
    BY <2>1, InitHolds, VerifiedInit, DocumentsBegin DEF DocumentsInit
<1>2. (IInv /\ VInv /\ AllOrNothing /\ DInv) /\ [DocumentsNext]_<<vars, documents>>
        => (IInv /\ VInv /\ AllOrNothing /\ DInv)'
  <2>1. [DocumentsNext]_<<vars, documents>> => [Next]_vars
    BY DEF DocumentsNext, WriterStep, DocumentStep, ListOrders, GetOrder, AskInvoice, Ask,
           ReadItems, AssignNumber, Answer, ReadingFails
  <2> QED
    BY <2>1, StepHolds, VerifiedStep, LinesStep, DocumentsStep
<1> QED
  BY <1>1, <1>2, PTL DEF DocumentsSpec

(* List, Get and InvoiceView read the headers of orders first and the      *)
(* lines of each later (service.go, withItems): whatever other requests    *)
(* write meanwhile, an order nobody wrote in between is answered with its  *)
(* own lines and all of them, on a page of any length.                     *)
THEOREM OrdersReadWhole == DocumentsSpec => []AnswersAreWhole
<1>1. DInv => AnswersAreWhole
  BY DEF DInv, PagesFair, PageFair, AnswersAreWhole
<1> QED
  BY <1>1, DocumentsHold, PTL

(* A number printed on an invoice is on record with its order while that   *)
(* exists, and is its id (AssignInvoiceNumber): not of an order that had   *)
(* the id before it or got it after, whichever of two requests for the     *)
(* invoice assigned it.                                                    *)
THEOREM InvoicesKeepTheirNumber == DocumentsSpec => []InvoicesAreOnRecord
<1>1. DInv => InvoicesAreOnRecord
  BY DEF DInv, InvoicesFair, OnRecord, NumberIn, NumberOf, InvoicesAreOnRecord
<1> QED
  BY <1>1, DocumentsHold, PTL
=============================================================================
