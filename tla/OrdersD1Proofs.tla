--------------------------- MODULE OrdersD1Proofs ---------------------------
(***************************************************************************)
(* Theorems about the order module on Cloudflare D1, where a transaction   *)
(* is a row of statements that take effect one by one, for any number of   *)
(* requests, orders, accounts and baskets; and about the values a row      *)
(* accessor answers, which are the same on both adapters.                  *)
(***************************************************************************)
EXTENDS OrdersD1, RowValues, OrderTablesProofs, SequenceTheorems, FiniteSetTheorems

Writing == Inserting \cup {"Update"}

(* What a request carries, by where it is.                                 *)
Armed(q) ==
  /\ q.method \in Writing => q.basket \in Baskets
  /\ q.method \in Moving => q.to \in Statuses
  /\ q.method \in Moving /\ q.pc \notin {"select", "tx"} => q.to \in EventNames
  /\ q.pc = "insert" => q.method \in Writing
  /\ q.pc = "remove" => q.method = "Delete"
  /\ q.pc = "clear" => q.method = "Update"
  /\ q.pc \in {"write", "stamp"} => q.method \in Moving
  /\ q.pc = "publish" => q.method \in Publishing

(* The rows to undo are those of an insertion under way or of a rollback.  *)
Fits(q, u) ==
  /\ q \in Request /\ Armed(q)
  /\ u \in Seq(Insertion)
  /\ u # <<>> => q.pc \in {"insert", "undo"}
  /\ q.pc = "undo" => u # <<>>

RequestsFit ==
  /\ req \in [Requests -> Request] /\ undo \in [Requests -> Seq(Insertion)]
  /\ \A r \in Requests : Fits(req[r], undo[r])

TablesFit ==
  /\ IsTable(orders) /\ orders \in [DOMAIN orders -> OrderRow]
  /\ IsItemTable(items)
  /\ \A i \in DOMAIN items : items[i].order \in DOMAIN orders

HistoryFits ==
  placed \in Nat /\ owed \subseteq Event /\ sent \subseteq SentEvent /\ dropped \subseteq Event

Typed == RequestsFit /\ TablesFit /\ HistoryFits

LEMMA TypedIsTypeOK == Typed => TypeOK
BY DEF Typed, TypeOK, RequestsFit, TablesFit, HistoryFits, Fits, IsTable, IsItemTable

-----------------------------------------------------------------------------
(* How one request moves. *)

Moves(r, q, u) == req' = [req EXCEPT ![r] = q] /\ undo' = [undo EXCEPT ![r] = u]

LEMMA OneMoves ==
  ASSUME RequestsFit, NEW r \in Requests, NEW q, NEW u, Fits(q, u), Moves(r, q, u)
  PROVE  /\ RequestsFit'
         /\ req'[r] = q /\ undo'[r] = u
         /\ \A s \in Requests : s # r => req'[s] = req[s] /\ undo'[s] = undo[s]
BY DEF RequestsFit, Fits, Moves

LEMMA EmptyUndo == <<>> \in Seq(Insertion)
BY EmptySeq

LEMMA IdleFits == Fits(Idle, <<>>)
BY EmptyUndo DEF Fits, Armed, Idle, Request, AllMethods, Pcs, Actors, StoredStatuses, Statuses,
                 Writing, Inserting, Moving, Publishing

(* Finish when there is nothing to undo.                                   *)
LEMMA Finishes ==
  ASSUME RequestsFit, NEW r \in Requests, Finish(r),
         undo' = [undo EXCEPT ![r] = <<>>] \/ (undo' = undo /\ req[r].pc \notin {"insert", "undo"})
                                           \/ (undo' = undo /\ undo[r] = <<>>)
  PROVE  Moves(r, Idle, <<>>) /\ RequestsFit'
<1>1. Moves(r, Idle, <<>>)
  BY DEF Finish, Moves, RequestsFit, Fits
<1> QED
  BY <1>1, IdleFits, OneMoves

(* A request that only goes to another statement.                          *)
SameBut(n, q) ==
  /\ n.method = q.method /\ n.actor = q.actor /\ n.to = q.to
  /\ n.basket = q.basket

LEMMA GoesTo ==
  ASSUME RequestsFit, NEW r \in Requests, NEW pc \in Pcs, GoTo(r, pc)
  PROVE  \E n \in Request :
           /\ req' = [req EXCEPT ![r] = n] /\ n.pc = pc /\ SameBut(n, req[r])
           /\ n.id = req[r].id /\ n.wrote = req[r].wrote
<1> DEFINE n == [req[r] EXCEPT !.pc = pc]
<1>1. req[r] \in Request
  BY DEF RequestsFit
<1>2. /\ n \in Request /\ n.pc = pc /\ SameBut(n, req[r])
      /\ n.id = req[r].id /\ n.wrote = req[r].wrote
  BY <1>1 DEF Request, SameBut
<1>3. req' = [req EXCEPT ![r] = n]
  BY DEF GoTo, RequestsFit
<1> HIDE DEF n
<1> QED
  BY <1>2, <1>3

LEMMA GoesWriting ==
  ASSUME RequestsFit, NEW r \in Requests, NEW pc \in Pcs, NEW serial \in Nat,
         req' = [req EXCEPT ![r].pc = pc, ![r].wrote = serial]
  PROVE  \E n \in Request :
           /\ req' = [req EXCEPT ![r] = n] /\ n.pc = pc /\ SameBut(n, req[r])
           /\ n.id = req[r].id /\ n.wrote = serial
<1> DEFINE n == [req[r] EXCEPT !.pc = pc, !.wrote = serial]
<1>1. req[r] \in Request
  BY DEF RequestsFit
<1>2. /\ n \in Request /\ n.pc = pc /\ SameBut(n, req[r])
      /\ n.id = req[r].id /\ n.wrote = serial
  BY <1>1 DEF Request, SameBut
<1>3. req' = [req EXCEPT ![r] = n]
  BY DEF RequestsFit
<1> HIDE DEF n
<1> QED
  BY <1>2, <1>3

(* A transaction cut short: the request is done, or has rows to undo.      *)
LEMMA AbortFits ==
  ASSUME RequestsFit, NEW r \in Requests, NEW inserted \in Seq(Insertion),
         inserted # <<>> => req[r].pc = "insert", Abort(r, inserted)
  PROVE  \E n \in Request :
           /\ Fits(n, inserted) /\ Moves(r, n, inserted) /\ (n = Idle \/ n.pc = "undo")
<1>1. CASE inserted = <<>>
  BY <1>1, IdleFits DEF Abort, Finish, Moves, Fits
<1>2. CASE inserted # <<>>
  <2>1. GoTo(r, "undo") /\ undo' = [undo EXCEPT ![r] = inserted]
    BY <1>2 DEF Abort
  <2>2. PICK n \in Request :
          /\ req' = [req EXCEPT ![r] = n] /\ n.pc = "undo" /\ SameBut(n, req[r])
    BY <2>1, GoesTo DEF Pcs
  <2>3. Armed(n)
    BY <1>2, <2>2 DEF RequestsFit, Fits, Armed, SameBut, Writing, Inserting, Moving
  <2> QED
    BY <1>2, <2>1, <2>2, <2>3 DEF Fits, Moves
<1> QED
  BY <1>1, <1>2

-----------------------------------------------------------------------------
(* The statements, one at a time: what each does to the tables and where   *)
(* it leaves its request.                                                  *)

LEMMA OwnerIsTyped == \A actor \in Actors : OwnerOf(actor) \in Accounts \cup {Nobody}
BY DEF OwnerOf, Actors, Accounts

LEMMA NextLineIsNat ==
  ASSUME RequestsFit, NEW r \in Requests
  PROVE  NextLine(r) \in Nat \ {0}
<1> DEFINE S == {k \in DOMAIN undo[r] : undo[r][k].table = "order_items"}
<1>1. Len(undo[r]) \in Nat /\ DOMAIN undo[r] = 1 .. Len(undo[r])
  BY LenProperties DEF RequestsFit
<1>2. IsFiniteSet(1 .. Len(undo[r]))
  BY <1>1, FS_Interval
<1>3. IsFiniteSet(S)
  BY <1>1, <1>2, FS_Subset
<1>4. Cardinality(S) \in Nat
  BY <1>3, FS_CardinalityType
<1> HIDE DEF S
<1> QED
  BY <1>4 DEF NextLine, S

Inserted(id, n, u) ==
  \/ /\ n.pc = "insert" /\ n.id = id /\ n.wrote = placed + 1
     /\ u = <<[table |-> "orders", id |-> id]>> /\ faulted' = faulted
  \/ n = Idle /\ u = <<>> /\ faulted' = TRUE

LEMMA InsertHeaderShape ==
  ASSUME Typed, NEW r \in Requests, InsertHeader(r)
  PROVE  /\ At(r, Inserting, "tx") /\ placed' = placed + 1
         /\ UNCHANGED <<items, owed, sent, dropped>>
         /\ \E id \in NextIds(orders), row \in OrderRow, n \in Request, u \in Seq(Insertion) :
              /\ orders' = InsertRow(orders, id, row)
              /\ row.serial = placed + 1 /\ row.basket = req[r].basket
              /\ row.status = req[r].to
              /\ Fits(n, u) /\ Moves(r, n, u)
              /\ SameBut(n, req[r]) \/ n = Idle
              /\ Inserted(id, n, u)
<1> DEFINE q == req[r]
           row == [owner |-> OwnerOf(q.actor), status |-> q.to, basket |-> q.basket,
                   serial |-> placed + 1, verified |-> FALSE]
<1>1. At(r, Inserting, "tx") /\ placed' = placed + 1
      /\ UNCHANGED <<items, owed, sent, dropped>>
  BY DEF InsertHeader
<1>2. q \in Request /\ q.basket \in Baskets /\ placed + 1 \in Nat /\ Armed(q) /\ q.pc = "tx"
      /\ q.method \in Inserting
  BY <1>1 DEF Typed, RequestsFit, HistoryFits, Fits, Armed, At, Writing
<1>3. row \in OrderRow /\ row.serial = placed + 1 /\ row.basket = q.basket
      /\ row.status = q.to
  BY <1>2, OwnerIsTyped DEF OrderRow, Request
<1>4. PICK id \in NextIds(orders) :
        /\ orders' = InsertRow(orders, id, row)
        /\ \/ /\ req' = [req EXCEPT ![r].pc = "insert", ![r].id = id,
                                    ![r].wrote = placed + 1]
              /\ undo' = [undo EXCEPT ![r] = <<[table |-> "orders", id |-> id]>>]
              /\ UNCHANGED faulted
           \/ Abort(r, <<>>)
  BY DEF InsertHeader
<1>5. id \in Nat \ {0}
  BY NextIdIsFresh DEF Typed, TablesFit
<1> HIDE DEF row
<1>6. CASE Abort(r, <<>>)
  <2>1. Moves(r, Idle, <<>>) /\ faulted' = TRUE
    BY <1>6 DEF Abort, Finish, Moves
  <2> QED
    BY <1>1, <1>3, <1>4, <2>1, IdleFits DEF Fits, Inserted
<1>7. CASE /\ req' = [req EXCEPT ![r].pc = "insert", ![r].id = id, ![r].wrote = placed + 1]
           /\ undo' = [undo EXCEPT ![r] = <<[table |-> "orders", id |-> id]>>]
           /\ UNCHANGED faulted
  <2> DEFINE n == [q EXCEPT !.pc = "insert", !.id = id, !.wrote = placed + 1]
             u == <<[table |-> "orders", id |-> id]>>
  <2>1. /\ n \in Request /\ n.pc = "insert" /\ n.id = id /\ n.wrote = placed + 1
        /\ SameBut(n, q)
    BY <1>2, <1>5 DEF Request, Pcs, SameBut
  <2>2. u \in Seq(Insertion) /\ u # <<>>
    BY <1>5 DEF Insertion
  <2>3. Moves(r, n, u)
    BY <1>7 DEF Moves, Typed, RequestsFit
  <2> HIDE DEF n
  <2>4. Armed(n)
    BY <1>2, <2>1 DEF Armed, SameBut, Writing, Inserting, Moving
  <2>5. Fits(n, u) /\ Inserted(id, n, u)
    BY <1>7, <2>1, <2>2, <2>4 DEF Fits, Inserted
  <2> HIDE DEF u
  <2> QED
    BY <1>1, <1>3, <1>4, <2>1, <2>2, <2>3, <2>5
<1> QED
  BY <1>4, <1>6, <1>7

LineAdded(r, i, n, u) ==
  \/ /\ n = req[r] /\ faulted' = faulted /\ NextLine(r) < LineCount[req[r].basket]
     /\ u = Append(undo[r], [table |-> "order_items", id |-> i])
  \/ n.pc = "header" /\ faulted' = faulted /\ NextLine(r) = LineCount[req[r].basket]
  \/ (n = Idle \/ n.pc = "undo") /\ faulted' = TRUE

LEMMA InsertLineShape ==
  ASSUME Typed, NEW r \in Requests, InsertLine(r)
  PROVE  /\ req[r].pc = "insert" /\ req[r].id \in DOMAIN orders
         /\ UNCHANGED <<orders, placed, sent, dropped>>
         /\ ItemOf(req[r].id, req[r].wrote, req[r].basket, NextLine(r)) \in ItemRow
         /\ owed' \subseteq Event
         /\ \E i \in NextIds(items), n \in Request, u \in Seq(Insertion) :
              /\ items' = InsertRow(items, i,
                            ItemOf(req[r].id, req[r].wrote, req[r].basket, NextLine(r)))
              /\ Fits(n, u) /\ Moves(r, n, u) /\ LineAdded(r, i, n, u)
<1> DEFINE q == req[r]
           row == ItemOf(q.id, q.wrote, q.basket, NextLine(r))
<1>1. /\ q.pc = "insert" /\ q.id \in DOMAIN orders
      /\ UNCHANGED <<orders, placed, sent, dropped>>
  BY DEF InsertLine
<1>2. /\ q \in Request /\ Armed(q) /\ undo[r] \in Seq(Insertion) /\ Fits(q, undo[r])
      /\ q.basket \in Baskets /\ q.method \in Writing
  BY <1>1 DEF Typed, RequestsFit, Fits, Armed
<1>3. NextLine(r) \in Nat
  BY NextLineIsNat DEF Typed
<1>4. row \in ItemRow
  BY <1>2, <1>3 DEF ItemOf, ItemRow, Request
<1>5. owed' \subseteq Event
  <2>1. [event |-> "placed", serial |-> q.wrote] \in Event
    BY <1>2 DEF Event, EventNames, Request
  <2> QED
    BY <2>1 DEF InsertLine, Typed, HistoryFits
<1>6. PICK i \in NextIds(items) :
        /\ items' = InsertRow(items, i, row)
        /\ \/ /\ NextLine(r) < LineCount[q.basket]
              /\ undo' = [undo EXCEPT ![r] =
                            Append(undo[r], [table |-> "order_items", id |-> i])]
              /\ UNCHANGED <<req, faulted>>
           \/ /\ NextLine(r) = LineCount[q.basket]
              /\ undo' = [undo EXCEPT ![r] = <<>>]
              /\ GoTo(r, "header")
              /\ UNCHANGED faulted
           \/ Abort(r, undo[r])
  BY DEF InsertLine
<1>7. i \in Nat \ {0}
  BY NextIdIsFresh DEF Typed, TablesFit, IsItemTable
<1> DEFINE Goal == \E n \in Request, u \in Seq(Insertion) :
                     Fits(n, u) /\ Moves(r, n, u) /\ LineAdded(r, i, n, u)
<1>8. ASSUME NextLine(r) < LineCount[q.basket],
             undo' = [undo EXCEPT ![r] = Append(undo[r], [table |-> "order_items", id |-> i])],
             UNCHANGED <<req, faulted>>
      PROVE  Goal
  <2> DEFINE u == Append(undo[r], [table |-> "order_items", id |-> i])
  <2>1. [table |-> "order_items", id |-> i] \in Insertion
    BY <1>7 DEF Insertion
  <2>2. u \in Seq(Insertion) /\ u # <<>>
    BY <1>2, <2>1, AppendProperties
  <2>3. Fits(q, u)
    BY <1>1, <1>2, <2>2 DEF Fits
  <2>4. Moves(r, q, u) /\ LineAdded(r, i, q, u)
    BY <1>8 DEF Moves, LineAdded, Typed, RequestsFit
  <2> HIDE DEF u
  <2> QED
    BY <1>2, <2>2, <2>3, <2>4
<1>9. ASSUME NextLine(r) = LineCount[q.basket], undo' = [undo EXCEPT ![r] = <<>>],
             GoTo(r, "header"), UNCHANGED faulted
      PROVE  Goal
  <2>1. PICK n \in Request :
          req' = [req EXCEPT ![r] = n] /\ n.pc = "header" /\ SameBut(n, q)
    BY <1>9, GoesTo DEF Typed, Pcs
  <2>2. Armed(n)
    BY <1>2, <2>1 DEF Armed, SameBut, Writing, Inserting, Moving
  <2>3. Fits(n, <<>>) /\ Moves(r, n, <<>>) /\ LineAdded(r, i, n, <<>>)
    BY <1>9, <2>1, <2>2, EmptyUndo DEF Fits, Moves, LineAdded
  <2> QED
    BY <2>3, EmptyUndo
<1>10. ASSUME Abort(r, undo[r])
       PROVE  Goal
  <2>1. PICK n \in Request :
          Fits(n, undo[r]) /\ Moves(r, n, undo[r]) /\ (n = Idle \/ n.pc = "undo")
    BY <1>1, <1>2, <1>10, AbortFits DEF Typed
  <2>2. LineAdded(r, i, n, undo[r])
    BY <1>10, <2>1 DEF Abort, LineAdded
  <2> QED
    BY <1>2, <2>1, <2>2
<1>11. Goal
  BY <1>6, <1>8, <1>9, <1>10
<1> HIDE DEF row, Goal
<1>12. items' = InsertRow(items, i, row) /\ \E n \in Request, u \in Seq(Insertion) :
                     Fits(n, u) /\ Moves(r, n, u) /\ LineAdded(r, i, n, u)
  BY <1>6, <1>11 DEF Goal
<1> QED
  BY <1>1, <1>4, <1>5, <1>12 DEF row

(* A statement on the header keeps every serial.                           *)
RowsKept(id) ==
  /\ id \in DOMAIN orders /\ DOMAIN orders' = DOMAIN orders
  /\ orders' \in [DOMAIN orders -> OrderRow]
  /\ \A i \in DOMAIN orders : i # id => orders'[i] = orders[i]
  /\ orders'[id].serial = orders[id].serial

LEMMA RowWritten ==
  ASSUME Typed, NEW id \in DOMAIN orders, NEW row \in OrderRow,
         row.serial = orders[id].serial, orders' = [orders EXCEPT ![id] = row]
  PROVE  RowsKept(id) /\ orders'[id] = row
BY DEF RowsKept, Typed, TablesFit

LEMMA UpdateHeaderShape ==
  ASSUME Typed, NEW r \in Requests, UpdateHeader(r)
  PROVE  /\ At(r, {"Update"}, "tx") /\ UNCHANGED <<items, history>>
         /\ \E n \in Request :
              /\ Fits(n, <<>>) /\ Moves(r, n, <<>>)
              /\ \/ n = Idle /\ orders' = orders /\ faulted' = faulted
                 \/ /\ RowsKept(req[r].id)
                    /\ orders'[req[r].id].status = orders[req[r].id].status
                    /\ orders'[req[r].id].basket = req[r].basket
                    /\ \/ /\ n.pc = "clear" /\ n.id = req[r].id /\ SameBut(n, req[r])
                          /\ n.wrote = orders[req[r].id].serial /\ faulted' = faulted
                       \/ n = Idle /\ faulted' = TRUE
<1> DEFINE q == req[r]
<1>1. At(r, {"Update"}, "tx") /\ UNCHANGED <<items, history>>
  BY DEF UpdateHeader
<1>2. /\ q \in Request /\ Armed(q) /\ q.basket \in Baskets /\ undo[r] = <<>>
      /\ q.method = "Update" /\ q.pc = "tx"
  BY <1>1 DEF At, Typed, RequestsFit, Fits, Armed, Writing
<1>3. CASE ~ Matches(orders, q.id, q.actor)
  <2>1. Finish(r) /\ orders' = orders /\ undo' = undo /\ faulted' = faulted
    BY <1>3 DEF UpdateHeader
  <2>2. Moves(r, Idle, <<>>)
    BY <1>2, <2>1, Finishes DEF Typed
  <2> QED
    BY <1>1, <2>1, <2>2, IdleFits DEF Fits
<1>4. CASE Matches(orders, q.id, q.actor)
  <2> DEFINE row == [orders[q.id] EXCEPT !.basket = q.basket]
  <2>1. q.id \in DOMAIN orders /\ orders[q.id] \in OrderRow /\ orders[q.id].serial \in Nat
    BY <1>4 DEF Matches, Typed, TablesFit, OrderRow
  <2>2. /\ row \in OrderRow /\ row.serial = orders[q.id].serial
        /\ row.status = orders[q.id].status /\ row.basket = q.basket
    BY <1>2, <2>1 DEF OrderRow
  <2>3. orders' = [orders EXCEPT ![q.id] = row]
    BY <1>4, <2>1 DEF UpdateHeader, Typed, TablesFit
  <2> HIDE DEF row
  <2>4. /\ RowsKept(q.id) /\ orders'[q.id].status = orders[q.id].status
        /\ orders'[q.id].basket = q.basket
    BY <2>1, <2>2, <2>3, RowWritten
  <2>5. CASE /\ req' = [req EXCEPT ![r].pc = "clear", ![r].wrote = orders[q.id].serial]
             /\ UNCHANGED <<undo, faulted>>
    <3> DEFINE n == [q EXCEPT !.pc = "clear", !.wrote = orders[q.id].serial]
    <3>1. /\ n \in Request /\ n.pc = "clear" /\ SameBut(n, q)
          /\ n.id = q.id /\ n.wrote = orders[q.id].serial
      BY <1>2, <2>1 DEF Request, Pcs, SameBut
    <3>2. req' = [req EXCEPT ![r] = n]
      BY <2>5 DEF Typed, RequestsFit
    <3> HIDE DEF n
    <3>3. Armed(n)
      BY <1>2, <3>1 DEF Armed, SameBut, Moving
    <3>4. Fits(n, <<>>) /\ Moves(r, n, <<>>)
      BY <1>2, <2>5, <3>1, <3>2, <3>3, EmptyUndo DEF Fits, Moves, Typed, RequestsFit
    <3> QED
      BY <1>1, <2>4, <2>5, <3>1, <3>4
  <2>6. CASE Abort(r, <<>>)
    <3>1. Moves(r, Idle, <<>>) /\ faulted' = TRUE
      BY <2>6 DEF Abort, Finish, Moves
    <3> QED
      BY <1>1, <2>4, <3>1, IdleFits DEF Fits
  <2> QED
    BY <1>4, <2>5, <2>6 DEF UpdateHeader
<1> QED
  BY <1>3, <1>4

LEMMA ClearLinesShape ==
  ASSUME Typed, NEW r \in Requests, ClearLines(r)
  PROVE  /\ At(r, {"Update"}, "clear") \/ At(r, {"Delete"}, "tx")
         /\ items' = DeleteLines(items, req[r].id) /\ UNCHANGED <<orders, history>>
         /\ \E n \in Request :
              /\ Fits(n, <<>>) /\ Moves(r, n, <<>>)
              /\ \/ /\ n.pc = IF req[r].method = "Update" THEN "insert" ELSE "remove"
                    /\ SameBut(n, req[r]) /\ n.id = req[r].id /\ n.wrote = req[r].wrote
                    /\ faulted' = faulted
                 \/ n = Idle /\ faulted' = TRUE
<1> DEFINE q == req[r]
           pc == IF q.method = "Update" THEN "insert" ELSE "remove"
<1>1. /\ At(r, {"Update"}, "clear") \/ At(r, {"Delete"}, "tx")
      /\ items' = DeleteLines(items, q.id) /\ UNCHANGED <<orders, history>>
  BY DEF ClearLines
<1>2. /\ q \in Request /\ Armed(q) /\ undo[r] = <<>>
      /\ q.method \in {"Update", "Delete"}
  BY <1>1 DEF At, Typed, RequestsFit, Fits
<1>3. CASE GoTo(r, pc) /\ UNCHANGED <<undo, faulted>>
  <2>1. PICK n \in Request :
          /\ req' = [req EXCEPT ![r] = n] /\ n.pc = pc /\ SameBut(n, q)
          /\ n.id = q.id /\ n.wrote = q.wrote
    BY <1>3, GoesTo DEF Typed, Pcs
  <2>2. Armed(n)
    BY <1>2, <2>1 DEF Armed, SameBut, Moving, Writing, Inserting
  <2>3. Fits(n, <<>>) /\ Moves(r, n, <<>>)
    BY <1>2, <1>3, <2>1, <2>2, EmptyUndo DEF Fits, Moves, Typed, RequestsFit
  <2> QED
    BY <1>1, <1>3, <2>1, <2>3
<1>4. CASE Abort(r, <<>>)
  <2>1. Moves(r, Idle, <<>>) /\ faulted' = TRUE
    BY <1>4 DEF Abort, Finish, Moves
  <2> QED
    BY <1>1, <2>1, IdleFits DEF Fits
<1> QED
  BY <1>3, <1>4 DEF ClearLines

LEMMA RemoveHeaderShape ==
  ASSUME Typed, NEW r \in Requests, RemoveHeader(r)
  PROVE  /\ At(r, {"Delete"}, "remove") /\ UNCHANGED <<items, history, faulted>>
         /\ orders' = IF LinesOf(items, req[r].id) = {}
                      THEN DeleteHeader(orders, req[r].id, req[r].actor) ELSE orders
         /\ Moves(r, Idle, <<>>)
BY Finishes DEF RemoveHeader, At, Typed

LEMMA ReadStatusShape ==
  ASSUME Typed, NEW r \in Requests, ReadStatus(r)
  PROVE  /\ At(r, Moving, "tx") /\ UNCHANGED <<tables, history, faulted>>
         /\ \E n \in Request :
              /\ Fits(n, <<>>) /\ Moves(r, n, <<>>)
              /\ \/ n = Idle
                 \/ /\ n.pc = "write" /\ SameBut(n, req[r]) /\ n.id = req[r].id
                    /\ Matches(orders, n.id, n.actor)
                    /\ IsValidTransition(orders[n.id].status, n.to)
<1> DEFINE q == req[r]
<1>1. At(r, Moving, "tx") /\ UNCHANGED <<tables, history, undo, faulted>>
  BY DEF ReadStatus
<1>2. q \in Request /\ Armed(q) /\ undo[r] = <<>> /\ q.method \in Moving /\ q.pc = "tx"
  BY <1>1 DEF At, Typed, RequestsFit, Fits
<1>3. CASE Finish(r)
  <2>1. Moves(r, Idle, <<>>)
    BY <1>1, <1>2, <1>3, Finishes DEF Typed
  <2> QED
    BY <1>1, <2>1, IdleFits DEF Fits
<1>4. CASE /\ Matches(orders, q.id, q.actor) /\ IsValidTransition(orders[q.id].status, q.to)
           /\ GoTo(r, "write")
  <2>1. PICK n \in Request :
          req' = [req EXCEPT ![r] = n] /\ n.pc = "write" /\ SameBut(n, q) /\ n.id = q.id
    BY <1>4, GoesTo DEF Typed, Pcs
  <2>2. q.to \in EventNames
    BY <1>4 DEF IsValidTransition, ValidTransitions, EventNames
  <2>3. Armed(n)
    BY <1>2, <2>1, <2>2 DEF Armed, SameBut, Moving, Writing, Inserting
  <2>4. Fits(n, <<>>) /\ Moves(r, n, <<>>)
    BY <1>1, <1>2, <2>1, <2>3, EmptyUndo DEF Fits, Moves, Typed, RequestsFit
  <2>5. Matches(orders, n.id, n.actor) /\ IsValidTransition(orders[n.id].status, n.to)
    BY <1>4, <2>1 DEF SameBut
  <2> QED
    BY <1>1, <2>1, <2>4, <2>5
<1> QED
  BY <1>3, <1>4 DEF ReadStatus

LEMMA WriteStatusShape ==
  ASSUME Typed, NEW r \in Requests, WriteStatus(r)
  PROVE  /\ At(r, Moving, "write") /\ UNCHANGED <<items, placed, sent>>
         /\ owed' \subseteq Event /\ dropped' \subseteq Event
         /\ faulted' = faulted \/ faulted' = TRUE
         /\ \E n \in Request :
              /\ Fits(n, <<>>) /\ Moves(r, n, <<>>) /\ n.pc \in {"idle", "stamp", "header"}
              /\ \/ orders' = orders
                 \/ /\ RowsKept(req[r].id) /\ Matches(orders, req[r].id, req[r].actor)
                    /\ orders'[req[r].id].status = req[r].to
                    /\ orders'[req[r].id].basket = orders[req[r].id].basket
<1> DEFINE q == req[r]
           moved == [event |-> q.to, serial |-> orders[q.id].serial]
<1>1. At(r, Moving, "write") /\ UNCHANGED <<items, placed, sent>>
  BY DEF WriteStatus
<1>2. /\ q \in Request /\ Armed(q) /\ undo[r] = <<>> /\ q.to \in EventNames \cap StoredStatuses
      /\ q.method \in Moving /\ q.pc = "write"
  BY <1>1 DEF At, Typed, RequestsFit, Fits, Armed, StoredStatuses
<1>3. CASE ~ Matches(orders, q.id, q.actor)
  <2>1. Finish(r) /\ UNCHANGED <<orders, owed, dropped, undo, faulted>>
    BY <1>3 DEF WriteStatus
  <2>2. Moves(r, Idle, <<>>)
    BY <1>2, <2>1, Finishes DEF Typed
  <2>3. Idle.pc = "idle"
    BY DEF Idle
  <2> QED
    BY <1>1, <2>1, <2>2, <2>3, IdleFits DEF Fits, Typed, HistoryFits
<1>4. CASE Matches(orders, q.id, q.actor)
  <2> DEFINE row == [orders[q.id] EXCEPT !.status = q.to]
  <2>1. q.id \in DOMAIN orders /\ orders[q.id] \in OrderRow /\ orders[q.id].serial \in Nat
    BY <1>4 DEF Matches, Typed, TablesFit, OrderRow
  <2>2. /\ row \in OrderRow /\ row.serial = orders[q.id].serial
        /\ row.status = q.to /\ row.basket = orders[q.id].basket
    BY <1>2, <2>1 DEF OrderRow
  <2>3. orders' = [orders EXCEPT ![q.id] = row]
    BY <1>4, <2>1 DEF WriteStatus, Typed, TablesFit
  <2> HIDE DEF row
  <2>4. /\ RowsKept(q.id) /\ orders'[q.id].status = q.to
        /\ orders'[q.id].basket = orders[q.id].basket
    BY <2>1, <2>2, <2>3, RowWritten
  <2>5. moved \in Event
    BY <1>2, <2>1 DEF Event
  <2>6. owed' \subseteq Event
    BY <1>4, <2>5 DEF WriteStatus, Typed, HistoryFits
  <2> DEFINE pc == IF q.to = "confirmed" THEN "stamp" ELSE "header"
  <2>7. CASE /\ req' = [req EXCEPT ![r].wrote = orders[q.id].serial, ![r].pc = pc]
             /\ UNCHANGED <<undo, faulted, dropped>>
    <3>1. req' = [req EXCEPT ![r].pc = pc, ![r].wrote = orders[q.id].serial]
      BY <1>2, <2>7 DEF Typed, RequestsFit, Request
    <3>2. PICK n \in Request :
            req' = [req EXCEPT ![r] = n] /\ n.pc = pc /\ SameBut(n, q)
      BY <2>1, <3>1, GoesWriting DEF Typed, Pcs
    <3>3. Armed(n)
      BY <1>2, <3>2 DEF Armed, SameBut, Moving, Writing, Inserting
    <3>4. Fits(n, <<>>) /\ Moves(r, n, <<>>) /\ n.pc \in {"idle", "stamp", "header"}
      BY <1>2, <2>7, <3>2, <3>3, EmptyUndo DEF Fits, Moves, Typed, RequestsFit
    <3>5. dropped' \subseteq Event /\ faulted' = faulted
      BY <2>7 DEF Typed, HistoryFits
    <3> QED
      BY <1>1, <1>4, <2>4, <2>6, <3>4, <3>5
  <2>8. CASE Abort(r, <<>>) /\ Lose(r, {moved})
    <3>1. Moves(r, Idle, <<>>) /\ faulted' = TRUE /\ dropped' \subseteq Event
      BY <2>5, <2>8 DEF Abort, Finish, Moves, Lose, Typed, HistoryFits
    <3>2. Idle.pc = "idle"
      BY DEF Idle
    <3> QED
      BY <1>1, <1>4, <2>4, <2>6, <3>1, <3>2, IdleFits DEF Fits
  <2> QED
    BY <1>4, <2>7, <2>8 DEF WriteStatus
<1> QED
  BY <1>3, <1>4

LEMMA PendingIsOwed == \A r \in Requests : Pending(r) \subseteq owed
BY DEF Pending

LEMMA StampShape ==
  ASSUME Typed, NEW r \in Requests, Stamp(r)
  PROVE  /\ At(r, Moving, "stamp") /\ UNCHANGED <<items, placed, owed, sent>>
         /\ dropped' \subseteq Event
         /\ faulted' = faulted \/ faulted' = TRUE
         /\ \E n \in Request :
              Fits(n, <<>>) /\ Moves(r, n, <<>>) /\ n.pc \in {"idle", "header"}
         /\ \/ orders' = orders
            \/ /\ RowsKept(req[r].id)
               /\ orders'[req[r].id].status = orders[req[r].id].status
               /\ orders'[req[r].id].basket = orders[req[r].id].basket
<1> DEFINE q == req[r]
           Kept == \/ orders' = orders
                   \/ /\ RowsKept(q.id)
                      /\ orders'[q.id].status = orders[q.id].status
                      /\ orders'[q.id].basket = orders[q.id].basket
<1>1. At(r, Moving, "stamp") /\ UNCHANGED <<items, placed, owed, sent>>
  BY DEF Stamp
<1>2. /\ q \in Request /\ Armed(q) /\ undo[r] = <<>>
      /\ q.method \in Moving /\ q.pc = "stamp"
  BY <1>1 DEF At, Typed, RequestsFit, Fits
<1>3. Kept
  <2>1. CASE Matches(orders, q.id, q.actor)
    <3> DEFINE row == [orders[q.id] EXCEPT !.verified = TRUE]
    <3>1. q.id \in DOMAIN orders /\ orders[q.id] \in OrderRow
      BY <2>1 DEF Matches, Typed, TablesFit
    <3>2. /\ row \in OrderRow /\ row.serial = orders[q.id].serial
          /\ row.status = orders[q.id].status /\ row.basket = orders[q.id].basket
      BY <3>1 DEF OrderRow
    <3>3. orders' = [orders EXCEPT ![q.id] = row]
      BY <2>1, <3>1 DEF Stamp, Typed, TablesFit
    <3> HIDE DEF row
    <3> QED
      BY <3>1, <3>2, <3>3, RowWritten
  <2>2. CASE ~ Matches(orders, q.id, q.actor)
    BY <2>2 DEF Stamp
  <2> QED
    BY <2>1, <2>2
<1>4. CASE GoTo(r, "header") /\ UNCHANGED <<undo, faulted, dropped>>
  <2> DEFINE n == [q EXCEPT !.pc = "header"]
  <2>1. n \in Request /\ n.pc = "header" /\ SameBut(n, q)
    BY <1>2 DEF Request, Pcs, SameBut
  <2>2. req' = [req EXCEPT ![r] = n]
    BY <1>4 DEF GoTo, Typed, RequestsFit
  <2> HIDE DEF n
  <2>3. Armed(n)
    BY <1>2, <2>1 DEF Armed, SameBut, Moving, Writing, Inserting
  <2>4. Fits(n, <<>>) /\ Moves(r, n, <<>>)
    BY <1>2, <1>4, <2>1, <2>2, <2>3, EmptyUndo DEF Fits, Moves, Typed, RequestsFit
  <2>5. dropped' \subseteq Event /\ faulted' = faulted
    BY <1>4 DEF Typed, HistoryFits
  <2> HIDE DEF Kept
  <2>6. \E m \in Request : Fits(m, <<>>) /\ Moves(r, m, <<>>) /\ m.pc \in {"idle", "header"}
    BY <2>1, <2>4
  <2> QED
    BY <1>1, <1>3, <2>5, <2>6 DEF Kept
<1>5. CASE Abort(r, <<>>) /\ Lose(r, Pending(r))
  <2>1. Moves(r, Idle, <<>>) /\ faulted' = TRUE /\ dropped' \subseteq Event
    BY <1>5, PendingIsOwed DEF Abort, Finish, Moves, Lose, Typed, HistoryFits
  <2>2. Idle.pc = "idle"
    BY DEF Idle
  <2> HIDE DEF Kept
  <2>3. \E m \in Request : Fits(m, <<>>) /\ Moves(r, m, <<>>) /\ m.pc \in {"idle", "header"}
    BY <2>1, <2>2, IdleFits DEF Fits
  <2> QED
    BY <1>1, <1>3, <2>1, <2>3 DEF Kept
<1> QED
  BY <1>4, <1>5 DEF Stamp

LEMMA StatementFailsShape ==
  ASSUME Typed, NEW r \in Requests, StatementFails(r)
  PROVE  /\ UNCHANGED <<orders, items, placed, owed, sent>> /\ dropped' \subseteq Event
         /\ faulted' = TRUE /\ req[r].pc \notin {"idle", "undo"}
         /\ \E n \in Request :
              Fits(n, undo[r]) /\ Moves(r, n, undo[r]) /\ (n = Idle \/ n.pc = "undo")
<1>1. /\ req[r].pc \in {"tx", "insert", "clear", "remove", "write", "stamp"}
      /\ Abort(r, undo[r]) /\ UNCHANGED <<orders, items, placed, owed, sent>>
  BY DEF StatementFails, tables
<1>2. undo[r] \in Seq(Insertion) /\ (undo[r] # <<>> => req[r].pc = "insert")
  BY <1>1 DEF Typed, RequestsFit, Fits
<1>3. \E n \in Request :
        Fits(n, undo[r]) /\ Moves(r, n, undo[r]) /\ (n = Idle \/ n.pc = "undo")
  BY <1>1, <1>2, AbortFits DEF Typed
<1>4. dropped' \subseteq Event
  BY PendingIsOwed DEF StatementFails, Lose, Typed, HistoryFits
<1>5. faulted' = TRUE
  BY <1>1 DEF Abort
<1> QED
  BY <1>1, <1>3, <1>4, <1>5

LEMMA LineRefusedShape ==
  ASSUME Typed, NEW r \in Requests, LineRefused(r)
  PROVE  /\ UNCHANGED <<orders, items, placed, owed, sent, dropped, faulted>>
         /\ req[r].pc = "insert" /\ req[r].id \notin DOMAIN orders
         /\ \E n \in Request : Fits(n, undo[r]) /\ Moves(r, n, undo[r])
<1>1. /\ req[r].pc = "insert" /\ req[r].id \notin DOMAIN orders
      /\ UNCHANGED <<orders, items, placed, owed, sent, dropped, faulted, undo>>
      /\ IF undo[r] = <<>> THEN Finish(r) ELSE GoTo(r, "undo")
  BY DEF LineRefused, tables, history
<1>2. undo' = [undo EXCEPT ![r] = undo[r]]
  BY <1>1 DEF Typed, RequestsFit
<1>3. CASE undo[r] = <<>>
  BY <1>1, <1>2, <1>3, IdleFits DEF Finish, Moves, Fits
<1>4. CASE undo[r] # <<>>
  <2> DEFINE n == [req[r] EXCEPT !.pc = "undo"]
  <2>1. req[r] \in Request /\ Armed(req[r]) /\ undo[r] \in Seq(Insertion)
    BY DEF Typed, RequestsFit, Fits
  <2>2. n \in Request /\ n.pc = "undo" /\ SameBut(n, req[r])
    BY <2>1 DEF Request, Pcs, SameBut
  <2>3. req' = [req EXCEPT ![r] = n]
    BY <1>1, <1>4 DEF GoTo, Typed, RequestsFit
  <2> HIDE DEF n
  <2>4. Armed(n)
    BY <1>1, <2>1, <2>2 DEF Armed, SameBut, Moving, Writing, Inserting
  <2> QED
    BY <1>1, <1>2, <1>4, <2>1, <2>2, <2>3, <2>4 DEF Fits, Moves
<1> QED
  BY <1>3, <1>4

LEMMA FrontShape ==
  ASSUME NEW S, NEW s \in Seq(S), s # <<>>
  PROVE  /\ Last(s) \in S /\ Front(s) \in Seq(S)
         /\ Front(s) = <<>> <=> Len(s) = 1
<1>1. Len(s) \in Nat \ {0}
  BY LenProperties, EmptySeq
<1>2. Last(s) \in S
  BY <1>1, ElementOfSeq DEF Last
<1>3. \A i \in 1 .. Len(s) - 1 : s[i] \in S
  BY <1>1, ElementOfSeq
<1>4. Front(s) \in Seq(S) /\ Len(Front(s)) = Len(s) - 1
  <2>1. 1 \in Int /\ Len(s) - 1 \in Int
    BY <1>1
  <2>2. /\ SubSeq(s, 1, Len(s) - 1) \in Seq(S)
        /\ Len(SubSeq(s, 1, Len(s) - 1)) = IF 1 <= Len(s) - 1 THEN Len(s) - 1 - 1 + 1 ELSE 0
    BY <1>3, <2>1, SubSeqProperties
  <2>3. Front(s) = SubSeq(s, 1, Len(s) - 1)
    BY DEF Front
  <2>4. ASSUME NEW n \in Nat \ {0}
        PROVE  (IF 1 <= n - 1 THEN n - 1 - 1 + 1 ELSE 0) = n - 1
    OBVIOUS
  <2> QED
    BY <1>1, <2>2, <2>3, <2>4
<1>5. Front(s) = <<>> <=> Len(Front(s)) = 0
  BY <1>4, LenProperties, EmptySeq
<1> QED
  BY <1>1, <1>2, <1>4, <1>5

LEMMA CompensateShape ==
  ASSUME Typed, NEW r \in Requests, Compensate(r)
  PROVE  /\ req[r].pc = "undo" /\ UNCHANGED <<history, faulted>>
         /\ \/ items' = items /\ orders' = orders
            \/ \E id \in Nat : items' = DeleteRow(items, id) /\ orders' = orders
            \/ \E id \in Nat : /\ items' = items
                               /\ orders' = IF LinesOf(items, id) = {}
                                            THEN DeleteRow(orders, id) ELSE orders
         /\ \E n \in Request, u \in Seq(Insertion) :
              Fits(n, u) /\ Moves(r, n, u) /\ (n = Idle \/ n.pc = "undo")
<1>1. req[r].pc = "undo" /\ UNCHANGED <<history, faulted>>
  BY DEF Compensate
<1>2. /\ req[r] \in Request /\ Armed(req[r]) /\ Fits(req[r], undo[r])
      /\ undo[r] \in Seq(Insertion) /\ undo[r] # <<>>
  BY <1>1 DEF Typed, RequestsFit, Fits
<1>3. /\ Last(undo[r]) \in Insertion /\ Front(undo[r]) \in Seq(Insertion)
      /\ Front(undo[r]) = <<>> <=> Len(undo[r]) = 1
  BY <1>2, FrontShape
<1>4. Last(undo[r]).id \in Nat
  BY <1>3 DEF Insertion
<1>5. undo' = [undo EXCEPT ![r] = Front(undo[r])]
  BY DEF Compensate
<1>6. \E n \in Request, u \in Seq(Insertion) :
        Fits(n, u) /\ Moves(r, n, u) /\ (n = Idle \/ n.pc = "undo")
  <2>1. CASE Len(undo[r]) = 1
    <3>1. Moves(r, Idle, <<>>)
      BY <1>3, <1>5, <2>1 DEF Compensate, Finish, Moves
    <3> QED
      BY <3>1, IdleFits DEF Fits
  <2>2. CASE Len(undo[r]) # 1
    <3>1. Moves(r, req[r], Front(undo[r]))
      BY <1>5, <2>2 DEF Compensate, Moves, Typed, RequestsFit
    <3>2. Fits(req[r], Front(undo[r]))
      BY <1>1, <1>2, <1>3, <2>2 DEF Fits
    <3> QED
      BY <1>1, <1>2, <1>3, <3>1, <3>2
  <2> QED
    BY <2>1, <2>2
<1>7. \/ items' = items /\ orders' = orders
      \/ \E id \in Nat : items' = DeleteRow(items, id) /\ orders' = orders
      \/ \E id \in Nat : /\ items' = items
                         /\ orders' = IF LinesOf(items, id) = {}
                                      THEN DeleteRow(orders, id) ELSE orders
  BY <1>4 DEF Compensate, tables
<1> QED
  BY <1>1, <1>6, <1>7

(* The steps of the service outside its transactions.                      *)
Outside == {"idle", "select", "tx", "header", "lines", "publish"}

ServiceLeaves(r, n) ==
  /\ Fits(n, <<>>) /\ Moves(r, n, <<>>) /\ n.pc \in Outside
  /\ n.method = "Delete" /\ n.pc = "tx" => Matches(orders, n.id, n.actor)
  /\ n.method \in Inserting /\ n.pc = "tx" => MayPlace

LEMMA AcceptLeaves ==
  ASSUME Typed, NEW r \in Requests, undo' = undo,
         NEW method \in AllMethods, NEW pc \in {"tx", "select", "header"},
         NEW actor \in Actors, NEW id \in Nat, NEW to \in StoredStatuses,
         NEW basket \in Baskets \cup {NoBasket},
         method \in Writing => basket \in Baskets,
         method \in Moving => to \in Statuses /\ pc # "header",
         method = "Delete" => pc # "tx",
         method \in Inserting => MayPlace,
         Accept(r, method, pc, actor, id, to, basket)
  PROVE  \E n \in Request : ServiceLeaves(r, n)
<1> DEFINE n == [method |-> method, pc |-> pc, actor |-> actor, id |-> id,
                 to |-> to, basket |-> basket, wrote |-> 0, read |-> 0]
<1>1. n \in Request /\ n.method = method /\ n.pc = pc /\ n.to = to /\ n.basket = basket
  BY DEF Request, Pcs
<1>2. req' = [req EXCEPT ![r] = n] /\ req[r] = Idle
  BY DEF Accept
<1> HIDE DEF n
<1>3. undo[r] = <<>>
  BY <1>2 DEF Typed, RequestsFit, Fits, Idle
<1>4. Fits(n, <<>>)
  BY <1>1, EmptyUndo DEF Fits, Armed, Writing, Inserting, Moving
<1>5. Moves(r, n, <<>>)
  BY <1>2, <1>3 DEF Moves, Typed, RequestsFit
<1> QED
  BY <1>1, <1>4, <1>5 DEF ServiceLeaves, Outside

LEMMA StartShape ==
  ASSUME Typed, NEW r \in Requests, Start(r), undo' = undo
  PROVE  /\ UNCHANGED <<tables, history>>
         /\ \E n \in Request : ServiceLeaves(r, n)
<1>0. /\ Accounts \subseteq Actors /\ Admin \in Actors
      /\ \A id \in 1 .. placed : id \in Nat
      /\ 0 \in Nat
      /\ {"pending", "cancelled"} \subseteq Statuses /\ Statuses \subseteq StoredStatuses
      /\ BodyStatuses \subseteq StoredStatuses /\ MoveStatuses \subseteq Statuses
      /\ AllMethods = {"Create", "Checkout", "Get", "Update", "Delete", "Cancel", "UpdateStatus"}
      /\ Writing = {"Create", "Checkout", "Update"} /\ Inserting = {"Create", "Checkout"}
      /\ Moving = {"Cancel", "UpdateStatus"}
  BY OrdersAssumption DEF Actors, Accounts, Typed, HistoryFits, StoredStatuses, Statuses,
       AllMethods, Writing, Inserting, Moving
<1>1. CASE Create(r)
  <2>1. PICK actor \in Actors, b \in Baskets, to \in BodyStatuses :
          Accept(r, "Create", "tx", actor, 0, to, b)
    BY <1>1 DEF Create
  <2>2. MayPlace
    BY <1>1 DEF Create
  <2>3. \E n \in Request : ServiceLeaves(r, n)
    BY <1>0, <2>1, <2>2, AcceptLeaves
  <2> QED
    BY <2>1, <2>3 DEF Accept
<1>2. CASE Checkout(r)
  <2>1. PICK actor \in Accounts, b \in Baskets :
          Accept(r, "Checkout", "tx", actor, 0, "pending", b)
    BY <1>2 DEF Checkout
  <2>2. MayPlace
    BY <1>2 DEF Checkout
  <2>3. actor \in Actors /\ "Checkout" \in AllMethods /\ "pending" \in StoredStatuses
    BY <1>0
  <2>4. \E n \in Request : ServiceLeaves(r, n)
    BY <1>0, <2>1, <2>2, <2>3, AcceptLeaves
  <2> QED
    BY <2>1, <2>4 DEF Accept
<1>3. CASE Get(r)
  <2>1. PICK actor \in Accounts, id \in 1 .. placed :
          Accept(r, "Get", "header", actor, id, "pending", NoBasket)
    BY <1>3 DEF Get
  <2>2. \E n \in Request : ServiceLeaves(r, n)
    BY <1>0, <2>1, AcceptLeaves
  <2> QED
    BY <2>1, <2>2 DEF Accept
<1>4. CASE Update(r)
  <2>1. PICK actor \in Accounts, id \in 1 .. placed, b \in Baskets :
          Accept(r, "Update", "tx", actor, id, "pending", b)
    BY <1>4 DEF Update
  <2>2. \E n \in Request : ServiceLeaves(r, n)
    BY <1>0, <2>1, AcceptLeaves
  <2> QED
    BY <2>1, <2>2 DEF Accept
<1>5. CASE Delete(r)
  <2>1. PICK actor \in Accounts, id \in 1 .. placed :
          Accept(r, "Delete", "select", actor, id, "pending", NoBasket)
    BY <1>5 DEF Delete
  <2>2. \E n \in Request : ServiceLeaves(r, n)
    BY <1>0, <2>1, AcceptLeaves
  <2> QED
    BY <2>1, <2>2 DEF Accept
<1>6. CASE Cancel(r)
  <2>1. PICK actor \in Accounts, id \in 1 .. placed :
          Accept(r, "Cancel", "select", actor, id, "cancelled", NoBasket)
    BY <1>6 DEF Cancel
  <2>2. \E n \in Request : ServiceLeaves(r, n)
    BY <1>0, <2>1, AcceptLeaves
  <2> QED
    BY <2>1, <2>2 DEF Accept
<1>7. CASE UpdateStatus(r)
  <2>1. PICK id \in 1 .. placed, to \in MoveStatuses :
          Accept(r, "UpdateStatus", "tx", Admin, id, to, NoBasket)
    BY <1>7 DEF UpdateStatus
  <2>2. \E n \in Request : ServiceLeaves(r, n)
    BY <1>0, <2>1, AcceptLeaves
  <2> QED
    BY <2>1, <2>2 DEF Accept
<1> QED
  BY <1>1, <1>2, <1>3, <1>4, <1>5, <1>6, <1>7 DEF Start

LEMMA DoneLeaves ==
  ASSUME Typed, NEW r \in Requests, Finish(r), undo' = undo, req[r].pc \in Outside
  PROVE  \E n \in Request : ServiceLeaves(r, n)
<1>1. Moves(r, Idle, <<>>)
  BY Finishes DEF Outside, Typed
<1> QED
  BY <1>1, IdleFits DEF ServiceLeaves, Fits, Outside, Idle, Inserting

LEMMA ServiceShape ==
  ASSUME Typed, NEW r \in Requests, ServiceStep(r), undo' = undo
  PROVE  /\ UNCHANGED <<orders, items, placed, owed>>
         /\ sent' \subseteq SentEvent /\ dropped' \subseteq Event
         /\ \E n \in Request : ServiceLeaves(r, n)
<1> DEFINE q == req[r]
<1>0. /\ q \in Request /\ Armed(q) /\ Fits(q, undo[r])
      /\ sent \subseteq SentEvent /\ dropped \subseteq Event
  BY DEF Typed, RequestsFit, Fits, HistoryFits
<1>1. CASE Start(r)
  BY <1>0, <1>1, StartShape DEF tables, history
<1>2. CASE FindOrder(r) \/ FindPending(r) \/ ReadLines(r)
  <2>1. UNCHANGED <<orders, items, placed, owed, sent, dropped>>
    BY <1>2 DEF FindOrder, FindPending, ReadLines, tables, history
  <2>2. q.pc \in Outside /\ undo[r] = <<>>
    BY <1>0, <1>2 DEF FindOrder, FindPending, ReadLines, At, Outside, Fits
  <2>3. CASE Finish(r)
    BY <1>0, <2>1, <2>2, <2>3, DoneLeaves
  <2>4. CASE ~ Finish(r)
    <3>1. PICK pc \in {"tx", "publish"} :
            /\ GoTo(r, pc)
            /\ pc = "tx" => /\ q.pc = "select" /\ q.method \in {"Delete", "Cancel"}
                            /\ Matches(orders, q.id, q.actor)
            /\ pc = "publish" => q.pc = "lines" /\ q.method \in Publishing
      BY <1>2, <2>4 DEF FindOrder, FindPending, ReadLines, At
    <3> DEFINE n == [q EXCEPT !.pc = pc]
    <3>2. n \in Request /\ n.pc = pc /\ SameBut(n, q) /\ n.id = q.id
      BY <1>0 DEF Request, Pcs, SameBut
    <3>3. req' = [req EXCEPT ![r] = n]
      BY <3>1 DEF GoTo, Typed, RequestsFit
    <3> HIDE DEF n
    <3>4. Armed(n)
      BY <1>0, <3>1, <3>2 DEF Armed, SameBut, Moving, Writing, Inserting
    <3>5. Fits(n, <<>>) /\ Moves(r, n, <<>>)
      BY <2>2, <3>2, <3>3, <3>4, EmptyUndo DEF Fits, Moves, Typed, RequestsFit
    <3>6. n.method \notin Inserting \/ n.pc # "tx"
      BY <3>1, <3>2 DEF SameBut, Inserting
    <3>7. n.method = "Delete" /\ n.pc = "tx" => Matches(orders, n.id, n.actor)
      BY <3>1, <3>2 DEF SameBut
    <3>8. ServiceLeaves(r, n)
      BY <3>2, <3>5, <3>6, <3>7 DEF ServiceLeaves, Outside
    <3> QED
      BY <1>0, <2>1, <3>2, <3>8
  <2> QED
    BY <2>3, <2>4
<1>3. CASE ReadHeader(r)
  <2>1. UNCHANGED <<orders, items, placed, owed, sent, dropped>> /\ q.pc = "header"
    BY <1>3 DEF ReadHeader, tables, history
  <2>2. q.pc \in Outside /\ undo[r] = <<>>
    BY <1>0, <2>1 DEF Outside, Fits
  <2>3. CASE Matches(orders, q.id, ReadScope(q))
    <3> DEFINE n == [q EXCEPT !.pc = "lines", !.read = orders[q.id].serial]
    <3>1. orders[q.id].serial \in Nat
      BY <2>3 DEF Matches, Typed, TablesFit, OrderRow
    <3>2. n \in Request /\ n.pc = "lines" /\ SameBut(n, q)
      BY <1>0, <3>1 DEF Request, Pcs, SameBut
    <3>3. req' = [req EXCEPT ![r] = n]
      BY <1>3, <2>3 DEF ReadHeader, Typed, RequestsFit
    <3> HIDE DEF n
    <3>4. Armed(n)
      BY <1>0, <2>1, <3>2 DEF Armed, SameBut, Moving, Writing, Inserting
    <3>5. Fits(n, <<>>) /\ Moves(r, n, <<>>)
      BY <2>2, <3>2, <3>3, <3>4, EmptyUndo DEF Fits, Moves, Typed, RequestsFit
    <3>6. ServiceLeaves(r, n)
      BY <3>2, <3>5 DEF ServiceLeaves, Outside
    <3> QED
      BY <1>0, <2>1, <3>2, <3>6
  <2>4. CASE ~ Matches(orders, q.id, ReadScope(q))
    <3>1. Finish(r)
      BY <1>3, <2>4 DEF ReadHeader
    <3> QED
      BY <1>0, <2>1, <2>2, <3>1, DoneLeaves
  <2> QED
    BY <2>3, <2>4
<1>4. CASE Publish(r)
  <2> DEFINE m == [event |-> EventOf(q), serial |-> q.wrote, phone |-> PhoneOf(q)]
  <2>1. /\ q.pc = "publish" /\ sent' = sent \cup {m} /\ Finish(r)
        /\ UNCHANGED <<orders, items, placed, owed, dropped>>
    BY <1>4 DEF Publish, tables
  <2>2. EventOf(q) \in EventNames
    BY <1>0, <2>1 DEF Armed, Publishing, EventOf, EventNames
  <2>3. q.wrote \in Nat /\ PhoneOf(q) \in Nat
    BY <1>0 DEF Request, PhoneOf
  <2>4. m \in SentEvent
    BY <2>2, <2>3 DEF SentEvent
  <2> HIDE DEF m
  <2>5. q.pc \in Outside
    BY <2>1 DEF Outside
  <2> QED
    BY <1>0, <2>1, <2>4, <2>5, DoneLeaves
<1>5. CASE ReadFails(r)
  <2>1. Finish(r) /\ UNCHANGED <<orders, items, placed, owed, sent>> /\ q.pc \in Outside
    BY <1>5 DEF ReadFails, tables, Outside
  <2>2. dropped' \subseteq Event
    BY <1>5, PendingIsOwed DEF ReadFails, Typed, HistoryFits
  <2> QED
    BY <1>0, <2>1, <2>2, DoneLeaves
<1> QED
  BY <1>1, <1>2, <1>3, <1>4, <1>5 DEF ServiceStep

-----------------------------------------------------------------------------
(* No statement leaves the tables with a line that has no header.          *)

LEMMA InsertHeaderTables ==
  ASSUME TablesFit, NEW id \in NextIds(orders), NEW row \in OrderRow,
         orders' = InsertRow(orders, id, row), items' = items
  PROVE  /\ TablesFit'
         /\ id \in Nat \ {0} /\ id \notin DOMAIN orders
         /\ DOMAIN orders' = DOMAIN orders \cup {id} /\ orders'[id] = row
         /\ \A i \in DOMAIN orders : orders'[i] = orders[i]
<1>1. id \in Nat \ {0} /\ id \notin DOMAIN orders
  BY NextIdIsFresh DEF TablesFit, IsTable
<1>2. /\ DOMAIN orders' = DOMAIN orders \cup {id} /\ orders'[id] = row
      /\ \A i \in DOMAIN orders : orders'[i] = orders[i]
  BY <1>1 DEF InsertRow
<1>3. orders' \in [DOMAIN orders' -> OrderRow]
  BY <1>2 DEF TablesFit, InsertRow
<1> QED
  BY <1>1, <1>2, <1>3 DEF TablesFit, IsTable, IsItemTable

LEMMA InsertLineTables ==
  ASSUME TablesFit, NEW i \in NextIds(items), NEW row \in ItemRow,
         row.order \in DOMAIN orders,
         items' = InsertRow(items, i, row), orders' = orders
  PROVE  /\ TablesFit'
         /\ i \in Nat \ {0} /\ i \notin DOMAIN items
         /\ DOMAIN items' = DOMAIN items \cup {i} /\ items'[i] = row
         /\ \A j \in DOMAIN items : j < i /\ items'[j] = items[j]
<1>1. i \in Nat \ {0} /\ i \notin DOMAIN items /\ \A j \in DOMAIN items : j < i
  BY NextIdIsFresh DEF TablesFit, IsTable, IsItemTable
<1>2. /\ DOMAIN items' = DOMAIN items \cup {i} /\ items'[i] = row
      /\ \A j \in DOMAIN items : items'[j] = items[j]
  BY <1>1, InsertRowShape
<1>3. items' \in [DOMAIN items' -> ItemRow]
  BY <1>2 DEF TablesFit, IsItemTable, InsertRow
<1> QED
  BY <1>1, <1>2, <1>3 DEF TablesFit, IsTable, IsItemTable

LEMMA RowsKeptTables ==
  ASSUME TablesFit, NEW id, RowsKept(id), items' = items
  PROVE  TablesFit'
BY DEF TablesFit, RowsKept, IsTable

LEMMA ClearLinesTables ==
  ASSUME TablesFit, NEW id, items' = DeleteLines(items, id), orders' = orders
  PROVE  /\ TablesFit'
         /\ DOMAIN items' = {i \in DOMAIN items : items[i].order # id}
         /\ \A i \in DOMAIN items' : items'[i] = items[i]
<1>1. IsItemTable(items)
  BY DEF TablesFit
<1>2. items' = [i \in {i \in DOMAIN items : items[i].order # id} |-> items[i]]
  BY DEF DeleteLines, Restrict, LinesOf
<1> QED
  BY <1>1, <1>2 DEF TablesFit, IsItemTable, IsTable

LEMMA LineGoneTables ==
  ASSUME TablesFit, NEW id, items' = DeleteRow(items, id), orders' = orders
  PROVE  /\ TablesFit'
         /\ DOMAIN items' \subseteq DOMAIN items
         /\ \A i \in DOMAIN items' : items'[i] = items[i]
<1>1. /\ DOMAIN items' = DOMAIN items \ {id} /\ items' = [i \in DOMAIN items \ {id} |-> items[i]]
  BY DEF DeleteRow, Restrict
<1> QED
  BY <1>1 DEF TablesFit, IsItemTable, IsTable

(* A header goes only when no line refers to it.                           *)
HeaderMayGo(id) ==
  /\ items' = items
  /\ DOMAIN orders' \subseteq DOMAIN orders /\ DOMAIN orders \ {id} \subseteq DOMAIN orders'
  /\ orders' \in [DOMAIN orders' -> OrderRow]
  /\ \A i \in DOMAIN orders' : orders'[i] = orders[i]
  /\ id \in DOMAIN orders \ DOMAIN orders' => LinesOf(items, id) = {}

LEMMA RemoveMayGo ==
  ASSUME TablesFit, NEW id, items' = items,
         \/ orders' = orders
         \/ LinesOf(items, id) = {} /\ orders' = DeleteRow(orders, id)
         \/ \E actor : LinesOf(items, id) = {} /\ orders' = DeleteHeader(orders, id, actor)
  PROVE  HeaderMayGo(id)
<1>1. orders' = orders \/ (LinesOf(items, id) = {} /\ orders' = DeleteRow(orders, id))
  BY DEF DeleteHeader
<1>2. CASE orders' = orders
  BY <1>2 DEF HeaderMayGo, TablesFit
<1>3. CASE LinesOf(items, id) = {} /\ orders' = DeleteRow(orders, id)
  <2>1. orders' = [i \in DOMAIN orders \ {id} |-> orders[i]]
    BY <1>3 DEF DeleteRow, Restrict
  <2> QED
    BY <1>3, <2>1 DEF HeaderMayGo, TablesFit
<1> QED
  BY <1>1, <1>2, <1>3

LEMMA HeaderGoneTables ==
  ASSUME TablesFit, NEW id, HeaderMayGo(id)
  PROVE  TablesFit'
BY DEF HeaderMayGo, TablesFit, IsTable, LinesOf

(* Every statement keeps what the tables, the requests and the histories   *)
(* are made of.                                                            *)
LEMMA StatementTyped ==
  ASSUME Typed, NEW r \in Requests, Statement(r)
  PROVE  Typed'
<1>0. RequestsFit /\ TablesFit /\ HistoryFits
  BY DEF Typed
<1>1. CASE InsertHeader(r)
  <2>1. PICK id \in NextIds(orders), row \in OrderRow, n \in Request, u \in Seq(Insertion) :
          orders' = InsertRow(orders, id, row) /\ Fits(n, u) /\ Moves(r, n, u)
    BY <1>1, InsertHeaderShape
  <2>2. items' = items /\ HistoryFits'
    BY <1>0, <1>1, InsertHeaderShape DEF HistoryFits
  <2> QED
    BY <1>0, <2>1, <2>2, OneMoves, InsertHeaderTables DEF Typed
<1>2. CASE InsertLine(r)
  <2> DEFINE row == ItemOf(req[r].id, req[r].wrote, req[r].basket, NextLine(r))
  <2>1. PICK i \in NextIds(items), n \in Request, u \in Seq(Insertion) :
          items' = InsertRow(items, i, row) /\ Fits(n, u) /\ Moves(r, n, u)
    BY <1>2, InsertLineShape
  <2>2. /\ orders' = orders /\ HistoryFits'
        /\ row \in ItemRow /\ row.order \in DOMAIN orders
    BY <1>0, <1>2, InsertLineShape DEF HistoryFits, ItemOf
  <2> HIDE DEF row
  <2> QED
    BY <1>0, <2>1, <2>2, OneMoves, InsertLineTables DEF Typed
<1>3. CASE UpdateHeader(r)
  <2>1. PICK n \in Request : /\ Fits(n, <<>>) /\ Moves(r, n, <<>>)
                             /\ orders' = orders \/ RowsKept(req[r].id)
    BY <1>3, UpdateHeaderShape
  <2>2. items' = items /\ HistoryFits'
    BY <1>0, <1>3, UpdateHeaderShape DEF HistoryFits, history
  <2>3. TablesFit'
    BY <1>0, <2>1, <2>2, RowsKeptTables DEF TablesFit
  <2> QED
    BY <1>0, <2>1, <2>2, <2>3, OneMoves DEF Typed
<1>4. CASE ClearLines(r)
  <2>1. PICK n \in Request : Fits(n, <<>>) /\ Moves(r, n, <<>>)
    BY <1>4, ClearLinesShape
  <2>2. items' = DeleteLines(items, req[r].id) /\ orders' = orders /\ HistoryFits'
    BY <1>0, <1>4, ClearLinesShape DEF HistoryFits, history
  <2> QED
    BY <1>0, <2>1, <2>2, OneMoves, ClearLinesTables DEF Typed
<1>5. CASE RemoveHeader(r)
  <2>1. HeaderMayGo(req[r].id)
    BY <1>0, <1>5, RemoveHeaderShape, RemoveMayGo
  <2>2. HistoryFits' /\ Moves(r, Idle, <<>>)
    BY <1>0, <1>5, RemoveHeaderShape DEF HistoryFits, history
  <2> QED
    BY <1>0, <2>1, <2>2, IdleFits, OneMoves, HeaderGoneTables DEF Typed
<1>6. CASE ReadStatus(r)
  <2>1. PICK n \in Request : Fits(n, <<>>) /\ Moves(r, n, <<>>)
    BY <1>6, ReadStatusShape
  <2>2. TablesFit' /\ HistoryFits'
    BY <1>0, <1>6, ReadStatusShape DEF TablesFit, HistoryFits, tables, history
  <2> QED
    BY <1>0, <2>1, <2>2, OneMoves DEF Typed
<1>7. CASE WriteStatus(r)
  <2>1. PICK n \in Request : /\ Fits(n, <<>>) /\ Moves(r, n, <<>>)
                             /\ orders' = orders \/ RowsKept(req[r].id)
    BY <1>7, WriteStatusShape
  <2>2. items' = items /\ HistoryFits'
    BY <1>0, <1>7, WriteStatusShape DEF HistoryFits
  <2>3. TablesFit'
    BY <1>0, <2>1, <2>2, RowsKeptTables DEF TablesFit
  <2> QED
    BY <1>0, <2>1, <2>2, <2>3, OneMoves DEF Typed
<1>8. CASE Stamp(r)
  <2>1. PICK n \in Request : Fits(n, <<>>) /\ Moves(r, n, <<>>)
    BY <1>8, StampShape
  <2>2. items' = items /\ HistoryFits' /\ (orders' = orders \/ RowsKept(req[r].id))
    BY <1>0, <1>8, StampShape DEF HistoryFits
  <2>3. TablesFit'
    BY <1>0, <2>2, RowsKeptTables DEF TablesFit
  <2> QED
    BY <1>0, <2>1, <2>2, <2>3, OneMoves DEF Typed
<1>9. CASE StatementFails(r)
  <2>1. PICK n \in Request : Fits(n, undo[r]) /\ Moves(r, n, undo[r])
    BY <1>9, StatementFailsShape
  <2>2. TablesFit' /\ HistoryFits'
    BY <1>0, <1>9, StatementFailsShape DEF TablesFit, HistoryFits
  <2> QED
    BY <1>0, <2>1, <2>2, OneMoves DEF Typed
<1>10. CASE LineRefused(r)
  <2>1. PICK n \in Request : Fits(n, undo[r]) /\ Moves(r, n, undo[r])
    BY <1>10, LineRefusedShape
  <2>2. TablesFit' /\ HistoryFits'
    BY <1>0, <1>10, LineRefusedShape DEF TablesFit, HistoryFits
  <2> QED
    BY <1>0, <2>1, <2>2, OneMoves DEF Typed
<1>11. CASE Compensate(r)
  <2>1. PICK n \in Request, u \in Seq(Insertion) : Fits(n, u) /\ Moves(r, n, u)
    BY <1>11, CompensateShape
  <2>2. HistoryFits'
    BY <1>0, <1>11, CompensateShape DEF HistoryFits, history
  <2>3. TablesFit'
    <3>1. CASE items' = items /\ orders' = orders
      BY <1>0, <3>1 DEF TablesFit
    <3>2. CASE \E id \in Nat : items' = DeleteRow(items, id) /\ orders' = orders
      BY <1>0, <3>2, LineGoneTables
    <3>3. CASE \E id \in Nat : /\ items' = items
                               /\ orders' = IF LinesOf(items, id) = {}
                                            THEN DeleteRow(orders, id) ELSE orders
      BY <1>0, <3>3, RemoveMayGo, HeaderGoneTables
    <3> QED
      BY <1>11, <3>1, <3>2, <3>3, CompensateShape
  <2> QED
    BY <1>0, <2>1, <2>2, <2>3, OneMoves DEF Typed
<1> QED
  BY <1>1, <1>2, <1>3, <1>4, <1>5, <1>6, <1>7, <1>8, <1>9, <1>10, <1>11 DEF Statement

LEMMA RestartTyped ==
  ASSUME Typed, Restart, undo' = [r \in Requests |-> <<>>]
  PROVE  /\ Typed' /\ UNCHANGED <<orders, items, placed>>
         /\ \A r \in Requests : req'[r] = Idle /\ undo'[r] = <<>>
<1>1. /\ req' = [r \in Requests |-> Idle] /\ UNCHANGED <<orders, items, placed, owed, sent>>
  BY DEF Restart, tables
<1>2. RequestsFit'
  BY <1>1, IdleFits DEF RequestsFit, Fits
<1>3. dropped' \subseteq Event
  BY PendingIsOwed DEF Restart, Typed, HistoryFits
<1> QED
  BY <1>1, <1>2, <1>3 DEF Typed, TablesFit, HistoryFits

LEMMA TypedKept ==
  ASSUME Typed, [D1Next]_d1vars
  PROVE  Typed'
<1>1. CASE \E r \in Requests : Statement(r)
  BY <1>1, StatementTyped
<1>2. CASE \E r \in Requests : ServiceStep(r) /\ UNCHANGED <<undo, faulted>>
  <2>1. PICK r \in Requests : ServiceStep(r) /\ undo' = undo
    BY <1>2
  <2>2. PICK n \in Request : Fits(n, <<>>) /\ Moves(r, n, <<>>)
    BY <2>1, ServiceShape DEF ServiceLeaves
  <2>3. TablesFit' /\ HistoryFits'
    BY <2>1, ServiceShape DEF Typed, TablesFit, HistoryFits
  <2> QED
    BY <2>2, <2>3, OneMoves DEF Typed
<1>3. CASE Restart /\ undo' = [r \in Requests |-> <<>>]
  BY <1>3, RestartTyped
<1>4. CASE UNCHANGED d1vars
  BY <1>4 DEF d1vars, vars, Typed, RequestsFit, TablesFit, HistoryFits
<1> QED
  BY <1>1, <1>2, <1>3, <1>4 DEF D1Next

LEMMA TypedInit == D1Init => Typed
<1> SUFFICES ASSUME D1Init PROVE Typed
  OBVIOUS
<1>1. /\ DOMAIN orders = {} /\ DOMAIN items = {} /\ orders = <<>> /\ items = <<>>
      /\ req = [r \in Requests |-> Idle] /\ undo = [r \in Requests |-> <<>>]
      /\ placed = 0 /\ owed = {} /\ sent = {} /\ dropped = {}
  BY DEF D1Init, Init
<1>2. RequestsFit
  BY <1>1, IdleFits DEF RequestsFit, Fits
<1>3. TablesFit /\ HistoryFits
  BY <1>1 DEF TablesFit, HistoryFits, IsTable, IsItemTable
<1> QED
  BY <1>2, <1>3 DEF Typed

-----------------------------------------------------------------------------
(* For as long as no two requests have been under way at once.             *)

AtMostOne == \A r, s \in Requests : req[r] # Idle /\ req[s] # Idle => r = s

OneBasket ==
  \A i, j \in DOMAIN items : items[i].order = items[j].order =>
    /\ items[i].basket = items[j].basket
    /\ items[i].serial = orders[items[i].order].serial
    /\ i # j => items[i].line # items[j].line

(* The lines written so far are the last rows of the table, in order.      *)
Begun(r) ==
  LET q == req[r] IN
  \A next \in NextIds(items) :
    /\ LinesOf(items, q.id) = next - NextLine(r) + 1 .. next - 1
    /\ \A i \in LinesOf(items, q.id) :
         items[i] = ItemOf(q.id, q.wrote, q.basket, i - next + NextLine(r))

(* What a request found, or did, still stands when its next statement runs. *)
Standing(r) ==
  LET q == req[r] IN
  /\ q.method = "Delete" /\ q.pc \in {"tx", "remove"} => Matches(orders, q.id, q.actor)
  /\ q.pc = "remove" => LinesOf(items, q.id) = {}
  /\ q.pc \in {"clear", "insert"} =>
       /\ q.id \in DOMAIN orders
       /\ orders[q.id].serial = q.wrote /\ orders[q.id].basket = q.basket
  /\ q.pc = "insert" => Begun(r)
  /\ q.pc = "write" =>
       Matches(orders, q.id, q.actor) /\ IsValidTransition(orders[q.id].status, q.to)

Alone == AtMostOne /\ OneBasket /\ \A r \in Requests : Standing(r)

(* A pair of which no more than one is counted.                            *)
LEMMA PairCount ==
  ASSUME NEW a, NEW b, NEW S, S \subseteq {a, b}, ~ (Cardinality(S) > 1)
  PROVE  \A x, y \in S : x = y
<1> SUFFICES ASSUME a # b, a \in S, b \in S
             PROVE  FALSE
  OBVIOUS
<1>1. S = {a} \cup {b} /\ b \notin {a}
  OBVIOUS
<1>2. IsFiniteSet({a}) /\ Cardinality({a}) = 1
  BY FS_Singleton
<1>3. Cardinality(S) = 2
  BY <1>1, <1>2, FS_AddElement
<1> QED
  BY <1>3

LEMMA StillAtMostOne ==
  ASSUME RequestsFit, AtMostOne, NEW r \in Requests, NEW n, NEW u, Moves(r, n, u),
         ~ (Cardinality({s \in Requests : req'[s] # Idle}) > 1)
  PROVE  AtMostOne'
<1> DEFINE S == {s \in Requests : req'[s] # Idle}
<1>1. \A s \in Requests : s # r => req'[s] = req[s]
  BY DEF Moves, RequestsFit
<1>2. \E a \in Requests : S \subseteq {a, r}
  <2>1. CASE \E a \in Requests : req[a] # Idle
    <3>1. PICK a \in Requests : req[a] # Idle
      BY <2>1
    <3>2. \A s \in Requests : req[s] # Idle => s = a
      BY <3>1 DEF AtMostOne
    <3> QED
      BY <1>1, <3>2
  <2>2. CASE \A a \in Requests : req[a] = Idle
    BY <1>1, <2>2
  <2> QED
    BY <2>1, <2>2
<1>3. \A x, y \in S : x = y
  BY <1>2, PairCount
<1> QED
  BY <1>3 DEF AtMostOne

LEMMA OthersIdle ==
  ASSUME RequestsFit, AtMostOne, AtMostOne', NEW r \in Requests, NEW n, NEW u, Moves(r, n, u),
         req[r] # Idle \/ n # Idle
  PROVE  /\ req'[r] = n /\ undo'[r] = u
         /\ \A s \in Requests : s # r => req[s] = Idle /\ req'[s] = Idle
BY DEF AtMostOne, Moves, RequestsFit

LEMMA IdleStands ==
  ASSUME NEW s \in Requests, req'[s] = Idle
  PROVE  Standing(s)'
BY DEF Standing, Idle

(* A request that is not in the middle of anything has nothing to rely on. *)
LEMMA FreeStands ==
  ASSUME NEW r \in Requests,
         req'[r].pc \notin {"clear", "insert", "remove", "write"},
         ~ (req'[r].method = "Delete" /\ req'[r].pc = "tx")
  PROVE  Standing(r)'
BY DEF Standing

LEMMA RestStands ==
  ASSUME NEW s \in Requests, Standing(s), UNCHANGED <<orders, items>>,
         req'[s] = req[s], undo'[s] = undo[s]
  PROVE  Standing(s)'
BY DEF Standing, Begun, NextLine

(* One request moves and every table stays.                                *)
LEMMA TablesRestAlone ==
  ASSUME RequestsFit, Alone, AtMostOne', NEW r \in Requests, NEW n, NEW u,
         Moves(r, n, u), UNCHANGED <<orders, items>>, Standing(r)'
  PROVE  Alone'
<1>1. OneBasket'
  BY DEF Alone, OneBasket
<1>2. ASSUME NEW s \in Requests
      PROVE  Standing(s)'
  <2>1. CASE s = r
    BY <2>1
  <2>2. CASE s # r
    <3>1. req'[s] = req[s] /\ undo'[s] = undo[s]
      BY <2>2 DEF Moves, RequestsFit
    <3> QED
      BY <3>1, RestStands DEF Alone
  <2> QED
    BY <2>1, <2>2
<1> QED
  BY <1>1, <1>2 DEF Alone

(* One request moves, the others being idle.                               *)
LEMMA OneStands ==
  ASSUME RequestsFit, AtMostOne, AtMostOne', NEW r \in Requests, NEW n, NEW u,
         Moves(r, n, u), req[r] # Idle \/ n # Idle, OneBasket', Standing(r)'
  PROVE  Alone'
<1>1. \A s \in Requests : s # r => Standing(s)'
  BY OthersIdle, IdleStands
<1> QED
  BY <1>1 DEF Alone

(* The count of lines written.                                             *)
LEMMA NoLineYet ==
  ASSUME RequestsFit, NEW r \in Requests, NEW id,
         undo'[r] = <<>> \/ undo'[r] = <<[table |-> "orders", id |-> id]>>
  PROVE  NextLine(r)' = 1
<1>1. {k \in DOMAIN undo'[r] : undo'[r][k].table = "order_items"} = {}
  OBVIOUS
<1> QED
  BY <1>1, FS_EmptySet DEF NextLine

LEMMA OneLineMore ==
  ASSUME RequestsFit, NEW r \in Requests, NEW i,
         undo'[r] = Append(undo[r], [table |-> "order_items", id |-> i])
  PROVE  NextLine(r)' = NextLine(r) + 1
<1> DEFINE last == [table |-> "order_items", id |-> i]
           new == undo'[r]
           n == Len(undo[r])
           S == {k \in DOMAIN undo[r] : undo[r][k].table = "order_items"}
           T == {k \in DOMAIN new : new[k].table = "order_items"}
<1>1. undo[r] \in Seq(Insertion) /\ n \in Nat /\ DOMAIN undo[r] = 1 .. n
  BY LenProperties DEF RequestsFit
<1>2. /\ Len(new) = n + 1 /\ DOMAIN new = 1 .. n + 1
      /\ \A k \in 1 .. n : new[k] = undo[r][k]
      /\ new[n + 1] = last
  BY <1>1
<1>3. last.table = "order_items"
  OBVIOUS
<1> HIDE DEF last, new, n
<1>4. T = S \cup {n + 1} /\ n + 1 \notin S
  BY <1>1, <1>2, <1>3
<1>5. IsFiniteSet(S)
  BY <1>1, FS_Interval, FS_Subset
<1>6. Cardinality(T) = Cardinality(S) + 1 /\ Cardinality(S) \in Nat
  BY <1>4, <1>5, FS_AddElement, FS_CardinalityType
<1> QED
  BY <1>6 DEF NextLine, new

-----------------------------------------------------------------------------
(* The statements of a request that is alone. *)

(* An order whose header and lines a step leaves alone.                    *)
SameOrder(id) ==
  /\ id \in DOMAIN orders /\ id \in DOMAIN orders'
  /\ orders'[id].serial = orders[id].serial /\ orders'[id].basket = orders[id].basket
  /\ LinesOf(items', id) = LinesOf(items, id)
  /\ \A i \in LinesOf(items, id) : items'[i] = items[i]

(* An order a request is half-way through.                                 *)
Busy(r, id) == req[r].id = id /\ req[r].pc \in {"clear", "insert", "remove"}

(* What a step of a request that is alone comes to: its own order apart,   *)
(* no order changes, and unless it is cut short its own is whole again, or *)
(* gone, or still being worked on.                                         *)
Orderly(r) ==
  /\ Alone'
  /\ faulted => faulted'
  /\ ~ faulted' /\ req[r].pc # "undo" =>
       /\ req'[r].pc # "undo"
       /\ \A id \in DOMAIN orders' :
            (SameOrder(id) /\ ~ Busy(r, id)) \/ Busy(r, id)' \/ WholeBasket(id)'

LEMMA InsertHeaderAlone ==
  ASSUME Typed, Alone, AtMostOne', NEW r \in Requests, InsertHeader(r)
  PROVE  Orderly(r)
<1>1. PICK id \in NextIds(orders), row \in OrderRow, n \in Request, u \in Seq(Insertion) :
        /\ orders' = InsertRow(orders, id, row)
        /\ row.serial = placed + 1 /\ row.basket = req[r].basket
        /\ Fits(n, u) /\ Moves(r, n, u)
        /\ SameBut(n, req[r]) \/ n = Idle
        /\ Inserted(id, n, u)
  BY InsertHeaderShape
<1>2. /\ req[r].pc = "tx" /\ items' = items /\ RequestsFit /\ TablesFit
      /\ req[r].method \in Inserting
  BY InsertHeaderShape DEF At, Typed
<1>3. /\ id \in Nat \ {0} /\ id \notin DOMAIN orders
      /\ DOMAIN orders' = DOMAIN orders \cup {id} /\ orders'[id] = row
      /\ \A i \in DOMAIN orders : orders'[i] = orders[i]
      /\ TablesFit'
  BY <1>1, <1>2, InsertHeaderTables
<1>4. req[r] # Idle
  BY <1>2 DEF Idle
<1>5. req'[r] = n /\ undo'[r] = u
  BY <1>1, <1>2, OneMoves
<1>6. \A i \in DOMAIN items : items[i].order \in DOMAIN orders /\ items[i].order # id
  BY <1>2, <1>3 DEF TablesFit
<1>7. OneBasket'
  BY <1>2, <1>3, <1>6 DEF Alone, OneBasket
<1>8. LinesOf(items', id) = {}
  BY <1>2, <1>6 DEF LinesOf
<1>9. Standing(r)'
  <2>1. CASE n = Idle
    BY <1>5, <2>1, IdleStands
  <2>2. CASE n # Idle
    <3>1. /\ n.pc = "insert" /\ n.id = id /\ n.wrote = placed + 1
          /\ u = <<[table |-> "orders", id |-> id]>> /\ n.basket = req[r].basket
      BY <1>1, <2>2 DEF Inserted, SameBut
    <3>2. NextLine(r)' = 1
      BY <1>2, <1>5, <3>1, NoLineYet
    <3>3. \A next \in NextIds(items') : next \in Nat
      BY <1>3, NextIdIsFresh DEF TablesFit, IsItemTable
    <3>4. Begun(r)'
      <4> SUFFICES ASSUME NEW next \in NextIds(items')
                   PROVE  /\ LinesOf(items', req'[r].id) = next - NextLine(r)' + 1 .. next - 1
                          /\ \A i \in LinesOf(items', req'[r].id) :
                               items'[i] = ItemOf(req'[r].id, req'[r].wrote, req'[r].basket,
                                                  i - next + NextLine(r)')
        BY DEF Begun
      <4>1. LinesOf(items', req'[r].id) = {}
        BY <1>5, <1>8, <3>1
      <4>2. next - 1 + 1 .. next - 1 = {}
        BY <3>3
      <4> QED
        BY <3>2, <4>1, <4>2
    <3> QED
      BY <1>1, <1>3, <1>5, <3>1, <3>4 DEF Standing
  <2> QED
    BY <2>1, <2>2
<1>10. Alone'
  BY <1>1, <1>2, <1>4, <1>7, <1>9, OneStands DEF Alone
<1>11. \A i \in DOMAIN orders : SameOrder(i)
  BY <1>2, <1>3 DEF SameOrder
<1>12. /\ ~ faulted' => (n.id = id /\ n.pc = "insert")
       /\ faulted => faulted'
  BY <1>1 DEF Inserted
<1>13. \A i \in DOMAIN orders : ~ Busy(r, i)
  BY <1>2 DEF Busy
<1>14. ~ faulted' => Busy(r, id)'
  BY <1>5, <1>12 DEF Busy
<1> QED
  BY <1>3, <1>5, <1>10, <1>11, <1>12, <1>13, <1>14 DEF Orderly

(* The only id an INSERT may give after an id above all others.            *)
LEMMA NextIdAfter ==
  ASSUME NEW table, NEW i \in Nat \ {0}, i \in DOMAIN table, DOMAIN table \subseteq Nat,
         \A j \in DOMAIN table : j <= i, NEW next \in NextIds(table)
  PROVE  next = i + 1
BY DEF NextIds

LEMMA InsertLineAlone ==
  ASSUME Typed, Alone, AtMostOne', NEW r \in Requests, InsertLine(r)
  PROVE  Orderly(r)
<1> DEFINE q == req[r]
           N == NextLine(r)
           row == ItemOf(q.id, q.wrote, q.basket, N)
<1>1. PICK i \in NextIds(items), n \in Request, u \in Seq(Insertion) :
        /\ items' = InsertRow(items, i, row)
        /\ Fits(n, u) /\ Moves(r, n, u) /\ LineAdded(r, i, n, u)
  BY InsertLineShape
<1>2. /\ q.pc = "insert" /\ q.id \in DOMAIN orders /\ orders' = orders
      /\ RequestsFit /\ TablesFit /\ row \in ItemRow
  BY InsertLineShape DEF Typed
<1>3. /\ row.order = q.id /\ row.serial = q.wrote /\ row.basket = q.basket /\ row.line = N
  BY DEF ItemOf
<1>4. /\ i \in Nat \ {0} /\ i \notin DOMAIN items
      /\ DOMAIN items' = DOMAIN items \cup {i} /\ items'[i] = row
      /\ \A j \in DOMAIN items : j < i /\ items'[j] = items[j]
      /\ TablesFit' /\ DOMAIN items \subseteq Nat \ {0}
  BY <1>1, <1>2, <1>3, InsertLineTables DEF TablesFit, IsItemTable, IsTable
<1>5. /\ orders[q.id].serial = q.wrote /\ orders[q.id].basket = q.basket /\ Begun(r)
  BY <1>2 DEF Alone, Standing
<1>6. N \in Nat \ {0}
  BY <1>2, NextLineIsNat
<1>7. /\ LinesOf(items, q.id) = i - N + 1 .. i - 1
      /\ \A j \in LinesOf(items, q.id) : items[j] = ItemOf(q.id, q.wrote, q.basket, j - i + N)
  BY <1>1, <1>5 DEF Begun
<1>8. /\ LinesOf(items', q.id) = LinesOf(items, q.id) \cup {i}
      /\ \A id : id # q.id => LinesOf(items', id) = LinesOf(items, id)
  BY <1>3, <1>4 DEF LinesOf
<1>9. LinesOf(items', q.id) = i - N + 1 .. i
  BY <1>4, <1>6, <1>7, <1>8
<1>10. \A j \in LinesOf(items', q.id) :
         items'[j] = ItemOf(q.id, q.wrote, q.basket, j - i + N)
  <2> SUFFICES ASSUME NEW j \in LinesOf(items', q.id)
               PROVE  items'[j] = ItemOf(q.id, q.wrote, q.basket, j - i + N)
    OBVIOUS
  <2>1. CASE j = i
    <3>1. j - i + N = N
      BY <1>4, <1>6, <2>1
    <3> QED
      BY <1>4, <2>1, <3>1
  <2>2. CASE j # i
    <3>1. j \in LinesOf(items, q.id) /\ j \in DOMAIN items
      BY <1>8, <2>2 DEF LinesOf
    <3> QED
      BY <1>4, <1>7, <3>1
  <2> QED
    BY <2>1, <2>2
<1>11. OneBasket'
  <2>1. \A j \in LinesOf(items, q.id) :
          items[j].basket = q.basket /\ items[j].line # N
    <3> SUFFICES ASSUME NEW j \in LinesOf(items, q.id)
                 PROVE  items[j].basket = q.basket /\ items[j].line # N
      OBVIOUS
    <3>0. PICK k : k = j - i + N
      OBVIOUS
    <3>0a. items[j] = ItemOf(q.id, q.wrote, q.basket, k)
      BY <1>7, <3>0
    <3>1. items[j].basket = q.basket /\ items[j].line = j - i + N
      BY <3>0, <3>0a DEF ItemOf
    <3>2. j \in i - N + 1 .. i - 1
      BY <1>7
    <3> QED
      BY <1>4, <1>6, <3>1, <3>2
  <2> HIDE DEF row, N
  <2>2. \A j \in DOMAIN items : items[j].order = q.id => j \in LinesOf(items, q.id)
    BY DEF LinesOf
  <2> QED
    BY <1>2, <1>3, <1>4, <1>5, <2>1, <2>2 DEF Alone, OneBasket
<1>12. req'[r] = n /\ undo'[r] = u
  BY <1>1, <1>2, OneMoves
<1>13. Standing(r)'
  <2>1. CASE n = q /\ u = Append(undo[r], [table |-> "order_items", id |-> i])
    <3>1. NextLine(r)' = N + 1
      BY <1>2, <1>12, <2>1, OneLineMore
    <3>2. Begun(r)'
      <4> SUFFICES ASSUME NEW next \in NextIds(items')
                   PROVE  /\ LinesOf(items', req'[r].id) = next - NextLine(r)' + 1 .. next - 1
                          /\ \A j \in LinesOf(items', req'[r].id) :
                               items'[j] = ItemOf(req'[r].id, req'[r].wrote, req'[r].basket,
                                                  j - next + NextLine(r)')
        BY DEF Begun
      <4>1. next = i + 1
        <5>1. i \in DOMAIN items' /\ DOMAIN items' \subseteq Nat /\ \A j \in DOMAIN items' : j <= i
          BY <1>4
        <5> QED
          BY <1>4, <5>1, NextIdAfter
      <4>2. next - (N + 1) + 1 = i - N + 1 /\ next - 1 = i
        BY <1>4, <1>6, <4>1
      <4>3. \A j \in LinesOf(items', q.id) : j - next + (N + 1) = j - i + N
        BY <1>4, <1>6, <1>9, <4>1
      <4> HIDE DEF N
      <4> QED
        BY <1>9, <1>10, <1>12, <2>1, <3>1, <4>2, <4>3
    <3> QED
      BY <1>2, <1>5, <1>12, <2>1, <3>2 DEF Standing, Typed, RequestsFit, Fits, Armed, Writing,
                                           Inserting
  <2>2. CASE n = Idle \/ n.pc \in {"header", "undo"}
    <3>1. n.pc \in {"idle", "header", "undo"}
      BY <2>2 DEF Idle
    <3> QED
      BY <1>12, <3>1, FreeStands
  <2> QED
    BY <1>1, <2>1, <2>2 DEF LineAdded
<1>14. Alone'
  <2>1. q # Idle
    BY <1>2 DEF Idle
  <2> QED
    BY <1>1, <1>2, <1>11, <1>13, <2>1, OneStands DEF Alone
<1>15. \A id \in DOMAIN orders' : id # q.id => SameOrder(id)
  BY <1>2, <1>4, <1>8 DEF SameOrder, LinesOf
<1>16. ASSUME NEW id, id = q.id, N = LineCount[q.basket]
       PROVE  WholeBasket(id)'
  <2> DEFINE first == i - N + 1
  <2>1. first \in DOMAIN items'
    BY <1>4, <1>6, <1>9 DEF LinesOf
  <2>2. LinesOf(items', id) = first .. first + LineCount[orders'[id].basket] - 1
    BY <1>2, <1>4, <1>5, <1>6, <1>9, <1>16
  <2>3. ASSUME NEW j \in LinesOf(items', id)
        PROVE  items'[j] = ItemOf(id, orders'[id].serial, orders'[id].basket, j - first + 1)
    <3>1. j - first + 1 = j - i + N
      BY <1>4, <1>6, <1>9, <1>16
    <3> QED
      BY <1>2, <1>5, <1>10, <1>16, <3>1
  <2> HIDE DEF first
  <2> QED
    BY <2>1, <2>2, <2>3 DEF WholeBasket
<1>17. /\ ~ faulted' => (n = q \/ (n.pc = "header" /\ N = LineCount[q.basket]))
       /\ faulted => faulted'
  BY <1>1 DEF LineAdded
<1>18. /\ \A id \in DOMAIN orders' : id # q.id => ~ Busy(r, id)
       /\ n = q => Busy(r, q.id)'
  BY <1>2, <1>12 DEF Busy
<1> HIDE DEF N, row
<1> QED
  BY <1>2, <1>12, <1>14, <1>15, <1>16, <1>17, <1>18 DEF Orderly

(* Rewriting a header leaves the lines to the order they were written for. *)
LEMMA RowsKeptAlone ==
  ASSUME TablesFit, OneBasket, NEW id, RowsKept(id), items' = items
  PROVE  /\ OneBasket'
         /\ \A i \in DOMAIN orders' : i # id => SameOrder(i)
         /\ orders'[id].basket = orders[id].basket => SameOrder(id)
<1>1. \A i \in DOMAIN orders : orders'[i].serial = orders[i].serial
  BY DEF RowsKept
<1>2. OneBasket'
  BY <1>1 DEF OneBasket, TablesFit
<1>3. \A i \in DOMAIN orders' : i # id => SameOrder(i)
  BY DEF RowsKept, SameOrder
<1>4. orders'[id].basket = orders[id].basket => SameOrder(id)
  BY DEF RowsKept, SameOrder
<1> QED
  BY <1>2, <1>3, <1>4

LEMMA AllSame ==
  ASSUME UNCHANGED <<orders, items>>
  PROVE  \A id \in DOMAIN orders' : SameOrder(id)
BY DEF SameOrder

LEMMA UpdateHeaderAlone ==
  ASSUME Typed, Alone, AtMostOne', NEW r \in Requests, UpdateHeader(r)
  PROVE  Orderly(r)
<1> DEFINE id == req[r].id
<1>1. PICK n \in Request :
        /\ Fits(n, <<>>) /\ Moves(r, n, <<>>)
        /\ \/ n = Idle /\ orders' = orders /\ faulted' = faulted
           \/ /\ RowsKept(id)
              /\ orders'[id].basket = req[r].basket
              /\ \/ /\ n.pc = "clear" /\ n.id = id /\ SameBut(n, req[r])
                    /\ n.wrote = orders[id].serial /\ faulted' = faulted
                 \/ n = Idle /\ faulted' = TRUE
  BY UpdateHeaderShape
<1>2. req[r].pc = "tx" /\ items' = items /\ RequestsFit /\ TablesFit
  BY UpdateHeaderShape DEF At, Typed
<1>3. req'[r] = n /\ req[r] # Idle /\ \A i : ~ Busy(r, i)
  BY <1>1, <1>2, OneMoves DEF Idle, Busy
<1>4. Idle.pc = "idle"
  BY DEF Idle
<1>5. CASE n = Idle /\ orders' = orders /\ faulted' = faulted
  <2>1. Alone'
    BY <1>1, <1>2, <1>3, <1>5, IdleStands, TablesRestAlone
  <2> QED
    BY <1>2, <1>3, <1>4, <1>5, <2>1, AllSame DEF Orderly
<1>6. CASE RowsKept(id) /\ orders'[id].basket = req[r].basket
  <2>1. OneBasket' /\ \A i \in DOMAIN orders' : i # id => SameOrder(i)
    BY <1>2, <1>6, RowsKeptAlone DEF Alone
  <2>2. CASE /\ n.pc = "clear" /\ n.id = id /\ SameBut(n, req[r])
             /\ n.wrote = orders[id].serial /\ faulted' = faulted
    <3>1. Standing(r)'
      BY <1>3, <1>6, <2>2 DEF Standing, RowsKept, SameBut
    <3>2. Alone'
      BY <1>1, <1>2, <1>3, <2>1, <3>1, OneStands DEF Alone
    <3>3. Busy(r, id)'
      BY <1>3, <2>2 DEF Busy
    <3> QED
      BY <1>3, <2>1, <2>2, <3>2, <3>3 DEF Orderly
  <2>3. CASE n = Idle /\ faulted' = TRUE
    <3>1. Alone'
      BY <1>1, <1>2, <1>3, <2>1, <2>3, IdleStands, OneStands DEF Alone
    <3> QED
      BY <2>3, <3>1 DEF Orderly
  <2> QED
    BY <1>1, <1>3, <1>4, <1>6, <2>1, <2>2, <2>3, <1>5
<1> QED
  BY <1>1, <1>5, <1>6

LEMMA ClearLinesAlone ==
  ASSUME Typed, Alone, AtMostOne', NEW r \in Requests, ClearLines(r)
  PROVE  Orderly(r)
<1> DEFINE id == req[r].id
<1>1. PICK n \in Request :
        /\ Fits(n, <<>>) /\ Moves(r, n, <<>>)
        /\ \/ /\ n.pc = IF req[r].method = "Update" THEN "insert" ELSE "remove"
              /\ SameBut(n, req[r]) /\ n.id = req[r].id /\ n.wrote = req[r].wrote
              /\ faulted' = faulted
           \/ n = Idle /\ faulted' = TRUE
  BY ClearLinesShape
<1>2. /\ At(r, {"Update"}, "clear") \/ At(r, {"Delete"}, "tx")
      /\ items' = DeleteLines(items, id) /\ orders' = orders
      /\ RequestsFit /\ TablesFit
  BY ClearLinesShape DEF Typed
<1>3. /\ TablesFit'
      /\ DOMAIN items' = {i \in DOMAIN items : items[i].order # id}
      /\ \A i \in DOMAIN items' : items'[i] = items[i]
  BY <1>2, ClearLinesTables
<1>4. req'[r] = n /\ undo'[r] = <<>> /\ req[r] # Idle
  BY <1>1, <1>2, OneMoves DEF Idle, At
<1>5. OneBasket'
  BY <1>2, <1>3 DEF Alone, OneBasket
<1>6. LinesOf(items', id) = {} /\ \A i : i # id => LinesOf(items', i) = LinesOf(items, i)
  BY <1>3 DEF LinesOf
<1>7. \A i \in DOMAIN orders' : i # id => SameOrder(i) /\ ~ Busy(r, i)
  BY <1>2, <1>3, <1>6 DEF SameOrder, Busy, LinesOf
<1>8. CASE n = Idle /\ faulted' = TRUE
  <2>1. Alone'
    BY <1>1, <1>2, <1>4, <1>5, <1>8, IdleStands, OneStands DEF Alone
  <2> QED
    BY <1>8, <2>1 DEF Orderly
<1>9. CASE /\ n.pc = IF req[r].method = "Update" THEN "insert" ELSE "remove"
           /\ SameBut(n, req[r]) /\ n.id = req[r].id /\ n.wrote = req[r].wrote
           /\ faulted' = faulted
  <2>1. n.pc \in {"insert", "remove"}
    BY <1>9
  <2>2. Standing(r)'
    <3>1. CASE At(r, {"Update"}, "clear")
      <4>1. /\ id \in DOMAIN orders /\ orders[id].serial = req[r].wrote
            /\ orders[id].basket = req[r].basket
        BY <3>1 DEF Alone, Standing, At
      <4>2. NextLine(r)' = 1
        BY <1>2, <1>4, NoLineYet
      <4>3. Begun(r)'
        <5>1. \A next \in NextIds(items') : next \in Nat
          BY <1>3, NextIdIsFresh DEF TablesFit, IsItemTable
        <5>2. \A next \in NextIds(items') : next - 1 + 1 .. next - 1 = {}
          BY <5>1
        <5>3. LinesOf(items', req'[r].id) = {}
          BY <1>4, <1>6, <1>9
        <5> QED
          BY <4>2, <5>2, <5>3 DEF Begun
      <4>4. n.pc = "insert"
        BY <1>9, <3>1 DEF At
      <4> QED
        BY <1>2, <1>4, <1>9, <4>1, <4>3, <4>4 DEF Standing, SameBut
    <3>2. CASE At(r, {"Delete"}, "tx")
      <4>1. Matches(orders, id, req[r].actor)
        BY <3>2 DEF Alone, Standing, At
      <4>2. n.pc = "remove"
        BY <1>9, <3>2 DEF At
      <4> QED
        BY <1>2, <1>4, <1>6, <1>9, <4>1, <4>2 DEF Standing, SameBut
    <3> QED
      BY <1>2, <3>1, <3>2
  <2>3. Alone'
    BY <1>1, <1>2, <1>4, <1>5, <2>2, OneStands DEF Alone
  <2>4. Busy(r, id)'
    BY <1>4, <1>9, <2>1 DEF Busy
  <2> QED
    BY <1>4, <1>7, <1>9, <2>1, <2>3, <2>4 DEF Orderly
<1> QED
  BY <1>1, <1>8, <1>9

LEMMA HeaderGoneAlone ==
  ASSUME TablesFit, OneBasket, NEW id, HeaderMayGo(id)
  PROVE  /\ OneBasket'
         /\ \A i \in DOMAIN orders' : SameOrder(i)
<1>1. TablesFit'
  BY HeaderGoneTables
<1> QED
  BY <1>1 DEF HeaderMayGo, OneBasket, SameOrder, TablesFit

LEMMA RemoveHeaderAlone ==
  ASSUME Typed, Alone, AtMostOne', NEW r \in Requests, RemoveHeader(r)
  PROVE  Orderly(r)
<1> DEFINE id == req[r].id
<1>1. /\ At(r, {"Delete"}, "remove") /\ items' = items /\ faulted' = faulted
      /\ orders' = IF LinesOf(items, id) = {}
                   THEN DeleteHeader(orders, id, req[r].actor) ELSE orders
      /\ Moves(r, Idle, <<>>) /\ RequestsFit /\ TablesFit
  BY RemoveHeaderShape DEF Typed
<1>2. LinesOf(items, id) = {} /\ Matches(orders, id, req[r].actor)
  BY <1>1 DEF Alone, Standing, At
<1>3. orders' = DeleteRow(orders, id)
  BY <1>1, <1>2 DEF DeleteHeader
<1>4. id \notin DOMAIN orders'
  BY <1>3 DEF DeleteRow, Restrict
<1>5. HeaderMayGo(id)
  BY <1>1, <1>2, <1>3, RemoveMayGo
<1>6. OneBasket' /\ \A i \in DOMAIN orders' : SameOrder(i)
  BY <1>1, <1>5, HeaderGoneAlone DEF Alone
<1>7. req'[r] = Idle /\ req[r] # Idle /\ Idle.pc = "idle"
  BY <1>1, IdleFits, OneMoves DEF At, Idle
<1>8. Alone'
  BY <1>1, <1>6, <1>7, IdleStands, OneStands DEF Alone
<1>9. \A i \in DOMAIN orders' : ~ Busy(r, i)
  BY <1>4 DEF Busy
<1> QED
  BY <1>1, <1>6, <1>7, <1>8, <1>9 DEF Orderly

LEMMA ReadStatusAlone ==
  ASSUME Typed, Alone, AtMostOne', NEW r \in Requests, ReadStatus(r)
  PROVE  Orderly(r)
<1>1. PICK n \in Request :
        /\ Fits(n, <<>>) /\ Moves(r, n, <<>>)
        /\ \/ n = Idle
           \/ /\ n.pc = "write" /\ SameBut(n, req[r]) /\ n.id = req[r].id
              /\ Matches(orders, n.id, n.actor)
              /\ IsValidTransition(orders[n.id].status, n.to)
  BY ReadStatusShape
<1>2. /\ req[r].pc = "tx" /\ UNCHANGED <<orders, items, faulted>>
      /\ RequestsFit
  BY ReadStatusShape DEF At, Typed, tables
<1>3. req'[r] = n /\ Idle.pc = "idle"
  BY <1>1, <1>2, OneMoves DEF Idle
<1>4. Standing(r)'
  <2>1. CASE n = Idle
    BY <1>3, <2>1, IdleStands
  <2>2. CASE /\ n.pc = "write" /\ Matches(orders, n.id, n.actor)
             /\ IsValidTransition(orders[n.id].status, n.to)
    BY <1>2, <1>3, <2>2 DEF Standing
  <2> QED
    BY <1>1, <2>1, <2>2
<1>5. Alone'
  BY <1>1, <1>2, <1>4, TablesRestAlone
<1>6. n.pc # "undo" /\ \A i : ~ Busy(r, i)
  BY <1>1, <1>2, <1>3 DEF Busy
<1> QED
  BY <1>2, <1>3, <1>5, <1>6, AllSame DEF Orderly

LEMMA WriteStatusAlone ==
  ASSUME Typed, Alone, AtMostOne', NEW r \in Requests, WriteStatus(r)
  PROVE  Orderly(r)
<1> DEFINE id == req[r].id
<1>1. PICK n \in Request :
        /\ Fits(n, <<>>) /\ Moves(r, n, <<>>) /\ n.pc \in {"idle", "stamp", "header"}
        /\ \/ orders' = orders
           \/ RowsKept(id) /\ orders'[id].basket = orders[id].basket
  BY WriteStatusShape
<1>2. /\ req[r].pc = "write" /\ items' = items
      /\ RequestsFit /\ TablesFit /\ (faulted' = faulted \/ faulted' = TRUE)
  BY WriteStatusShape DEF At, Typed
<1>3. req'[r] = n /\ req[r] # Idle /\ \A i : ~ Busy(r, i)
  BY <1>1, <1>2, OneMoves DEF Idle, Busy
<1>4. OneBasket' /\ \A i \in DOMAIN orders' : SameOrder(i)
  <2>1. CASE orders' = orders
    BY <1>2, <2>1, AllSame DEF Alone, OneBasket
  <2>2. CASE RowsKept(id) /\ orders'[id].basket = orders[id].basket
    BY <1>2, <2>2, RowsKeptAlone DEF Alone
  <2> QED
    BY <1>1, <2>1, <2>2
<1>5. Standing(r)'
  BY <1>1, <1>3, FreeStands
<1>6. Alone'
  BY <1>1, <1>2, <1>3, <1>4, <1>5, OneStands DEF Alone
<1> QED
  BY <1>1, <1>2, <1>3, <1>4, <1>6 DEF Orderly

LEMMA StampAlone ==
  ASSUME Typed, Alone, AtMostOne', NEW r \in Requests, Stamp(r)
  PROVE  Orderly(r)
<1> DEFINE id == req[r].id
<1>1. PICK n \in Request :
        Fits(n, <<>>) /\ Moves(r, n, <<>>) /\ n.pc \in {"idle", "header"}
  BY StampShape
<1>2. /\ req[r].pc = "stamp" /\ items' = items
      /\ RequestsFit /\ TablesFit /\ (faulted' = faulted \/ faulted' = TRUE)
      /\ \/ orders' = orders
         \/ RowsKept(id) /\ orders'[id].basket = orders[id].basket
  BY StampShape DEF At, Typed
<1>3. req'[r] = n /\ req[r] # Idle /\ \A i : ~ Busy(r, i)
  BY <1>1, <1>2, OneMoves DEF Idle, Busy
<1>4. OneBasket' /\ \A i \in DOMAIN orders' : SameOrder(i)
  <2>1. CASE orders' = orders
    BY <1>2, <2>1, AllSame DEF Alone, OneBasket
  <2>2. CASE RowsKept(id) /\ orders'[id].basket = orders[id].basket
    BY <1>2, <2>2, RowsKeptAlone DEF Alone
  <2> QED
    BY <1>2, <2>1, <2>2
<1>5. Standing(r)'
  BY <1>1, <1>3, FreeStands
<1>6. Alone'
  BY <1>1, <1>2, <1>3, <1>4, <1>5, OneStands DEF Alone
<1> QED
  BY <1>1, <1>2, <1>3, <1>4, <1>6 DEF Orderly

LEMMA StatementFailsAlone ==
  ASSUME Typed, Alone, AtMostOne', NEW r \in Requests, StatementFails(r)
  PROVE  Orderly(r)
<1>1. PICK n \in Request : Moves(r, n, undo[r]) /\ Fits(n, undo[r]) /\ (n = Idle \/ n.pc = "undo")
  BY StatementFailsShape
<1>2. UNCHANGED <<orders, items>> /\ faulted' = TRUE /\ RequestsFit
  BY StatementFailsShape DEF Typed
<1>3. req'[r] = n /\ Idle.pc = "idle"
  BY <1>1, <1>2, OneMoves DEF Idle
<1>4. Standing(r)'
  BY <1>1, <1>3, FreeStands
<1>5. Alone'
  BY <1>1, <1>2, <1>4, TablesRestAlone
<1> QED
  BY <1>2, <1>5 DEF Orderly

LEMMA CompensateAlone ==
  ASSUME Typed, Alone, AtMostOne', NEW r \in Requests, Compensate(r)
  PROVE  Orderly(r)
<1>1. PICK n \in Request, u \in Seq(Insertion) :
        Fits(n, u) /\ Moves(r, n, u) /\ (n = Idle \/ n.pc = "undo")
  BY CompensateShape
<1>2. req[r].pc = "undo" /\ faulted' = faulted /\ RequestsFit /\ TablesFit
  BY CompensateShape DEF Typed
<1>3. req'[r] = n /\ Idle.pc = "idle" /\ req[r] # Idle
  BY <1>1, <1>2, OneMoves DEF Idle
<1>4. Standing(r)'
  BY <1>1, <1>3, FreeStands
<1>5. OneBasket'
  <2>1. CASE items' = items /\ orders' = orders
    BY <2>1 DEF Alone, OneBasket
  <2>2. CASE \E id \in Nat : items' = DeleteRow(items, id) /\ orders' = orders
    <3>1. /\ DOMAIN items' \subseteq DOMAIN items
          /\ \A i \in DOMAIN items' : items'[i] = items[i]
      BY <1>2, <2>2, LineGoneTables
    <3> QED
      BY <2>2, <3>1 DEF Alone, OneBasket
  <2>3. CASE \E id \in Nat : /\ items' = items
                             /\ orders' = IF LinesOf(items, id) = {}
                                          THEN DeleteRow(orders, id) ELSE orders
    <3>1. \E id \in Nat : HeaderMayGo(id)
      BY <1>2, <2>3, RemoveMayGo
    <3> QED
      BY <1>2, <3>1, HeaderGoneAlone DEF Alone
  <2> QED
    BY <2>1, <2>2, <2>3, CompensateShape
<1>6. Alone'
  BY <1>1, <1>2, <1>3, <1>4, <1>5, OneStands DEF Alone
<1> QED
  BY <1>2, <1>6 DEF Orderly

LEMMA ServiceAlone ==
  ASSUME Typed, Alone, AtMostOne', NEW r \in Requests, ServiceStep(r),
         UNCHANGED <<undo, faulted>>
  PROVE  Orderly(r)
<1>1. PICK n \in Request : ServiceLeaves(r, n)
  BY ServiceShape
<1>2. UNCHANGED <<orders, items>> /\ RequestsFit
  BY ServiceShape DEF Typed
<1>3. req'[r] = n
  BY <1>1, <1>2, OneMoves DEF ServiceLeaves
<1>4. req[r].pc \in Outside
  BY DEF ServiceStep, Start, Create, Checkout, Get, Update, Delete, Cancel, UpdateStatus,
         Accept, FindOrder, FindPending, ReadHeader, ReadLines, Publish, ReadFails, At,
         Idle, Outside
<1>5. Standing(r)'
  BY <1>1, <1>2, <1>3 DEF Standing, ServiceLeaves, Outside
<1>6. Alone'
  BY <1>1, <1>2, <1>5, TablesRestAlone DEF ServiceLeaves
<1>7. n.pc # "undo" /\ \A i : ~ Busy(r, i)
  BY <1>1, <1>4 DEF ServiceLeaves, Outside, Busy
<1> QED
  BY <1>2, <1>3, <1>6, <1>7, AllSame DEF Orderly

(* The header of a lone request's lines is there: none of them is refused. *)
LEMMA StatementAlone ==
  ASSUME Typed, Alone, AtMostOne', NEW r \in Requests, Statement(r)
  PROVE  Orderly(r)
<1>1. ~ LineRefused(r)
  BY LineRefusedShape DEF Alone, Standing
<1> QED
  BY <1>1, InsertHeaderAlone, InsertLineAlone, UpdateHeaderAlone, ClearLinesAlone,
     RemoveHeaderAlone, ReadStatusAlone, WriteStatusAlone, StampAlone,
     StatementFailsAlone, CompensateAlone
     DEF Statement

LEMMA StatementMoves ==
  ASSUME Typed, NEW r \in Requests, Statement(r)
  PROVE  \E n, u : Moves(r, n, u)
BY InsertHeaderShape, InsertLineShape, UpdateHeaderShape, ClearLinesShape,
   RemoveHeaderShape, ReadStatusShape, WriteStatusShape, StampShape,
   StatementFailsShape, LineRefusedShape, CompensateShape
   DEF Statement

-----------------------------------------------------------------------------
(* The invariant.  Until something fails a lone request leaves every order *)
(* but the one it is working on with its whole basket.                     *)

Whole ==
  /\ \A id \in DOMAIN orders : WholeBasket(id) \/ \E r \in Requests : Busy(r, id)
  /\ \A r \in Requests : req[r].pc # "undo"

DInv ==
  /\ Typed
  /\ ~ overlapped => Alone
  /\ ~ overlapped /\ ~ faulted => Whole

LEMMA WholeKept ==
  ASSUME TablesFit, NEW id, SameOrder(id), WholeBasket(id)
  PROVE  WholeBasket(id)'
<1> DEFINE n == LineCount[orders[id].basket]
           serial == orders[id].serial
           basket == orders[id].basket
<1>1. PICK first \in DOMAIN items :
        /\ LinesOf(items, id) = first .. first + n - 1
        /\ \A i \in LinesOf(items, id) : items[i] = ItemOf(id, serial, basket, i - first + 1)
  BY DEF WholeBasket
<1>2. /\ orders'[id].serial = serial /\ orders'[id].basket = basket
      /\ LinesOf(items', id) = LinesOf(items, id)
      /\ \A i \in LinesOf(items, id) : items'[i] = items[i]
      /\ LineCount[orders'[id].basket] = n
  BY DEF SameOrder
<1>3. first \in Nat /\ n \in Nat \ {0}
  BY OrderTablesAssumption DEF SameOrder, TablesFit, IsItemTable, IsTable, OrderRow
<1>4. first \in LinesOf(items, id)
  BY <1>1, <1>3
<1>5. first \in DOMAIN items'
  BY <1>2, <1>4 DEF LinesOf
<1> HIDE DEF n, serial, basket
<1>6. /\ LinesOf(items', id) = first .. first + LineCount[orders'[id].basket] - 1
      /\ \A i \in LinesOf(items', id) :
           items'[i] = ItemOf(id, orders'[id].serial, orders'[id].basket, i - first + 1)
  BY <1>1, <1>2
<1> QED
  BY <1>5, <1>6 DEF WholeBasket

LEMMA WholeStep ==
  ASSUME RequestsFit, TablesFit, NEW r \in Requests, NEW n, NEW u, Moves(r, n, u),
         Orderly(r), ~ faulted', Whole
  PROVE  Whole'
<1>1. \A s \in Requests : s # r => req'[s] = req[s]
  BY DEF Moves, RequestsFit
<1>2. /\ req'[r].pc # "undo"
      /\ \A id \in DOMAIN orders' :
           (SameOrder(id) /\ ~ Busy(r, id)) \/ Busy(r, id)' \/ WholeBasket(id)'
  BY DEF Orderly, Whole
<1>3. ASSUME NEW id \in DOMAIN orders'
      PROVE  WholeBasket(id)' \/ \E s \in Requests : Busy(s, id)'
  <2>1. CASE SameOrder(id) /\ ~ Busy(r, id)
    <3>1. WholeBasket(id) \/ \E s \in Requests : s # r /\ Busy(s, id)
      BY <2>1 DEF Whole, SameOrder
    <3>2. CASE WholeBasket(id)
      BY <2>1, <3>2, WholeKept
    <3>3. CASE \E s \in Requests : s # r /\ Busy(s, id)
      BY <1>1, <3>3 DEF Busy
    <3> QED
      BY <3>1, <3>2, <3>3
  <2> QED
    BY <1>2, <2>1
<1>4. \A s \in Requests : req'[s].pc # "undo"
  BY <1>1, <1>2 DEF Whole
<1> QED
  BY <1>3, <1>4 DEF Whole

LEMMA RequestKeepsInv ==
  ASSUME DInv, NEW r \in Requests, Statement(r) \/ (ServiceStep(r) /\ UNCHANGED <<undo, faulted>>),
         Typed',
         overlapped' = (overlapped \/ Cardinality({s \in Requests : req'[s] # Idle}) > 1)
  PROVE  DInv'
<1>1. CASE overlapped'
  BY <1>1 DEF DInv
<1>2. CASE ~ overlapped'
  <2>1. /\ ~ overlapped /\ ~ (Cardinality({s \in Requests : req'[s] # Idle}) > 1)
        /\ Typed /\ Alone /\ RequestsFit /\ TablesFit
    BY <1>2 DEF DInv, Typed
  <2>2. PICK n, u : Moves(r, n, u)
    BY <2>1, StatementMoves, ServiceShape DEF ServiceLeaves
  <2>3. AtMostOne'
    BY <2>1, <2>2, StillAtMostOne DEF Alone
  <2>4. Orderly(r)
    BY <2>1, <2>3, StatementAlone, ServiceAlone
  <2>5. ~ faulted' => Whole'
    BY <2>1, <2>2, <2>4, WholeStep DEF DInv, Orderly
  <2> QED
    BY <2>4, <2>5 DEF DInv, Orderly
<1> QED
  BY <1>1, <1>2

LEMMA DInvInit == D1Init => DInv
<1> SUFFICES ASSUME D1Init PROVE DInv
  OBVIOUS
<1>1. /\ DOMAIN orders = {} /\ DOMAIN items = {} /\ req = [r \in Requests |-> Idle]
  BY DEF D1Init, Init
<1>2. AtMostOne /\ OneBasket
  BY <1>1 DEF AtMostOne, OneBasket
<1>3. Idle.pc = "idle" /\ Idle.method = "none"
  BY DEF Idle
<1>4. \A r \in Requests : Standing(r)
  BY <1>1, <1>3 DEF Standing
<1>5. Whole
  BY <1>1, <1>3 DEF Whole
<1> QED
  BY <1>2, <1>4, <1>5, TypedInit DEF DInv, Alone

LEMMA DInvKept ==
  ASSUME DInv, [D1Next]_d1vars
  PROVE  DInv'
<1>1. Typed'
  BY TypedKept DEF DInv
<1>2. CASE UNCHANGED d1vars
  <2>1. UNCHANGED <<orders, items, req, undo, faulted, overlapped>>
    BY <1>2 DEF d1vars, vars
  <2>2. Alone => Alone'
    <3>1. \A s \in Requests : Standing(s) => Standing(s)'
      BY <2>1, RestStands
    <3> QED
      BY <2>1, <3>1 DEF Alone, AtMostOne, OneBasket
  <2>3. Whole => Whole'
    BY <2>1 DEF Whole, WholeBasket, Busy
  <2> QED
    BY <1>1, <2>1, <2>2, <2>3 DEF DInv
<1>3. CASE Restart /\ undo' = [r \in Requests |-> <<>>] /\ faulted' = TRUE
           /\ overlapped' = (overlapped \/ Cardinality({r \in Requests : req'[r] # Idle}) > 1)
  <2>1. UNCHANGED <<orders, items>> /\ \A r \in Requests : req'[r] = Idle
    BY <1>3, RestartTyped DEF DInv
  <2>2. \A r \in Requests : Standing(r)'
    BY <2>1, IdleStands
  <2>3. Alone => Alone'
    BY <2>1, <2>2 DEF Alone, AtMostOne, OneBasket
  <2> QED
    BY <1>1, <1>3, <2>3 DEF DInv
<1>4. CASE /\ \E r \in Requests : \/ Statement(r)
                                  \/ ServiceStep(r) /\ UNCHANGED <<undo, faulted>>
           /\ overlapped' = (overlapped \/ Cardinality({r \in Requests : req'[r] # Idle}) > 1)
  BY <1>1, <1>4, RequestKeepsInv
<1> QED
  BY <1>2, <1>3, <1>4 DEF D1Next

LEMMA DInvOfOneBasket == DInv => LinesOfOneBasket
<1> SUFFICES ASSUME DInv PROVE LinesOfOneBasket
  OBVIOUS
<1>1. TypeOK
  BY TypedIsTypeOK DEF DInv
<1>2. ~ overlapped => OneBasket
  BY DEF DInv, Alone
<1>3. ASSUME Quiet, ~ faulted, ~ overlapped
      PROVE  AllOrNothing /\ \A id \in DOMAIN orders : LinesOf(items, id) # {}
  <2>1. \A id \in DOMAIN orders : WholeBasket(id)
    BY <1>3 DEF DInv, Whole, Busy, Quiet, Idle
  <2>2. \A id \in DOMAIN orders : LinesOf(items, id) # {}
    <3> TAKE id \in DOMAIN orders
    <3>1. PICK first \in DOMAIN items :
            LinesOf(items, id) = first .. first + LineCount[orders[id].basket] - 1
      BY <2>1 DEF WholeBasket
    <3>2. first \in Nat /\ LineCount[orders[id].basket] \in Nat \ {0}
      BY OrderTablesAssumption DEF DInv, Typed, TablesFit, IsItemTable, IsTable, OrderRow
    <3> QED
      BY <3>1, <3>2
  <2> QED
    BY <1>1, <2>1, <2>2 DEF AllOrNothing, TypeOK
<1> QED
  BY <1>1, <1>2, <1>3 DEF LinesOfOneBasket, OneBasket

(* On D1 the lines of an order may be too few after a failure, but for as  *)
(* long as no two requests overlapped they are never of two baskets nor of *)
(* another order, and while nothing failed either every order at rest has  *)
(* its whole basket: statement by statement, insertItems and the           *)
(* compensating deletes of d1Tx.Rollback are as good as a transaction.     *)
THEOREM OneBasketOnD1 == D1Spec => []LinesOfOneBasket
<1>1. D1Init => DInv
  BY DInvInit
<1>2. DInv /\ [D1Next]_d1vars => DInv'
  BY DInvKept
<1>3. DInv => LinesOfOneBasket
  BY DInvOfOneBasket
<1> QED
  BY <1>1, <1>2, <1>3, PTL DEF D1Spec

-----------------------------------------------------------------------------
(* The lifecycle.  Serials are of one order each whatever overlaps.        *)

NInv == Numbered(orders, placed)

LEMMA RowsKeptNumbers ==
  ASSUME Typed, Typed', NInv, placed' = placed, NEW id, RowsKept(id)
  PROVE  NInv'
BY DEF NInv, Numbered, Distinct, RowsKept, Typed, TablesFit

LEMMA FewerRowsNumber ==
  ASSUME Typed, Typed', NInv, placed' = placed, DOMAIN orders' \subseteq DOMAIN orders,
         \A i \in DOMAIN orders' : orders'[i] = orders[i]
  PROVE  NInv'
BY DEF NInv, Numbered, Distinct, Typed, TablesFit

LEMMA MayGoAlone ==
  ASSUME Typed, Typed', NInv, placed' = placed, NEW id, HeaderMayGo(id)
  PROVE  NInv' /\ (lifeBar' = lifeBar \/ Lifecycle!Next)
<1>1. /\ DOMAIN orders' \subseteq DOMAIN orders /\ DOMAIN orders \ {id} \subseteq DOMAIN orders'
      /\ \A i \in DOMAIN orders' : orders'[i] = orders[i]
  BY DEF HeaderMayGo
<1>2. NInv'
  BY <1>1, FewerRowsNumber
<1> QED
  BY <1>1, <1>2, LifeRemoves DEF NInv, Numbered

LEMMA OrdersRest ==
  ASSUME Typed, Typed', NInv, placed' = placed, orders' = orders
  PROVE  NInv' /\ lifeBar' = lifeBar
<1>1. NInv'
  BY FewerRowsNumber
<1> QED
  BY <1>1, LifeRests DEF NInv, Numbered

LEMMA RowsKeptAtRest ==
  ASSUME Typed, Typed', NInv, placed' = placed, NEW id, RowsKept(id),
         orders'[id].status = orders[id].status
  PROVE  NInv' /\ lifeBar' = lifeBar
<1>1. NInv'
  BY RowsKeptNumbers
<1>2. /\ DOMAIN orders' = DOMAIN orders
      /\ \A i \in DOMAIN orders : /\ orders'[i].serial = orders[i].serial
                                  /\ orders'[i].status = orders[i].status
  BY DEF RowsKept
<1> QED
  BY <1>1, <1>2, LifeRests DEF NInv, Numbered

(* What a step does to the lives of the orders; a status read in another   *)
(* statement may only be trusted by a request that is alone.               *)
LifeGoesOn(alone) == NInv' /\ (lifeBar' = lifeBar \/ (alone => Lifecycle!Next))

LEMMA InsertHeaderLife ==
  ASSUME Typed, Typed', NInv, NEW r \in Requests, InsertHeader(r)
  PROVE  LifeGoesOn(TRUE)
<1>1. PICK id \in NextIds(orders), row \in OrderRow :
        /\ orders' = InsertRow(orders, id, row) /\ row.serial = placed + 1
        /\ row.status = req[r].to
  BY InsertHeaderShape
<1>2. placed' = placed + 1 /\ items' = items /\ placed \in Nat
  BY InsertHeaderShape DEF Typed, HistoryFits
<1>3. /\ id \notin DOMAIN orders
      /\ DOMAIN orders' = DOMAIN orders \cup {id} /\ orders'[id] = row
      /\ \A i \in DOMAIN orders : orders'[i] = orders[i]
  BY <1>1, <1>2, InsertHeaderTables DEF Typed
<1>4. \A i \in DOMAIN orders : orders[i].serial \in Nat /\ orders[i].serial <= placed
  BY DEF NInv, Numbered, OrderRow
<1>5. Distinct(orders')
  BY <1>1, <1>2, <1>3, <1>4 DEF NInv, Numbered, Distinct
<1>6. NInv'
  BY <1>1, <1>2, <1>3, <1>4, <1>5 DEF NInv, Numbered, Typed, TablesFit, HistoryFits
<1>7. row.status \in StoredStatuses
  BY DEF OrderRow
<1> QED
  BY <1>1, <1>2, <1>3, <1>5, <1>6, <1>7, LifePlaces DEF NInv, LifeGoesOn

LEMMA WriteStatusLife ==
  ASSUME Typed, Typed', NInv, NEW r \in Requests, WriteStatus(r)
  PROVE  LifeGoesOn(Standing(r))
<1> DEFINE id == req[r].id
<1>1. /\ placed' = placed /\ At(r, Moving, "write")
      /\ \/ orders' = orders
         \/ /\ RowsKept(id) /\ Matches(orders, id, req[r].actor)
            /\ orders'[id].status = req[r].to
  BY WriteStatusShape
<1>2. CASE orders' = orders
  BY <1>1, <1>2, OrdersRest DEF LifeGoesOn
<1>3. CASE RowsKept(id) /\ orders'[id].status = req[r].to
  <2>1. NInv'
    BY <1>1, <1>3, RowsKeptNumbers
  <2>2. ASSUME Standing(r)
        PROVE  Lifecycle!Next \/ lifeBar' = lifeBar
    <3>1. IsValidTransition(orders[id].status, orders'[id].status)
      BY <1>1, <1>3, <2>2 DEF Standing, At
    <3>2. /\ id \in DOMAIN orders /\ DOMAIN orders' = DOMAIN orders
          /\ \A i \in DOMAIN orders : i # id => orders'[i] = orders[i]
          /\ orders'[id].serial = orders[id].serial
      BY <1>3 DEF RowsKept
    <3> QED
      BY <1>1, <2>1, <3>1, <3>2, LifeMoves DEF NInv, Numbered
  <2> QED
    BY <2>1, <2>2 DEF LifeGoesOn
<1> QED
  BY <1>1, <1>2, <1>3

LEMMA StatementLife ==
  ASSUME Typed, Typed', NInv, NEW r \in Requests, Statement(r)
  PROVE  LifeGoesOn(Standing(r))
<1>1. CASE InsertHeader(r)
  BY <1>1, InsertHeaderLife DEF LifeGoesOn
<1>2. CASE UpdateHeader(r)
  <2>1. /\ placed' = placed
        /\ \/ orders' = orders
           \/ RowsKept(req[r].id) /\ orders'[req[r].id].status = orders[req[r].id].status
    BY <1>2, UpdateHeaderShape DEF history
  <2> QED
    BY <2>1, OrdersRest, RowsKeptAtRest DEF LifeGoesOn
<1>3. CASE RemoveHeader(r)
  <2>1. HeaderMayGo(req[r].id) /\ placed' = placed
    BY <1>3, RemoveHeaderShape, RemoveMayGo DEF Typed, history
  <2> QED
    BY <2>1, MayGoAlone DEF LifeGoesOn
<1>4. CASE WriteStatus(r)
  BY <1>4, WriteStatusLife
<1>5. CASE Stamp(r)
  <2>1. /\ placed' = placed
        /\ \/ orders' = orders
           \/ RowsKept(req[r].id) /\ orders'[req[r].id].status = orders[req[r].id].status
    BY <1>5, StampShape
  <2> QED
    BY <2>1, OrdersRest, RowsKeptAtRest DEF LifeGoesOn
<1>6. CASE Compensate(r)
  <2>1. /\ placed' = placed
        /\ \/ orders' = orders
           \/ \E id \in Nat : /\ items' = items
                              /\ orders' = IF LinesOf(items, id) = {}
                                           THEN DeleteRow(orders, id) ELSE orders
    BY <1>6, CompensateShape DEF history
  <2>2. orders' = orders \/ \E id : HeaderMayGo(id)
    BY <2>1, RemoveMayGo DEF Typed
  <2> QED
    BY <2>1, <2>2, OrdersRest, MayGoAlone DEF LifeGoesOn
<1>7. CASE \/ InsertLine(r) \/ ClearLines(r) \/ ReadStatus(r) \/ StatementFails(r)
           \/ LineRefused(r)
  <2>1. orders' = orders /\ placed' = placed
    BY <1>7, InsertLineShape, ClearLinesShape, ReadStatusShape, StatementFailsShape,
       LineRefusedShape DEF tables, history
  <2> QED
    BY <2>1, OrdersRest DEF LifeGoesOn
<1> QED
  BY <1>1, <1>2, <1>3, <1>4, <1>5, <1>6, <1>7 DEF Statement

LEMMA LifeStep ==
  ASSUME DInv, DInv', NInv, [D1Next]_d1vars
  PROVE  NInv' /\ [~ overlapped' => Lifecycle!Next]_lifeBar
<1>0. Typed /\ Typed'
  BY DEF DInv
<1>1. CASE UNCHANGED d1vars
  BY <1>0, <1>1, OrdersRest DEF d1vars, vars
<1>2. CASE Restart
  <2>1. UNCHANGED <<orders, placed>>
    BY <1>2 DEF Restart, tables
  <2> QED
    BY <1>0, <2>1, OrdersRest
<1>3. CASE \E r \in Requests : ServiceStep(r) /\ UNCHANGED <<undo, faulted>>
  <2>1. UNCHANGED <<orders, placed>>
    BY <1>0, <1>3, ServiceShape
  <2> QED
    BY <1>0, <2>1, OrdersRest
<1>4. ASSUME NEW r \in Requests, Statement(r),
             overlapped' = (overlapped \/ Cardinality({s \in Requests : req'[s] # Idle}) > 1)
      PROVE  NInv' /\ [~ overlapped' => Lifecycle!Next]_lifeBar
  <2>1. ~ overlapped' => Standing(r)
    BY <1>4 DEF DInv, Alone
  <2>2. LifeGoesOn(Standing(r))
    BY <1>0, <1>4, StatementLife
  <2> QED
    BY <2>1, <2>2 DEF LifeGoesOn
<1> QED
  BY <1>1, <1>2, <1>3, <1>4 DEF D1Next

(* On D1, where a transaction is no protection, every order still lives    *)
(* the documented lifecycle for as long as no two requests have            *)
(* overlapped: UpdateStatus writes the status it allowed, whatever has     *)
(* failed or been compensated before.                                      *)
THEOREM LifecycleOnD1 == D1Spec => LifecycleHoldsAlone
<1>1. D1Init => Lifecycle!Init /\ NInv
  <2> SUFFICES ASSUME D1Init PROVE Lifecycle!Init /\ NInv
    OBVIOUS
  <2>1. orders = <<>> /\ DOMAIN orders = {} /\ placed = 0
    BY DEF D1Init, Init
  <2> QED
    BY <2>1, LifeBegins DEF NInv, Numbered, Distinct
<1>2. DInv /\ DInv' /\ NInv /\ [D1Next]_d1vars
        => NInv' /\ [~ overlapped' => Lifecycle!Next]_lifeBar
  BY LifeStep
<1>3. D1Spec => []DInv
  BY DInvInit, DInvKept, PTL DEF D1Spec
<1> QED
  BY <1>1, <1>2, <1>3, PTL DEF D1Spec, LifecycleHoldsAlone, lifeBar

-----------------------------------------------------------------------------
(* Values.  What is stored is what the affinity of the column makes of the *)
(* parameter, as each adapter passes it on.                                *)

CellsInv ==
  /\ column \in Declared
  /\ param \in Params(column) \cup {Null}
  /\ local = Affinity(column, Bound(param))
  /\ remote = Affinity(column, Encode(param))
  /\ copy \in {NotDumped, Affinity(column, SQLLiteral(Json(remote)))}

LEMMA CellsInvHolds == CellsSpec => []CellsInv
<1>1. CellsInit => CellsInv
  <2>1. Bound(Null) = Null /\ Encode(Null) = Null /\ Affinity(column, Null) = Null
    BY DEF Affinity, Bound, Encode, Null, Cell
  <2> QED
    BY <2>1 DEF CellsInit, CellsInv
<1>2. CellsInv /\ [CellsNext]_cells => CellsInv'
  <2> SUFFICES ASSUME CellsInv, [CellsNext]_cells PROVE CellsInv'
    OBVIOUS
  <2>1. CASE Put
    BY <2>1 DEF Put, CellsInv
  <2>2. CASE DumpValue
    BY <2>2 DEF DumpValue, CellsInv
  <2>3. CASE UNCHANGED cells
    BY <2>3 DEF cells, CellsInv
  <2> QED
    BY <2>1, <2>2, <2>3 DEF CellsNext
<1> QED
  BY <1>1, <1>2, PTL DEF CellsSpec

(* What both adapters have stored, and a copy of what D1 has.              *)
Stored(cell) == local = cell /\ remote = cell /\ copy \in {NotDumped, cell}

LEMMA StoredCells ==
  ASSUME CellsInv
  PROVE  \/ param = Null /\ Stored(Null)
         \/ /\ column = "INTEGER"
            /\ \E v \in Integral : param = Cell("int", v) /\ Stored(Cell("int", v))
         \/ /\ column = "BOOLEAN"
            /\ \E v \in {"0", "1"} : param = Cell("bool", v) /\ Stored(Cell("int", v))
         \/ /\ column = "REAL"
            /\ \E v \in Numbers : param = Cell("real", v) /\ Stored(Cell("real", v))
         \/ /\ column \in {"TEXT", "DATETIME"}
            /\ \E v \in Numbers \cup Words : param = Cell("text", v) /\ Stored(Cell("text", v))
<1> USE DEF CellsInv
<1>0. /\ \A class, val : Cell(class, val).class = class /\ Cell(class, val).val = val
      /\ Null.class = "null"
  BY DEF Cell, Null
<1>1. CASE param = Null
  <2>1. /\ Bound(Null) = Null /\ Encode(Null) = Null /\ Affinity(column, Null) = Null
        /\ Json(Null) = Null /\ SQLLiteral(Null) = Null
    BY <1>0 DEF Affinity, Bound, Encode, Json, SQLLiteral
  <2> QED
    BY <1>1, <2>1 DEF Stored
<1>2. CASE column = "INTEGER" /\ param # Null
  <2>1. PICK v \in Integral \ {"1e15"} : param = Cell("int", v)
    BY <1>2 DEF Params
  <2>2. Bound(param) = Cell("int", v) /\ Encode(param) = Cell("text", v)
    BY <1>0, <2>1 DEF Bound, Encode
  <2>3. Affinity(column, Cell("int", v)) = Cell("int", v) /\ Affinity(column, Cell("text", v)) = Cell("int", v)
    BY <1>0, <1>2 DEF Affinity, Numbers
  <2>4. SQLLiteral(Json(Cell("int", v))) = Cell("int", v)
    BY <1>0 DEF SQLLiteral, Json
  <2> QED
    BY <1>2, <2>1, <2>2, <2>3, <2>4 DEF Stored
<1>3. CASE column = "BOOLEAN" /\ param # Null
  <2>1. PICK v \in {"0", "1"} : param = Cell("bool", v)
    BY <1>3 DEF Params
  <2>0. v \in Integral \ {"1e15"}
    BY DEF Integral
  <2>2. Bound(param) = Cell("int", v) /\ Encode(param) = Cell("text", v)
    BY <1>0, <2>1 DEF Bound, Encode
  <2>3. Affinity(column, Cell("int", v)) = Cell("int", v) /\ Affinity(column, Cell("text", v)) = Cell("int", v)
    BY <1>0, <1>3, <2>0 DEF Affinity, Numbers
  <2>4. SQLLiteral(Json(Cell("int", v))) = Cell("int", v)
    BY <1>0, <2>0 DEF SQLLiteral, Json
  <2> QED
    BY <1>3, <2>1, <2>2, <2>3, <2>4 DEF Stored
<1>4. CASE column = "REAL" /\ param # Null
  <2>1. PICK v \in Numbers : param = Cell("real", v)
    BY <1>4 DEF Params
  <2>2. Bound(param) = Cell("real", v) /\ Encode(param) = Cell("text", v)
    BY <1>0, <2>1 DEF Bound, Encode
  <2>3. \A class \in {"int", "real", "text"} : Affinity(column, Cell(class, v)) = Cell("real", v)
    BY <1>0, <1>4 DEF Affinity
  <2>4. SQLLiteral(Json(Cell("real", v))) \in {Cell("int", v), Cell("real", v)}
    BY <1>0 DEF SQLLiteral, Json
  <2> QED
    BY <1>4, <2>1, <2>2, <2>3, <2>4 DEF Stored
<1>5. CASE column \in {"TEXT", "DATETIME"} /\ param # Null
  <2>1. PICK v \in Numbers \cup Words : param = Cell("text", v) /\ (column = "DATETIME" => v = "date")
    BY <1>5 DEF Params, Words
  <2>2. Bound(param) = Cell("text", v) /\ Encode(param) = Cell("text", v)
    BY <1>0, <2>1 DEF Bound, Encode
  <2>3. Affinity(column, Cell("text", v)) = Cell("text", v)
    BY <1>0, <1>5, <2>1 DEF Affinity, Numbers, Integral
  <2>4. SQLLiteral(Json(Cell("text", v))) = Cell("text", v)
    BY <1>0 DEF SQLLiteral, Json
  <2> QED
    BY <1>5, <2>1, <2>2, <2>3, <2>4 DEF Stored
<1> QED
  BY <1>1, <1>2, <1>3, <1>4, <1>5 DEF Declared

(* A value that was bound is answered alike by the accessors of both       *)
(* adapters, and by a local copy of what D1 has, for every declared type   *)
(* the repositories have columns of (database/sqlite.go, d1.go, dump.go).  *)
THEOREM AdaptersAlwaysAgree == CellsSpec => []AdaptersAgree
<1>1. CellsInv => AdaptersAgree
  <2> SUFFICES ASSUME CellsInv PROVE AdaptersAgree
    OBVIOUS
  <2>0. /\ \A class, val : Cell(class, val).class = class /\ Cell(class, val).val = val
        /\ Null.class = "null"
    BY DEF Cell, Null
  <2> USE DEF ReadLocal, ReadRemote, Expected, SQLiteInt, SQLiteFloat, SQLiteNullableFloat, SQLiteString,
          SQLiteNullableString, D1Int, D1Float, D1NullableFloat, D1String, D1NullableString, Zero, Json
  <2>1. column \in Declared
    BY DEF CellsInv
  <2>2. ASSUME NEW cell, Stored(cell),
               ReadLocal(cell) = Expected(param), ReadRemote(cell) = Expected(param)
        PROVE  AdaptersAgree
    BY <2>2 DEF Stored, AdaptersAgree
  <2>3. CASE param = Null /\ Stored(Null)
    <3>1. ReadLocal(Null) = Expected(Null) /\ ReadRemote(Null) = Expected(Null)
      BY <2>0, <2>1 DEF Declared
    <3> QED
      BY <2>2, <2>3, <3>1
  <2>4. CASE /\ column = "INTEGER"
             /\ \E v \in Integral : param = Cell("int", v) /\ Stored(Cell("int", v))
    <3>1. PICK v \in Integral : param = Cell("int", v) /\ Stored(Cell("int", v))
      BY <2>4
    <3>2. ReadLocal(Cell("int", v)) = Expected(param) /\ ReadRemote(Cell("int", v)) = Expected(param)
      BY <2>0, <2>4, <3>1 DEF Truncated, Integral
    <3> QED
      BY <2>2, <3>1, <3>2
  <2>5. CASE /\ column = "BOOLEAN"
             /\ \E v \in {"0", "1"} : param = Cell("bool", v) /\ Stored(Cell("int", v))
    <3>1. PICK v \in {"0", "1"} : param = Cell("bool", v) /\ Stored(Cell("int", v))
      BY <2>5
    <3>2. ReadLocal(Cell("int", v)) = Expected(param) /\ ReadRemote(Cell("int", v)) = Expected(param)
      BY <2>0, <2>5, <3>1 DEF Truncated
    <3> QED
      BY <2>2, <3>1, <3>2
  <2>6. CASE /\ column = "REAL"
             /\ \E v \in Numbers : param = Cell("real", v) /\ Stored(Cell("real", v))
    <3>1. PICK v \in Numbers : param = Cell("real", v) /\ Stored(Cell("real", v))
      BY <2>6
    <3>2. ReadLocal(Cell("real", v)) = Expected(param) /\ ReadRemote(Cell("real", v)) = Expected(param)
      BY <2>0, <2>6, <3>1
    <3> QED
      BY <2>2, <3>1, <3>2
  <2>7. CASE /\ column \in {"TEXT", "DATETIME"}
             /\ \E v \in Numbers \cup Words : param = Cell("text", v) /\ Stored(Cell("text", v))
    <3>1. PICK v \in Numbers \cup Words : param = Cell("text", v) /\ Stored(Cell("text", v))
      BY <2>7
    <3>2. ReadLocal(Cell("text", v)) = Expected(param) /\ ReadRemote(Cell("text", v)) = Expected(param)
      BY <2>0, <2>7, <3>1
    <3> QED
      BY <2>2, <3>1, <3>2
  <2> QED
    BY <2>3, <2>4, <2>5, <2>6, <2>7, StoredCells
<1> QED
  BY <1>1, CellsInvHolds, PTL
=============================================================================
