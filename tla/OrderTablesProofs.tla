------------------------- MODULE OrderTablesProofs -------------------------
(***************************************************************************)
(* What the statements of OrderTables do to a table, for every table, and  *)
(* what a change of the table of orders is to OrderLifecycle.              *)
(***************************************************************************)
EXTENDS Orders, TLAPS

IsTable(table) == DOMAIN table \subseteq Nat \ {0}
IsItemTable(table) == IsTable(table) /\ table \in [DOMAIN table -> ItemRow]

(* The id of an INSERT is a positive number above every id in use.         *)
LEMMA NextIdIsFresh ==
  ASSUME NEW table, IsTable(table), NEW id \in NextIds(table)
  PROVE  id \in Nat \ {0} /\ \A i \in DOMAIN table : i < id
BY DEF IsTable, NextIds

(* An inserted row is added under its id and every other row stays.        *)
LEMMA InsertRowShape ==
  ASSUME NEW table, NEW id, NEW row
  PROVE  /\ DOMAIN InsertRow(table, id, row) = DOMAIN table \cup {id}
         /\ InsertRow(table, id, row)[id] = row
         /\ \A i \in DOMAIN table : i # id => InsertRow(table, id, row)[i] = table[i]
BY DEF InsertRow

(* insertItems keeps the rows there are and adds the basket's lines, one   *)
(* row each, in order, under the ids from the first fresh one.             *)
LEMMA InsertLinesShape ==
  ASSUME NEW table, IsItemTable(table), NEW first \in NextIds(table),
         NEW id \in Nat, NEW serial \in Nat, NEW b \in Baskets,
         LineCount \in [Baskets -> Nat \ {0}]
  PROVE  LET after == InsertLines(table, first, id, serial, b)
             new == first .. first + LineCount[b] - 1
         IN /\ DOMAIN after = DOMAIN table \cup new
            /\ new \cap DOMAIN table = {}
            /\ first \in new
            /\ \A i \in DOMAIN table : after[i] = table[i]
            /\ \A i \in new : after[i] = ItemOf(id, serial, b, i - first + 1)
            /\ IsItemTable(after)
<1> DEFINE after == InsertLines(table, first, id, serial, b)
           new == first .. first + LineCount[b] - 1
<1>1. first \in Nat \ {0} /\ (\A i \in DOMAIN table : i < first)
  BY NextIdIsFresh DEF IsItemTable
<1>2. LineCount[b] \in Nat \ {0}
  OBVIOUS
<1>3. new \cap DOMAIN table = {} /\ first \in new /\ new \subseteq Nat \ {0}
  BY <1>1, <1>2 DEF IsItemTable, IsTable
<1>4. DOMAIN after = DOMAIN table \cup new
  BY DEF InsertLines
<1>5. \A i \in DOMAIN table : after[i] = table[i]
  BY DEF InsertLines
<1>6. \A i \in new : after[i] = ItemOf(id, serial, b, i - first + 1)
  BY <1>3 DEF InsertLines
<1>7. \A i \in new : after[i] \in ItemRow
  <2> TAKE i \in new
  <2>1. i - first + 1 \in Nat
    BY <1>1, <1>2
  <2>2. ItemOf(id, serial, b, i - first + 1) \in ItemRow
    BY <2>1 DEF ItemOf, ItemRow
  <2> HIDE DEF after
  <2> QED
    BY <1>6, <2>2
<1>8. after \in [DOMAIN after -> ItemRow]
  <2>1. \A i \in DOMAIN after : after[i] \in ItemRow
    BY <1>4, <1>5, <1>7 DEF IsItemTable
  <2> QED
    BY <2>1 DEF InsertLines
<1> HIDE DEF after, new
<1>9. IsItemTable(after)
  BY <1>3, <1>4, <1>8 DEF IsItemTable, IsTable
<1> QED
  BY <1>3, <1>4, <1>5, <1>6, <1>9 DEF after, new

(* Deleting the lines of an order leaves exactly the lines of the others.  *)
LEMMA DeleteLinesShape ==
  ASSUME NEW table, IsItemTable(table), NEW id
  PROVE  LET after == DeleteLines(table, id)
         IN /\ DOMAIN after = {i \in DOMAIN table : table[i].order # id}
            /\ \A i \in DOMAIN after : after[i] = table[i]
            /\ IsItemTable(after)
            /\ LinesOf(after, id) = {}
BY DEF DeleteLines, Restrict, LinesOf, IsItemTable, IsTable

(* Deleting a header in scope takes away that row at most.                 *)
LEMMA DeleteHeaderShape ==
  ASSUME NEW table, NEW id, NEW actor
  PROVE  LET after == DeleteHeader(table, id, actor)
         IN /\ DOMAIN after \subseteq DOMAIN table
            /\ DOMAIN table \ {id} \subseteq DOMAIN after
            /\ \A i \in DOMAIN after : after[i] = table[i]
BY DEF DeleteHeader, DeleteRow, Restrict

-----------------------------------------------------------------------------
(* The lifecycle: an order's life is its serial's, the status of the one   *)
(* row that carries it.                                                    *)

(* LifeOf, on the value of the table and the number of orders placed.      *)
LifeIn(table, n, serial) ==
  IF \E id \in DOMAIN table : table[id].serial = serial
  THEN table[CHOOSE id \in DOMAIN table : table[id].serial = serial].status
  ELSE IF serial <= n THEN "removed" ELSE "unplaced"

Distinct(table) ==
  \A i, j \in DOMAIN table : table[i].serial = table[j].serial => i = j

LEMMA LifeNow == \A s : LifeOf(s) = LifeIn(orders, placed, s)
BY DEF LifeOf, LifeIn, Live

LEMMA LifeNext == \A s : LifeOf(s)' = LifeIn(orders', placed', s)
BY DEF LifeOf, LifeIn, Live

LEMMA LifeOfRow ==
  ASSUME NEW table, Distinct(table), NEW n, NEW id \in DOMAIN table
  PROVE  LifeIn(table, n, table[id].serial) = table[id].status
<1> DEFINE s == table[id].serial
           c == CHOOSE i \in DOMAIN table : table[i].serial = s
<1>1. c \in DOMAIN table /\ table[c].serial = s
  OBVIOUS
<1>2. c = id
  BY <1>1 DEF Distinct
<1> QED
  BY <1>2 DEF LifeIn

LEMMA LifeOfNoRow ==
  ASSUME NEW table, NEW n, NEW s, \A id \in DOMAIN table : table[id].serial # s
  PROVE  LifeIn(table, n, s) = IF s <= n THEN "removed" ELSE "unplaced"
BY DEF LifeIn

(* Two tables in which the same rows carry a serial, with the same status, *)
(* agree on its life.                                                      *)
LEMMA LifeKept ==
  ASSUME NEW old, NEW new, Distinct(old), Distinct(new), NEW n, NEW m, NEW s,
         (s <= n) <=> (s <= m),
         \A i \in DOMAIN old : old[i].serial = s =>
           i \in DOMAIN new /\ new[i].serial = s /\ new[i].status = old[i].status,
         \A i \in DOMAIN new : new[i].serial = s => i \in DOMAIN old /\ old[i].serial = s
  PROVE  LifeIn(new, m, s) = LifeIn(old, n, s)
<1>1. CASE \E i \in DOMAIN old : old[i].serial = s
  BY <1>1, LifeOfRow
<1>2. CASE \A i \in DOMAIN old : old[i].serial # s
  <2>1. \A i \in DOMAIN new : new[i].serial # s
    BY <1>2
  <2> QED
    BY <1>2, <2>1, LifeOfNoRow
<1> QED
  BY <1>1, <1>2

lifeBar == [s \in Serials |-> LifeOf(s)]
LifeChanges(s) == LifeIn(orders', placed', s) # LifeIn(orders, placed, s)

LEMMA BarStutters ==
  ASSUME \A s \in Serials : ~ LifeChanges(s)
  PROVE  lifeBar' = lifeBar
BY LifeNow, LifeNext DEF lifeBar, LifeChanges, Serials

(* A step that changes the life of one serial at most.                     *)
LEMMA BarSteps ==
  ASSUME NEW o \in Serials, \A s \in Serials \ {o} : ~ LifeChanges(s)
  PROVE  /\ lifeBar[o] = LifeIn(orders, placed, o)
         /\ lifeBar' = [lifeBar EXCEPT ![o] = LifeIn(orders', placed', o)]
BY LifeNow, LifeNext DEF lifeBar, LifeChanges, Serials

(* What LifeOf relies on: a serial is of one order.                        *)
Numbered(table, n) ==
  /\ table \in [DOMAIN table -> OrderRow] /\ n \in Nat
  /\ Distinct(table)
  /\ \A id \in DOMAIN table : table[id].serial <= n

(* A step that keeps the serial and the status of every order is none.     *)
LEMMA LifeRests ==
  ASSUME Numbered(orders, placed), placed' = placed, Distinct(orders'),
         DOMAIN orders' = DOMAIN orders,
         \A i \in DOMAIN orders : /\ orders'[i].serial = orders[i].serial
                                  /\ orders'[i].status = orders[i].status
  PROVE  lifeBar' = lifeBar
<1>0. Distinct(orders)
  BY DEF Numbered
<1>1. ASSUME NEW s \in Serials
      PROVE  ~ LifeChanges(s)
  <2>1. (s <= placed) <=> (s <= placed')
    OBVIOUS
  <2> QED
    BY <1>0, <2>1, LifeKept DEF LifeChanges
<1> QED
  BY <1>1, BarStutters

(* A new row under the next serial is an order placed.                     *)
LEMMA LifePlaces ==
  ASSUME Numbered(orders, placed), placed' = placed + 1, Distinct(orders'),
         NEW id, id \notin DOMAIN orders, DOMAIN orders' = DOMAIN orders \cup {id},
         orders'[id].serial = placed + 1, orders'[id].status \in StoredStatuses,
         \A i \in DOMAIN orders : orders'[i] = orders[i]
  PROVE  lifeBar' = lifeBar \/ Lifecycle!Next
<1> DEFINE to == orders'[id].status
<1>1. /\ placed \in Nat
      /\ \A i \in DOMAIN orders : orders[i].serial \in Nat /\ orders[i].serial <= placed
      /\ Distinct(orders)
  BY DEF Numbered, OrderRow
<1>2. ASSUME NEW s \in Serials, s # placed + 1
      PROVE  ~ LifeChanges(s)
  <2>1. s \in Int
    BY OrdersAssumption DEF Serials
  <2>2. (s <= placed) <=> (s <= placed')
    BY <1>1, <1>2, <2>1
  <2> QED
    BY <1>1, <1>2, <2>2, LifeKept DEF LifeChanges
<1>3. CASE placed + 1 \notin Serials
  BY <1>2, <1>3, BarStutters
<1>4. CASE placed + 1 \in Serials
  <2>1. LifeIn(orders, placed, placed + 1) = "unplaced"
    BY <1>1, LifeOfNoRow
  <2>2. LifeIn(orders', placed', placed + 1) = to
    <3>1. id \in DOMAIN orders' /\ orders'[id].serial = placed + 1
      OBVIOUS
    <3> QED
      BY <3>1, LifeOfRow
  <2>3. to \in Lifecycle!Stored
    BY DEF StoredStatuses, Statuses, Lifecycle!Stored, Lifecycle!Open, Lifecycle!Terminal
  <2> HIDE DEF to
  <2>4. /\ lifeBar[placed + 1] = "unplaced"
        /\ lifeBar' = [lifeBar EXCEPT ![placed + 1] = to]
    BY <1>2, <1>4, <2>1, <2>2, BarSteps
  <2>5. Lifecycle!Place(placed + 1, to)
    BY <2>4 DEF Lifecycle!Place, lifeBar
  <2> QED
    BY <1>4, <2>3, <2>5 DEF Lifecycle!Next
<1> QED
  BY <1>3, <1>4

(* A row that goes, if one does, is an order removed.                      *)
LEMMA LifeRemoves ==
  ASSUME Numbered(orders, placed), placed' = placed, Distinct(orders'), NEW id,
         DOMAIN orders' \subseteq DOMAIN orders, DOMAIN orders \ {id} \subseteq DOMAIN orders',
         \A i \in DOMAIN orders' : orders'[i] = orders[i]
  PROVE  lifeBar' = lifeBar \/ Lifecycle!Next
<1>0. Distinct(orders)
  BY DEF Numbered
<1>1. CASE DOMAIN orders' = DOMAIN orders
  BY <1>1, LifeRests
<1>2. CASE DOMAIN orders' # DOMAIN orders
  <2> DEFINE o == orders[id].serial
  <2>1. id \in DOMAIN orders /\ id \notin DOMAIN orders' /\ orders[id] \in OrderRow
    BY <1>2 DEF Numbered
  <2>2. ASSUME NEW s \in Serials, s # o
        PROVE  ~ LifeChanges(s)
    BY <1>0, <2>2, LifeKept DEF LifeChanges
  <2>3. CASE o \notin Serials
    BY <2>2, <2>3, BarStutters
  <2>4. CASE o \in Serials
    <3>1. LifeIn(orders, placed, o) = orders[id].status
      BY <1>0, <2>1, LifeOfRow
    <3>2. \A i \in DOMAIN orders' : orders'[i].serial # o
      BY <1>0, <2>1 DEF Distinct
    <3>3. o <= placed'
      BY <2>1 DEF Numbered
    <3>4. LifeIn(orders', placed', o) = "removed"
      BY <3>2, <3>3, LifeOfNoRow
    <3>5. orders[id].status \in Lifecycle!Stored
      BY <2>1 DEF OrderRow, StoredStatuses, Statuses, Lifecycle!Stored, Lifecycle!Open,
                  Lifecycle!Terminal
    <3>6. /\ lifeBar[o] = orders[id].status
          /\ lifeBar' = [lifeBar EXCEPT ![o] = "removed"]
      BY <2>2, <2>4, <3>1, <3>4, BarSteps
    <3>7. Lifecycle!Remove(o)
      BY <3>5, <3>6 DEF Lifecycle!Remove, lifeBar
    <3> QED
      BY <2>4, <3>7 DEF Lifecycle!Next
  <2> QED
    BY <2>3, <2>4
<1> QED
  BY <1>1, <1>2

(* A status rewritten along validTransitions is a step of its order.       *)
LEMMA LifeMoves ==
  ASSUME Numbered(orders, placed), placed' = placed, Distinct(orders'),
         NEW id \in DOMAIN orders, DOMAIN orders' = DOMAIN orders,
         \A i \in DOMAIN orders : i # id => orders'[i] = orders[i],
         orders'[id].serial = orders[id].serial,
         IsValidTransition(orders[id].status, orders'[id].status)
  PROVE  lifeBar' = lifeBar \/ Lifecycle!Next
<1>0. Distinct(orders)
  BY DEF Numbered
<1>1. PICK o, from, to :
        o = orders[id].serial /\ from = orders[id].status /\ to = orders'[id].status
  OBVIOUS
<1>2. ASSUME NEW s \in Serials, s # o
      PROVE  ~ LifeChanges(s)
  <2>1. /\ \A i \in DOMAIN orders : orders[i].serial = s =>
             /\ i \in DOMAIN orders' /\ orders'[i].serial = s
             /\ orders'[i].status = orders[i].status
        /\ \A i \in DOMAIN orders' : orders'[i].serial = s =>
             i \in DOMAIN orders /\ orders[i].serial = s
    BY <1>1, <1>2
  <2>2. (s <= placed) <=> (s <= placed')
    OBVIOUS
  <2> QED
    BY <1>0, <2>1, <2>2, LifeKept DEF LifeChanges
<1>3. CASE o \notin Serials
  BY <1>2, <1>3, BarStutters
<1>4. CASE o \in Serials
  <2>1. LifeIn(orders, placed, o) = from
    BY <1>0, <1>1, LifeOfRow
  <2>2. LifeIn(orders', placed', o) = to
    <3>1. LifeIn(orders', placed', orders'[id].serial) = orders'[id].status
      BY LifeOfRow
    <3> QED
      BY <1>1, <3>1
  <2>3. lifeBar[o] = from /\ lifeBar' = [lifeBar EXCEPT ![o] = to]
    BY <1>2, <1>4, <2>1, <2>2, BarSteps
  <2>4. from \in Lifecycle!Open /\ (to = "cancelled" \/ to = Lifecycle!Forward[from])
    BY <1>1 DEF IsValidTransition, ValidTransitions, Lifecycle!Open, Lifecycle!Forward
  <2>5. Lifecycle!Cancel(o) \/ Lifecycle!Advance(o)
    BY <2>3, <2>4 DEF Lifecycle!Cancel, Lifecycle!Advance, lifeBar
  <2> QED
    BY <1>4, <2>5 DEF Lifecycle!Next
<1> QED
  BY <1>3, <1>4

LEMMA LifeBegins ==
  ASSUME DOMAIN orders = {}, placed = 0
  PROVE  Lifecycle!Init
BY OrdersAssumption DEF Lifecycle!Init, LifeOf, Live, Serials
=============================================================================
