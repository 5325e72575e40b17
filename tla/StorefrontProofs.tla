-------------------------- MODULE StorefrontProofs --------------------------
(***************************************************************************)
(* Theorems about the shop, for any number of customers, addresses,        *)
(* products, editors, shoppers and requests:                               *)
(*   the address book: one default, given up only by its owner, and no     *)
(*     row written but by a request of whose it is;                        *)
(*   the intake of orders beside the editors of the catalogue: what was    *)
(*     asked for is what is stored, at the prices of one catalogue;        *)
(*   the search index: it follows the table, and the pages of a search     *)
(*     walk all that is stored;                                            *)
(*   the export: no row twice, and none lost but to a deletion.            *)
(* The first are about Addresses alone, the others about Storefront.       *)
(***************************************************************************)
EXTENDS Storefront, TLAPS, FiniteSetTheorems, SequenceTheorems

-----------------------------------------------------------------------------
(***************************************************************************)
(* The address book.  That a customer has one default at most needs that a *)
(* request about to mark one has cleared the others (ReadyToWrite).        *)
(***************************************************************************)

(* A request that is about to mark an address as the default works         *)
(* statement by statement, and nobody who ran alone left another mark.     *)
ReadyToWrite ==
  \A r \in Requests : req[r].pc = "write" /\ req[r].isDefault =>
    /\ ~ atomic
    /\ ~ overlapped => \A i \in DOMAIN addresses :
         addresses[i].owner = req[r].owner => ~ IsDefault(addresses, i)

Alone ==
  ~ overlapped => \A r, s \in Requests : req[r] # Idle /\ req[s] # Idle => r = s

IInv == TypeOK /\ ReadyToWrite /\ Alone /\ OneDefault

LEMMA IdleType == Idle \in Request /\ Idle.pc = "idle" /\ ~ Idle.isDefault
BY DEF Idle, Request, Methods, Pcs

-----------------------------------------------------------------------------
(* The statements. *)

Marked(table, owner) ==
  {i \in DOMAIN table : table[i].owner = owner /\ IsDefault(table, i)}

Single(table) ==
  \A i, j \in DOMAIN table :
    /\ table[i].owner = table[j].owner
    /\ IsDefault(table, i) /\ IsDefault(table, j)
    => i = j

IsTable(table) == table \in [DOMAIN table -> Address]

(* Clearing leaves every row where and whose it is, marks nothing, and     *)
(* leaves no mark of the customer it is for.                               *)
LEMMA ClearDefaultsClears ==
  ASSUME NEW table, IsTable(table), NEW owner \in Customers
  PROVE  LET new == ClearDefaults(table, owner) IN
         /\ IsTable(new)
         /\ DOMAIN new = DOMAIN table
         /\ \A i \in DOMAIN table : new[i].owner = table[i].owner
         /\ \A i \in DOMAIN table : IsDefault(new, i) => IsDefault(table, i)
         /\ \A i \in DOMAIN table : table[i].owner = owner => ~ IsDefault(new, i)
BY DEF ClearDefaults, IsTable, Address, IsDefault

(* The last statement of a transaction writes a table.                     *)
LEMMA WriteKeepsTable ==
  ASSUME NEW table, IsTable(table), DOMAIN table \subseteq 1 .. last,
         last \in Nat, NEW q \in Request, q.owner \in Customers
  PROVE  LET new == Write(table, q) IN
         /\ IsTable(new)
         /\ DOMAIN new \subseteq
              1 .. (IF q.method = "CreateAddress" THEN last + 1 ELSE last)
<1> q.isDefault \in BOOLEAN
  BY DEF Request
<1>1. CASE q.method = "CreateAddress"
  <2> [owner |-> q.owner, isDefault |-> q.isDefault] \in Address
    BY DEF Address
  <2> QED
    BY <1>1 DEF Write, Insert, IsTable
<1>2. CASE q.method # "CreateAddress" /\ Owned(table, q.id, q.owner)
  <2>1. Write(table, q) = [table EXCEPT ![q.id].isDefault = q.isDefault]
    BY <1>2 DEF Write, SetDefault
  <2>2. table[q.id] \in Address
    BY <1>2 DEF Owned, IsTable
  <2>3. [table[q.id] EXCEPT !.isDefault = q.isDefault] \in Address
    BY <2>2 DEF Address
  <2> QED
    BY <1>2, <2>1, <2>3 DEF IsTable
<1>3. CASE q.method # "CreateAddress" /\ ~ Owned(table, q.id, q.owner)
  BY <1>3 DEF Write, SetDefault
<1> QED
  BY <1>1, <1>2, <1>3

(* The last statement of a transaction, on a table in which the customer   *)
(* has no mark if the request asks for one, leaves at most one mark each.  *)
LEMMA WriteKeepsSingle ==
  ASSUME NEW table, IsTable(table), Single(table), DOMAIN table \subseteq 1 .. last,
         last \in Nat, NEW q \in Request, q.owner \in Customers,
         q.isDefault => Marked(table, q.owner) = {}
  PROVE  LET new == Write(table, q) IN
         /\ IsTable(new)
         /\ Single(new)
         /\ DOMAIN new \subseteq
              1 .. (IF q.method = "CreateAddress" THEN last + 1 ELSE last)
<1> q.isDefault \in BOOLEAN
  BY DEF Request
<1>1. CASE q.method = "CreateAddress"
  <2> DEFINE row == [owner |-> q.owner, isDefault |-> q.isDefault]
             new == Insert(table, last + 1, row)
  <2>1. new = Write(table, q)
    BY <1>1 DEF Write
  <2>2. DOMAIN new = DOMAIN table \cup {last + 1} /\ last + 1 \notin DOMAIN table
    BY DEF Insert
  <2>3. \A i \in DOMAIN table : new[i] = table[i]
    BY <2>2 DEF Insert
  <2>4. new[last + 1] = row /\ row \in Address
    BY DEF Insert, Address
  <2>5. IsTable(new)
    BY <2>2, <2>3, <2>4 DEF Insert, IsTable
  <2>6. Single(new)
    BY <2>2, <2>3, <2>4 DEF Single, Marked, IsDefault
  <2> QED
    BY <1>1, <2>1, <2>2, <2>5, <2>6
<1>2. CASE q.method # "CreateAddress" /\ Owned(table, q.id, q.owner)
  <2> DEFINE new == [table EXCEPT ![q.id].isDefault = q.isDefault]
  <2>1. new = Write(table, q)
    BY <1>2 DEF Write, SetDefault
  <2>2. /\ DOMAIN new = DOMAIN table
        /\ \A i \in DOMAIN table : i # q.id => new[i] = table[i]
        /\ new[q.id] = [table[q.id] EXCEPT !.isDefault = q.isDefault]
    BY <1>2 DEF Owned
  <2>3. table[q.id] \in Address /\ table[q.id].owner = q.owner
    BY <1>2 DEF Owned, IsTable
  <2>4. new[q.id] \in Address /\ new[q.id].owner = q.owner /\ new[q.id].isDefault = q.isDefault
    BY <2>2, <2>3 DEF Address
  <2>5. IsTable(new)
    BY <2>2, <2>4 DEF IsTable
  <2>6. Single(new)
    BY <2>2, <2>3, <2>4 DEF Single, Marked, IsDefault
  <2> QED
    BY <1>2, <2>1, <2>2, <2>5, <2>6
<1>3. CASE q.method # "CreateAddress" /\ ~ Owned(table, q.id, q.owner)
  BY <1>3 DEF Write, SetDefault
<1> QED
  BY <1>1, <1>2, <1>3

-----------------------------------------------------------------------------
(* The steps. *)

LEMMA AcceptKeeps ==
  ASSUME IInv, NEW r \in Requests, NEW method \in Methods, NEW pc \in Pcs,
         NEW owner \in Customers, NEW id \in Nat, NEW isDefault \in BOOLEAN,
         pc = "write" => ~ isDefault,
         Accept(r, method, pc, owner, id, isDefault)
  PROVE  IInv'
<1> DEFINE q == [method |-> method, pc |-> pc, owner |-> owner, id |-> id,
                 isDefault |-> isDefault]
<1>1. /\ req' = [req EXCEPT ![r] = q] /\ req \in [Requests -> Request]
      /\ req[r] = Idle
      /\ UNCHANGED <<addresses, last, atomic>>
      /\ overlapped' = (overlapped \/ \E s \in Requests \ {r} : req[s] # Idle)
  BY DEF Accept, IInv, TypeOK
<1>2. q \in Request /\ q.owner \in Customers /\ (q.pc = "write" => ~ q.isDefault)
  BY DEF Request
<1>3. /\ req'[r] = q
      /\ \A s \in Requests : s # r => req'[s] = req[s]
  BY <1>1
<1> HIDE DEF q
<1>4. overlapped' \in BOOLEAN /\ (~ overlapped' => ~ overlapped)
  BY <1>1 DEF IInv, TypeOK
<1>5. TypeOK'
  BY <1>1, <1>2, <1>3, <1>4 DEF IInv, TypeOK
<1>6. ReadyToWrite'
  BY <1>1, <1>2, <1>3, <1>4 DEF IInv, ReadyToWrite, IsDefault
<1>7. Alone'
  BY <1>1, <1>3, <1>4 DEF Alone
<1>8. OneDefault'
  BY <1>1, <1>4 DEF IInv, OneDefault, IsDefault
<1> QED
  BY <1>5, <1>6, <1>7, <1>8 DEF IInv

LEMMA StartKeeps ==
  ASSUME IInv, NEW r \in Requests,
         \/ CreateAddress(r) \/ UpdateAddress(r)
         \/ SetDefaultAddress(r) \/ DeleteAddress(r)
  PROVE  IInv'
<1>1. \A id \in 1 .. last : id \in Nat
  BY DEF IInv, TypeOK
<1>2. CASE CreateAddress(r)
  <2> PICK owner \in Customers, isDefault \in BOOLEAN :
        Accept(r, "CreateAddress", FirstStatement(isDefault), owner, 0, isDefault)
    BY <1>2 DEF CreateAddress
  <2> FirstStatement(isDefault) \in Pcs /\ (FirstStatement(isDefault) = "write" => ~ isDefault)
    BY DEF FirstStatement, Pcs
  <2> "CreateAddress" \in Methods /\ 0 \in Nat
    BY DEF Methods
  <2> QED
    BY AcceptKeeps
<1>3. CASE UpdateAddress(r)
  <2> "UpdateAddress" \in Methods /\ "check" \in Pcs /\ "check" # "write"
    BY DEF Methods, Pcs
  <2> QED
    BY <1>1, <1>3, AcceptKeeps DEF UpdateAddress
<1>4. CASE SetDefaultAddress(r)
  <2> "SetDefaultAddress" \in Methods /\ "check" \in Pcs /\ "check" # "write"
    BY DEF Methods, Pcs
  <2> QED
    BY <1>1, <1>4, AcceptKeeps DEF SetDefaultAddress
<1>5. CASE DeleteAddress(r)
  <2> "DeleteAddress" \in Methods /\ "delete" \in Pcs /\ "delete" # "write"
    BY DEF Methods, Pcs
  <2> QED
    BY <1>1, <1>5, AcceptKeeps DEF DeleteAddress
<1> QED
  BY <1>2, <1>3, <1>4, <1>5

(* A step that ends request r and leaves a table with one mark a customer. *)
LEMMA FinishKeeps ==
  ASSUME IInv, NEW r \in Requests, req[r] # Idle,
         req' = [req EXCEPT ![r] = Idle],
         UNCHANGED <<atomic, overlapped>>,
         IsTable(addresses'), last' \in Nat, DOMAIN addresses' \subseteq 1 .. last',
         atomic \/ ~ overlapped => Single(addresses')
  PROVE  IInv'
<1>1. req'[r] = Idle /\ \A s \in Requests : s # r => req'[s] = req[s]
  BY DEF IInv, TypeOK
<1>2. TypeOK'
  BY <1>1, IdleType DEF IInv, TypeOK, IsTable
<1>3. ASSUME NEW s \in Requests, req'[s].pc = "write", req'[s].isDefault
      PROVE  ~ atomic /\ overlapped
  <2>1. s # r /\ req[s].pc = "write" /\ req[s].isDefault
    BY <1>1, <1>3, IdleType
  <2>2. req[s] # Idle
    BY <2>1, IdleType
  <2> QED
    BY <2>1, <2>2 DEF IInv, ReadyToWrite, Alone
<1>4. ReadyToWrite'
  BY <1>3 DEF ReadyToWrite
<1>5. Alone'
  BY <1>1 DEF IInv, Alone
<1>6. OneDefault'
  BY DEF OneDefault, Single
<1> QED
  BY <1>2, <1>4, <1>5, <1>6 DEF IInv

(* What the invariant says of the table, in the words of the lemmas.       *)
LEMMA TableNow ==
  ASSUME IInv
  PROVE  /\ IsTable(addresses) /\ last \in Nat /\ DOMAIN addresses \subseteq 1 .. last
         /\ atomic \/ ~ overlapped => Single(addresses)
BY DEF IInv, TypeOK, OneDefault, IsTable, Single

LEMMA CheckOwnerKeeps ==
  ASSUME IInv, NEW r \in Requests, CheckOwner(r)
  PROVE  IInv'
<1> DEFINE q == req[r]
           new == IF Owned(addresses, q.id, q.owner)
                  THEN [q EXCEPT !.pc = FirstStatement(q.isDefault)] ELSE Idle
<1>1. /\ q \in Request /\ q.pc = "check" /\ q # Idle /\ q.owner \in Customers
      /\ req' = [req EXCEPT ![r] = new]
      /\ UNCHANGED <<addresses, last, atomic, overlapped>>
  BY IdleType DEF CheckOwner, IInv, TypeOK
<1>2. FirstStatement(q.isDefault) \in Pcs /\ (FirstStatement(q.isDefault) = "write" => ~ q.isDefault)
  BY DEF FirstStatement, Pcs
<1>3. /\ new \in Request /\ (new # Idle => new.owner \in Customers)
      /\ new.pc = "write" => ~ new.isDefault
  BY <1>1, <1>2, IdleType DEF Request
<1>4. req'[r] = new /\ \A s \in Requests : s # r => req'[s] = req[s]
  BY <1>1 DEF IInv, TypeOK
<1>5. q # Idle
  BY <1>1
<1> HIDE DEF new
<1>6. TypeOK'
  BY <1>1, <1>3, <1>4 DEF IInv, TypeOK
<1>7. ReadyToWrite'
  BY <1>1, <1>3, <1>4 DEF IInv, ReadyToWrite, IsDefault
<1>8. Alone'
  BY <1>1, <1>4, <1>5 DEF IInv, Alone
<1>9. OneDefault'
  BY <1>1 DEF IInv, OneDefault, IsDefault
<1> QED
  BY <1>6, <1>7, <1>8, <1>9 DEF IInv

LEMMA DeleteStatementKeeps ==
  ASSUME IInv, NEW r \in Requests, DeleteStatement(r)
  PROVE  IInv'
<1>1. req[r] # Idle /\ req' = [req EXCEPT ![r] = Idle] /\ UNCHANGED <<last, atomic, overlapped>>
  BY IdleType DEF DeleteStatement
<1>2. /\ IsTable(addresses') /\ DOMAIN addresses' \subseteq 1 .. last'
      /\ atomic \/ ~ overlapped => Single(addresses')
  <2>1. CASE UNCHANGED addresses
    BY <1>1, <2>1, TableNow
  <2>2. CASE addresses' = Remove(addresses, req[r].id)
    <3>1. /\ DOMAIN addresses' \subseteq DOMAIN addresses
          /\ \A i \in DOMAIN addresses' : addresses'[i] = addresses[i]
          /\ addresses' = [i \in DOMAIN addresses' |-> addresses'[i]]
      BY <2>2 DEF Remove
    <3> QED
      BY <1>1, <3>1, TableNow DEF IsTable, Single, IsDefault
  <2> QED
    BY <2>1, <2>2 DEF DeleteStatement
<1> QED
  BY <1>1, <1>2, TableNow, FinishKeeps

LEMMA TransactionKeeps ==
  ASSUME IInv, NEW r \in Requests, Transaction(r)
  PROVE  IInv'
<1> DEFINE q == req[r]
           cleared == IF q.pc = "clear" THEN ClearDefaults(addresses, q.owner) ELSE addresses
<1>1. /\ atomic /\ q.pc \in {"clear", "write"} /\ addresses' = Write(cleared, q)
      /\ last' = (IF q.method = "CreateAddress" THEN last + 1 ELSE last)
      /\ req' = [req EXCEPT ![r] = Idle]
      /\ UNCHANGED <<atomic, overlapped>>
  BY DEF Transaction, Inserts
<1>2. q \in Request /\ q # Idle /\ q.owner \in Customers
  BY <1>1, IdleType DEF IInv, TypeOK
<1>3. q.pc = "write" => ~ q.isDefault
  BY <1>1 DEF IInv, ReadyToWrite
<1>4. /\ IsTable(cleared) /\ Single(cleared) /\ DOMAIN cleared \subseteq 1 .. last
      /\ q.isDefault => Marked(cleared, q.owner) = {}
  <2>1. CASE q.pc = "clear"
    <3>1. cleared = ClearDefaults(addresses, q.owner)
      BY <2>1
    <3> QED
      BY <1>1, <1>2, <3>1, TableNow, ClearDefaultsClears DEF Single, Marked
  <2>2. CASE q.pc = "write"
    BY <1>1, <1>3, <2>2, TableNow
  <2> QED
    BY <1>1, <2>1, <2>2
<1> HIDE DEF cleared
<1>5. /\ IsTable(addresses') /\ Single(addresses') /\ DOMAIN addresses' \subseteq 1 .. last'
  BY <1>1, <1>2, <1>4, TableNow, WriteKeepsSingle
<1>6. last' \in Nat
  BY <1>1, TableNow
<1> QED
  BY <1>1, <1>2, <1>5, <1>6, FinishKeeps

LEMMA ClearStatementKeeps ==
  ASSUME IInv, NEW r \in Requests, ClearStatement(r)
  PROVE  IInv'
<1> DEFINE q == req[r]
<1>1. /\ ~ atomic /\ q.pc = "clear" /\ q # Idle
      /\ addresses' = ClearDefaults(addresses, q.owner)
      /\ req' = [req EXCEPT ![r].pc = "write"]
      /\ UNCHANGED <<last, atomic, overlapped>>
  BY IdleType DEF ClearStatement
<1>2. q \in Request /\ q.owner \in Customers /\ req \in [Requests -> Request]
  BY <1>1 DEF IInv, TypeOK
<1>3. /\ req'[r] = [q EXCEPT !.pc = "write"]
      /\ \A s \in Requests : s # r => req'[s] = req[s]
  BY <1>1, <1>2
<1>4. req'[r] \in Request /\ req'[r].owner = q.owner
  BY <1>2, <1>3 DEF Request, Pcs
<1>5. /\ IsTable(addresses') /\ DOMAIN addresses' = DOMAIN addresses
      /\ \A i \in DOMAIN addresses : addresses'[i].owner = addresses[i].owner
      /\ \A i \in DOMAIN addresses : IsDefault(addresses', i) => IsDefault(addresses, i)
      /\ \A i \in DOMAIN addresses :
           addresses[i].owner = q.owner => ~ IsDefault(addresses', i)
  BY <1>1, <1>2, TableNow, ClearDefaultsClears
<1>6. TypeOK'
  BY <1>1, <1>2, <1>3, <1>4, <1>5 DEF IInv, TypeOK, IsTable
<1>7. ReadyToWrite'
  <2> SUFFICES ASSUME NEW s \in Requests, req'[s].pc = "write", req'[s].isDefault,
                      ~ overlapped, NEW i \in DOMAIN addresses,
                      addresses[i].owner = req'[s].owner
               PROVE  ~ IsDefault(addresses', i)
    BY <1>1, <1>5 DEF ReadyToWrite
  <2>1. CASE s = r
    BY <1>4, <1>5, <2>1
  <2>2. CASE s # r
    BY <1>3, <1>5, <2>2 DEF IInv, ReadyToWrite
  <2> QED
    BY <2>1, <2>2
<1>8. Alone'
  BY <1>1, <1>3 DEF IInv, Alone
<1>9. OneDefault'
  BY <1>1, <1>5, TableNow DEF OneDefault, Single
<1> QED
  BY <1>6, <1>7, <1>8, <1>9 DEF IInv

LEMMA WriteStatementKeeps ==
  ASSUME IInv, NEW r \in Requests, WriteStatement(r)
  PROVE  IInv'
<1> DEFINE q == req[r]
<1>1. /\ ~ atomic /\ q.pc = "write" /\ q # Idle /\ addresses' = Write(addresses, q)
      /\ last' = (IF q.method = "CreateAddress" THEN last + 1 ELSE last)
      /\ req' = [req EXCEPT ![r] = Idle]
      /\ UNCHANGED <<atomic, overlapped>>
  BY IdleType DEF WriteStatement, Inserts
<1>2. q \in Request /\ q.owner \in Customers
  BY <1>1 DEF IInv, TypeOK
<1>3. last' \in Nat
  BY <1>1, TableNow
<1>4. IsTable(addresses') /\ DOMAIN addresses' \subseteq 1 .. last'
  BY <1>1, <1>2, TableNow, WriteKeepsTable
<1>5. ASSUME ~ overlapped
      PROVE  Single(addresses')
  <2>1. q.isDefault => Marked(addresses, q.owner) = {}
    BY <1>1, <1>5 DEF IInv, ReadyToWrite, Marked
  <2> QED
    BY <1>1, <1>2, <1>5, <2>1, TableNow, WriteKeepsSingle
<1> QED
  BY <1>1, <1>3, <1>4, <1>5, FinishKeeps

LEMMA FailKeeps ==
  ASSUME IInv, NEW r \in Requests, Fail(r)
  PROVE  IInv'
BY TableNow, FinishKeeps DEF Fail

-----------------------------------------------------------------------------
LEMMA Initially == Init => IInv
<1> SUFFICES ASSUME Init
             PROVE  IInv
  OBVIOUS
<1>1. DOMAIN addresses = {} /\ addresses = [id \in {} |-> Idle]
  BY DEF Init
<1>2. req = [r \in Requests |-> Idle] /\ last = 0 /\ atomic \in BOOLEAN /\ overlapped = FALSE
  BY DEF Init
<1>3. TypeOK
  BY <1>1, <1>2, IdleType DEF TypeOK
<1>4. ReadyToWrite /\ Alone
  BY <1>2, IdleType DEF ReadyToWrite, Alone
<1>5. OneDefault
  BY <1>1 DEF OneDefault
<1> QED
  BY <1>3, <1>4, <1>5 DEF IInv

LEMMA Inductive == IInv /\ [Next]_vars => IInv'
<1> SUFFICES ASSUME IInv, [Next]_vars
             PROVE  IInv'
  OBVIOUS
<1>1. CASE UNCHANGED vars
  BY <1>1 DEF vars, IInv, TypeOK, ReadyToWrite, Alone, OneDefault, IsDefault
<1>2. ASSUME NEW r \in Requests, Step(r)
      PROVE  IInv'
  BY <1>2, StartKeeps, CheckOwnerKeeps, DeleteStatementKeeps, TransactionKeeps,
     ClearStatementKeeps, WriteStatementKeeps, FailKeeps DEF Step
<1> QED
  BY <1>1, <1>2 DEF Next

(* A customer never has two default addresses on SQLite, nor on D1 as long *)
(* as the requests of the address book did not overlap.                    *)
THEOREM AtMostOneDefault == Spec => []OneDefault
<1>1. IInv => OneDefault
  BY DEF IInv
<1> QED
  BY Initially, Inductive, <1>1, PTL DEF Spec
-----------------------------------------------------------------------------
(* Whose rows a step writes. *)

(* A table that differs from another only in rows of one customer.         *)
OnlyOf(owner, table, new) ==
  \A i \in DOMAIN table :
    table[i].owner # owner => i \in DOMAIN new /\ new[i] = table[i]

LEMMA ClearDefaultsOfOwner ==
  ASSUME NEW table, NEW owner
  PROVE  LET new == ClearDefaults(table, owner) IN
         /\ OnlyOf(owner, table, new)
         /\ DOMAIN new = DOMAIN table
BY DEF ClearDefaults, OnlyOf

(* An insert takes an id no row has; an update looks at the owner again.   *)
LEMMA WriteOfOwner ==
  ASSUME NEW table, DOMAIN table \subseteq 1 .. last, last \in Nat, NEW q
  PROVE  OnlyOf(q.owner, table, Write(table, q))
<1>1. CASE q.method = "CreateAddress"
  BY <1>1 DEF Write, Insert, OnlyOf
<1>2. CASE q.method # "CreateAddress"
  BY <1>2 DEF Write, SetDefault, Owned, OnlyOf
<1> QED
  BY <1>1, <1>2

(* A step of request r that writes only rows of r's customer.              *)
LEMMA StepOfOwner ==
  ASSUME NEW r \in Requests, req'[r] # req[r],
         OnlyOf(req[r].owner, addresses, addresses')
  PROVE  \A id \in DOMAIN addresses :
           (id \in DOMAIN addresses' => addresses'[id] # addresses[id])
             => \E s \in Requests :
                  req'[s] # req[s] /\ req[s].owner = addresses[id].owner
BY DEF OnlyOf

LEMMA RowsStep ==
  ASSUME IInv, NEW r \in Requests, Step(r)
  PROVE  \/ UNCHANGED addresses
         \/ req'[r] # req[r] /\ OnlyOf(req[r].owner, addresses, addresses')
<1> DEFINE q == req[r]
<1>0. q \in Request /\ req \in [Requests -> Request]
      /\ DOMAIN addresses \subseteq 1 .. last /\ last \in Nat
  BY DEF IInv, TypeOK
<1>1. CASE DeleteStatement(r)
  <2>1. req'[r] = Idle /\ q.pc = "delete"
    BY <1>0, <1>1 DEF DeleteStatement
  <2>2. q # Idle
    BY <2>1, IdleType
  <2>3. UNCHANGED addresses \/ OnlyOf(q.owner, addresses, addresses')
    BY <1>1 DEF DeleteStatement, Owned, Remove, OnlyOf
  <2> QED
    BY <2>1, <2>2, <2>3
<1>2. CASE Transaction(r)
  <2> DEFINE cleared == IF q.pc = "clear" THEN ClearDefaults(addresses, q.owner)
                        ELSE addresses
  <2>1. req'[r] = Idle /\ q.pc \in {"clear", "write"} /\ addresses' = Write(cleared, q)
    BY <1>0, <1>2 DEF Transaction
  <2>2. q # Idle
    BY <2>1, IdleType
  <2>3. OnlyOf(q.owner, addresses, cleared) /\ DOMAIN cleared = DOMAIN addresses
        /\ \A i \in DOMAIN addresses : addresses[i].owner # q.owner => cleared[i] = addresses[i]
    BY ClearDefaultsOfOwner DEF OnlyOf
  <2>4. OnlyOf(q.owner, cleared, addresses')
    <3> HIDE DEF cleared, q
    <3> QED
      BY <1>0, <2>1, <2>3, WriteOfOwner
  <2>5. OnlyOf(q.owner, addresses, addresses')
    <3> HIDE DEF cleared, q
    <3> QED
      BY <2>3, <2>4 DEF OnlyOf
  <2> QED
    BY <2>1, <2>2, <2>5
<1>3. CASE ClearStatement(r)
  <2>1. q.pc = "clear" /\ addresses' = ClearDefaults(addresses, q.owner)
        /\ req' = [req EXCEPT ![r].pc = "write"]
    BY <1>3 DEF ClearStatement
  <2>2. req'[r] # q
    BY <1>0, <2>1 DEF Request
  <2> QED
    BY <2>1, <2>2, ClearDefaultsOfOwner
<1>4. CASE WriteStatement(r)
  <2>1. req'[r] = Idle /\ q.pc = "write" /\ addresses' = Write(addresses, q)
    BY <1>0, <1>4 DEF WriteStatement
  <2>2. q # Idle
    BY <2>1, IdleType
  <2> QED
    BY <1>0, <2>1, <2>2, WriteOfOwner
<1>5. CASE CreateAddress(r) \/ UpdateAddress(r) \/ SetDefaultAddress(r)
           \/ DeleteAddress(r) \/ CheckOwner(r) \/ Fail(r)
  BY <1>5 DEF CreateAddress, UpdateAddress, SetDefaultAddress, DeleteAddress, CheckOwner,
              Fail, Accept
<1> QED
  BY <1>1, <1>2, <1>3, <1>4, <1>5 DEF Step

(* An address changes or goes only in a step of a request of the customer  *)
(* it belongs to, on either adapter: clearing the old default, the write   *)
(* an old ownership answer allowed and a delete all name the owner.        *)
THEOREM OwnersOnly == Spec => RowsAnswerToOwner
<1>1. IInv /\ [Next]_vars =>
        [\A id \in DOMAIN addresses :
           (id \in DOMAIN addresses' => addresses'[id] # addresses[id])
             => \E r \in Requests :
                  req'[r] # req[r] /\ req[r].owner = addresses[id].owner]_vars
  <2> SUFFICES ASSUME IInv, NEW r \in Requests, Step(r)
               PROVE  \A id \in DOMAIN addresses :
                        (id \in DOMAIN addresses' => addresses'[id] # addresses[id])
                          => \E s \in Requests :
                               req'[s] # req[s] /\ req[s].owner = addresses[id].owner
    BY DEF Next
  <2> QED
    BY RowsStep, StepOfOwner
<1>2. Spec => []IInv
  BY Initially, Inductive, PTL DEF Spec
<1> QED
  BY <1>1, <1>2, PTL DEF Spec, RowsAnswerToOwner

-----------------------------------------------------------------------------
(***************************************************************************)
(* Giving up a default.  A transaction that sets one clears the mark of    *)
(* its customer first, so that the customer is left without only if the    *)
(* row it then marks is not found.  That this row is gone, and not         *)
(* somebody else's, needs that what the ownership query found stays true   *)
(* of every row there still is (Checked): ids are not given out again and  *)
(* rows do not change hands.                                               *)
(***************************************************************************)

Checked(q, table, n) ==
  q.pc \in {"clear", "write"} /\ q.method # "CreateAddress" =>
    /\ q.id \in 0 .. n
    /\ q.id \in DOMAIN table => table[q.id].owner = q.owner

FitsMethod(q) ==
  /\ q.pc = "delete" => q.method = "DeleteAddress" /\ ~ q.isDefault
  /\ q.pc = "check" => q.method # "CreateAddress" /\ q.id \in 0 .. last
  /\ q.pc = "clear" => q.isDefault

Findings == \A r \in Requests : FitsMethod(req[r]) /\ Checked(req[r], addresses, last)

(* A table whose rows up to n are rows of another, of the same owners.     *)
SameOwners(table, new, n) ==
  \A i \in DOMAIN new : i <= n => i \in DOMAIN table /\ new[i].owner = table[i].owner

LEMMA CheckedStays ==
  ASSUME NEW q, NEW table, NEW new, NEW n \in Nat, NEW m \in {n, n + 1},
         Checked(q, table, n), SameOwners(table, new, n)
  PROVE  Checked(q, new, m)
<1> SUFFICES ASSUME q.pc \in {"clear", "write"}, q.method # "CreateAddress"
             PROVE  /\ q.id \in 0 .. m
                    /\ q.id \in DOMAIN new => new[q.id].owner = q.owner
  BY DEF Checked
<1>1. q.id \in 0 .. n /\ (q.id \in DOMAIN table => table[q.id].owner = q.owner)
  BY DEF Checked
<1> QED
  BY <1>1 DEF SameOwners

LEMMA WriteSameOwners ==
  ASSUME NEW table, IsTable(table), DOMAIN table \subseteq 1 .. last, last \in Nat, NEW q
  PROVE  SameOwners(table, Write(table, q), last)
<1>1. CASE q.method = "CreateAddress"
  <2>1. \A i \in DOMAIN Write(table, q) :
          \/ i = last + 1
          \/ i \in DOMAIN table /\ Write(table, q)[i] = table[i]
    BY <1>1 DEF Write, Insert
  <2> QED
    BY <2>1 DEF SameOwners
<1>2. CASE q.method # "CreateAddress" /\ Owned(table, q.id, q.owner)
  <2>1. Write(table, q) = [table EXCEPT ![q.id].isDefault = q.isDefault]
    BY <1>2 DEF Write, SetDefault
  <2> QED
    BY <2>1 DEF SameOwners, IsTable, Address
<1>3. CASE q.method # "CreateAddress" /\ ~ Owned(table, q.id, q.owner)
  BY <1>3 DEF Write, SetDefault, SameOwners
<1> QED
  BY <1>1, <1>2, <1>3

LEMMA StepSameOwners ==
  ASSUME IInv, NEW r \in Requests, Step(r)
  PROVE  SameOwners(addresses, addresses', last) /\ last' \in {last, last + 1}
<1> DEFINE q == req[r]
<1>0. IsTable(addresses) /\ last \in Nat /\ DOMAIN addresses \subseteq 1 .. last
      /\ q \in Request
  BY TableNow DEF IInv, TypeOK
<1>1. CASE DeleteStatement(r)
  BY <1>1 DEF DeleteStatement, Remove, SameOwners
<1>2. CASE Transaction(r)
  <2> DEFINE cleared == IF q.pc = "clear" THEN ClearDefaults(addresses, q.owner)
                        ELSE addresses
  <2>1. addresses' = Write(cleared, q) /\ last' \in {last, last + 1}
        /\ q.pc \in {"clear", "write"}
    BY <1>2 DEF Transaction, Inserts
  <2>2. q.owner \in Customers
    BY <2>1, IdleType DEF IInv, TypeOK
  <2>3. /\ IsTable(cleared) /\ DOMAIN cleared = DOMAIN addresses
        /\ \A i \in DOMAIN addresses : cleared[i].owner = addresses[i].owner
    BY <1>0, <2>2, ClearDefaultsClears
  <2> HIDE DEF cleared, q
  <2>4. SameOwners(cleared, Write(cleared, q), last)
    BY <1>0, <2>3, WriteSameOwners
  <2> QED
    BY <2>1, <2>3, <2>4 DEF SameOwners
<1>3. CASE ClearStatement(r)
  <2>1. addresses' = ClearDefaults(addresses, q.owner) /\ last' = last /\ q.pc = "clear"
    BY <1>3 DEF ClearStatement
  <2>2. q.owner \in Customers
    BY <2>1, IdleType DEF IInv, TypeOK
  <2> QED
    BY <1>0, <2>1, <2>2, ClearDefaultsClears DEF SameOwners
<1>4. CASE WriteStatement(r)
  <2>1. addresses' = Write(addresses, q) /\ last' \in {last, last + 1}
    BY <1>4 DEF WriteStatement, Inserts
  <2> HIDE DEF q
  <2> QED
    BY <1>0, <2>1, WriteSameOwners
<1>5. CASE CreateAddress(r) \/ UpdateAddress(r) \/ SetDefaultAddress(r)
           \/ DeleteAddress(r) \/ CheckOwner(r) \/ Fail(r)
  BY <1>5 DEF CreateAddress, UpdateAddress, SetDefaultAddress, DeleteAddress, CheckOwner,
              Fail, Accept, SameOwners
<1> QED
  BY <1>1, <1>2, <1>3, <1>4, <1>5 DEF Step

LEMMA IdleFits ==
  ASSUME NEW table, NEW n
  PROVE  FitsMethod(Idle) /\ Checked(Idle, table, n)
BY IdleType DEF FitsMethod, Checked

(* What the request of a step becomes.                                     *)
LEMMA FindingsOfStep ==
  ASSUME IInv, Findings, NEW r \in Requests, Step(r)
  PROVE  \E n : /\ req' = [req EXCEPT ![r] = n]
                /\ FitsMethod(n) /\ Checked(n, addresses, last)
<1> DEFINE q == req[r]
<1>0. q \in Request /\ last \in Nat /\ FitsMethod(q) /\ Checked(q, addresses, last)
  BY DEF IInv, TypeOK, Findings
<1>1. CASE CreateAddress(r)
  <2>1. PICK owner \in Customers, isDefault \in BOOLEAN :
          Accept(r, "CreateAddress", FirstStatement(isDefault), owner, 0, isDefault)
    BY <1>1 DEF CreateAddress
  <2>2. PICK n : n = [method |-> "CreateAddress", pc |-> FirstStatement(isDefault),
                      owner |-> owner, id |-> 0, isDefault |-> isDefault]
    OBVIOUS
  <2>3. FitsMethod(n) /\ Checked(n, addresses, last) /\ req' = [req EXCEPT ![r] = n]
    BY <2>1, <2>2 DEF FirstStatement, FitsMethod, Checked, Accept
  <2> QED
    BY <2>3
<1>2. CASE UpdateAddress(r) \/ SetDefaultAddress(r)
  <2>1. PICK method \in {"UpdateAddress", "SetDefaultAddress"}, owner \in Customers,
             id \in 1 .. last, isDefault \in BOOLEAN :
          Accept(r, method, "check", owner, id, isDefault)
    BY <1>2 DEF UpdateAddress, SetDefaultAddress
  <2>2. PICK n : n = [method |-> method, pc |-> "check",
                      owner |-> owner, id |-> id, isDefault |-> isDefault]
    OBVIOUS
  <2>3. FitsMethod(n) /\ Checked(n, addresses, last) /\ req' = [req EXCEPT ![r] = n]
    BY <1>0, <2>1, <2>2 DEF FitsMethod, Checked, Accept
  <2> QED
    BY <2>3
<1>3. CASE DeleteAddress(r)
  <2>1. PICK owner \in Customers, id \in 1 .. last :
          Accept(r, "DeleteAddress", "delete", owner, id, FALSE)
    BY <1>3 DEF DeleteAddress
  <2>2. PICK n : n = [method |-> "DeleteAddress", pc |-> "delete",
                      owner |-> owner, id |-> id, isDefault |-> FALSE]
    OBVIOUS
  <2>3. FitsMethod(n) /\ Checked(n, addresses, last) /\ req' = [req EXCEPT ![r] = n]
    BY <2>1, <2>2 DEF FitsMethod, Checked, Accept
  <2> QED
    BY <2>3
<1>4. CASE CheckOwner(r)
  <2>1. CASE Owned(addresses, q.id, q.owner)
    <3> DEFINE n == [q EXCEPT !.pc = FirstStatement(q.isDefault)]
    <3>1. req' = [req EXCEPT ![r] = n] /\ q.pc = "check"
      BY <1>4, <2>1 DEF CheckOwner
    <3>2. /\ n.pc = FirstStatement(q.isDefault) /\ n.method = q.method
          /\ n.id = q.id /\ n.owner = q.owner /\ n.isDefault = q.isDefault
      BY <1>0 DEF Request
    <3> HIDE DEF n
    <3>3. FitsMethod(n) /\ Checked(n, addresses, last)
      BY <1>0, <2>1, <3>1, <3>2 DEF FirstStatement, FitsMethod, Checked, Owned
    <3> QED
      BY <3>1, <3>3
  <2>2. CASE ~ Owned(addresses, q.id, q.owner)
    BY <1>4, <2>2, IdleFits DEF CheckOwner
  <2> QED
    BY <2>1, <2>2
<1>5. CASE ClearStatement(r)
  <2> DEFINE n == [q EXCEPT !.pc = "write"]
  <2>1. req' = [req EXCEPT ![r] = n] /\ q.pc = "clear"
    BY <1>5 DEF ClearStatement
  <2>2. /\ n.pc = "write" /\ n.method = q.method
        /\ n.id = q.id /\ n.owner = q.owner /\ n.isDefault = q.isDefault
    BY <1>0 DEF Request
  <2> HIDE DEF n
  <2>3. FitsMethod(n) /\ Checked(n, addresses, last)
    BY <1>0, <2>1, <2>2 DEF FitsMethod, Checked
  <2> QED
    BY <2>1, <2>3
<1>6. CASE DeleteStatement(r) \/ Transaction(r) \/ WriteStatement(r) \/ Fail(r)
  <2>1. req' = [req EXCEPT ![r] = Idle]
    BY <1>6 DEF DeleteStatement, Transaction, WriteStatement, Fail
  <2> QED
    BY <2>1, IdleFits
<1> QED
  BY <1>1, <1>2, <1>3, <1>4, <1>5, <1>6 DEF Step

LEMMA FindingsStep == IInv /\ Findings /\ [Next]_vars => Findings'
<1> SUFFICES ASSUME IInv, Findings, [Next]_vars
             PROVE  Findings'
  OBVIOUS
<1>1. CASE UNCHANGED vars
  BY <1>1 DEF vars, Findings, FitsMethod, Checked
<1>2. ASSUME NEW r \in Requests, Step(r)
      PROVE  Findings'
  <2>1. SameOwners(addresses, addresses', last) /\ last' \in {last, last + 1} /\ last \in Nat
    BY <1>2, StepSameOwners, TableNow
  <2>2. PICK n : req' = [req EXCEPT ![r] = n] /\ FitsMethod(n) /\ Checked(n, addresses, last)
    BY <1>2, FindingsOfStep
  <2>3. ASSUME NEW s \in Requests
        PROVE  Checked(req'[s], addresses', last')
    <3>1. Checked(req'[s], addresses, last)
      BY <2>2 DEF Findings, IInv, TypeOK
    <3> QED
      BY <2>1, <3>1, CheckedStays
  <2>4. ASSUME NEW s \in Requests
        PROVE  FitsMethod(req'[s])
    BY <2>2 DEF Findings, IInv, TypeOK
  <2>5. ASSUME NEW s \in Requests
        PROVE  FitsMethod(req[s])'
    BY <2>1, <2>4 DEF FitsMethod
  <2> QED
    BY <2>3, <2>5 DEF Findings
<1> QED
  BY <1>1, <1>2 DEF Next

-----------------------------------------------------------------------------
(* Who is left without a default by a statement. *)

LEMMA MarkSurvives ==
  ASSUME NEW table, NEW new, NEW owner, NEW other, OnlyOf(owner, table, new),
         owner # other, HasDefault(table, other)
  PROVE  HasDefault(new, other)
BY DEF HasDefault, OnlyOf, IsDefault

LEMMA CreateLeavesMark ==
  ASSUME NEW table, DOMAIN table \subseteq 1 .. last, last \in Nat, NEW q,
         q.method = "CreateAddress", q.isDefault \/ HasDefault(table, q.owner)
  PROVE  HasDefault(Write(table, q), q.owner)
<1> DEFINE row == [owner |-> q.owner, isDefault |-> q.isDefault]
           new == Insert(table, last + 1, row)
<1>1. Write(table, q) = new
  BY DEF Write
<1>2. /\ last + 1 \in DOMAIN new /\ new[last + 1] = row
      /\ \A i \in DOMAIN table : i \in DOMAIN new /\ new[i] = table[i]
  BY DEF Insert
<1>3. row.owner = q.owner /\ row.isDefault = q.isDefault
  OBVIOUS
<1> HIDE DEF new, row
<1> QED
  BY <1>1, <1>2, <1>3 DEF HasDefault, IsDefault

LEMMA UpdateLeavesMark ==
  ASSUME NEW table, IsTable(table), NEW q, q.method # "CreateAddress",
         q.isDefault \in BOOLEAN
  PROVE  /\ q.isDefault /\ Owned(table, q.id, q.owner) => HasDefault(Write(table, q), q.owner)
         /\ HasDefault(table, q.owner) /\ ~ HasDefault(Write(table, q), q.owner)
              => Owned(table, q.id, q.owner) /\ ~ q.isDefault /\ IsDefault(table, q.id)
<1>1. CASE Owned(table, q.id, q.owner)
  <2> DEFINE row == [table[q.id] EXCEPT !.isDefault = q.isDefault]
             new == [table EXCEPT ![q.id] = row]
  <2>1. Write(table, q) = new /\ q.id \in DOMAIN table /\ table[q.id].owner = q.owner
        /\ table[q.id] \in Address
    BY <1>1 DEF Write, SetDefault, Owned, IsTable
  <2>2. row.owner = q.owner /\ row.isDefault = q.isDefault
    BY <2>1 DEF Address
  <2>3. /\ DOMAIN new = DOMAIN table /\ new[q.id] = row
        /\ \A i \in DOMAIN table : i # q.id => new[i] = table[i]
    BY <2>1
  <2> HIDE DEF new, row
  <2> QED
    BY <1>1, <2>1, <2>2, <2>3 DEF HasDefault, IsDefault
<1>2. CASE ~ Owned(table, q.id, q.owner)
  BY <1>2 DEF Write, SetDefault
<1> QED
  BY <1>1, <1>2

LEMMA GivingUp ==
  ASSUME IInv, Findings, atomic, NEW r \in Requests, Step(r), NEW owner \in Customers,
         HasDefault(addresses, owner), ~ HasDefault(addresses', owner)
  PROVE  /\ req'[r] # req[r]
         /\ req[r].owner = owner
         /\ req[r].method # "CreateAddress"
         /\ req[r].id \in DOMAIN addresses
              => ~ req[r].isDefault /\ IsDefault(addresses, req[r].id)
<1>1. PICK q : q = req[r]
  OBVIOUS
<1>2. /\ q \in Request /\ q.isDefault \in BOOLEAN
      /\ FitsMethod(q) /\ Checked(q, addresses, last)
  BY <1>1 DEF IInv, TypeOK, Findings, Request
<1>3. req'[r] # q /\ OnlyOf(q.owner, addresses, addresses')
  BY <1>1, RowsStep
<1>4. q.owner = owner
  BY <1>3, MarkSurvives
<1>5. DeleteStatement(r) \/ Transaction(r)
  BY DEF Step, CreateAddress, UpdateAddress, SetDefaultAddress, DeleteAddress, CheckOwner,
         ClearStatement, WriteStatement, Fail, Accept
<1>6. CASE DeleteStatement(r)
  <2>1. q.pc = "delete" /\ addresses' = Remove(addresses, q.id)
    BY <1>1, <1>6 DEF DeleteStatement
  <2>2. PICK i \in DOMAIN addresses : addresses[i].owner = owner /\ IsDefault(addresses, i)
    BY DEF HasDefault
  <2>3. i = q.id
    BY <2>1, <2>2 DEF Remove, HasDefault, IsDefault
  <2>4. q.method = "DeleteAddress" /\ ~ q.isDefault
    BY <1>2, <2>1 DEF FitsMethod
  <2> QED
    BY <1>1, <1>3, <1>4, <2>2, <2>3, <2>4
<1>7. CASE Transaction(r)
  <2>1. q.pc \in {"clear", "write"} /\ owner \in Customers
    BY <1>1, <1>7 DEF Transaction
  <2>2. IsTable(addresses) /\ last \in Nat /\ DOMAIN addresses \subseteq 1 .. last
    BY TableNow
  <2>3. CASE q.pc = "write"
    <3>1. ~ q.isDefault /\ addresses' = Write(addresses, q)
      BY <1>1, <1>7, <2>3 DEF Transaction, IInv, ReadyToWrite
    <3>2. q.method # "CreateAddress"
      BY <1>4, <2>2, <3>1, CreateLeavesMark
    <3>3. IsDefault(addresses, q.id)
      BY <1>2, <1>4, <2>2, <3>1, <3>2, UpdateLeavesMark
    <3> QED
      BY <1>1, <1>3, <1>4, <3>1, <3>2, <3>3
  <2>4. CASE q.pc = "clear"
    <3>1. PICK cleared : cleared = ClearDefaults(addresses, q.owner)
      OBVIOUS
    <3>2. q.isDefault /\ addresses' = Write(cleared, q)
      BY <1>1, <1>2, <1>7, <2>4, <3>1 DEF Transaction, FitsMethod
    <3>3. /\ IsTable(cleared) /\ DOMAIN cleared = DOMAIN addresses
          /\ \A i \in DOMAIN addresses : cleared[i].owner = addresses[i].owner
      BY <1>4, <2>2, <3>1, ClearDefaultsClears
    <3>4. q.method # "CreateAddress"
      BY <1>4, <2>2, <3>2, <3>3, CreateLeavesMark
    <3>5. ~ Owned(cleared, q.id, q.owner)
      BY <1>2, <1>4, <3>2, <3>3, <3>4, UpdateLeavesMark
    <3>6. q.id \notin DOMAIN addresses
      BY <1>2, <2>4, <3>3, <3>4, <3>5 DEF Checked, Owned
    <3> QED
      BY <1>1, <1>3, <1>4, <3>4, <3>6
  <2> QED
    BY <2>1, <2>3, <2>4
<1> QED
  BY <1>5, <1>6, <1>7

(* A shopper on SQLite who has a default address is left without only by   *)
(* giving it up (repository.go SetDefaultAddress, UpdateAddress,           *)
(* CreateAddress): a transaction that moves the mark loses it only when    *)
(* the row to be marked was deleted after the ownership query.             *)
THEOREM DefaultsAreGivenUp == Spec => DefaultsGivenUpOnly
<1>1. IInv /\ Findings /\ [Next]_vars =>
        [atomic => \A owner \in Customers :
           HasDefault(addresses, owner) /\ ~ HasDefault(addresses', owner)
             => \E r \in Requests :
                  /\ req'[r] # req[r]
                  /\ req[r].owner = owner
                  /\ req[r].method # "CreateAddress"
                  /\ req[r].id \in DOMAIN addresses
                       => ~ req[r].isDefault /\ IsDefault(addresses, req[r].id)]_vars
  BY GivingUp DEF Next
<1>2. Init => Findings
  BY IdleFits DEF Init, Findings
<1>3. Spec => [](IInv /\ Findings)
  BY <1>2, Initially, Inductive, FindingsStep, PTL DEF Spec
<1> QED
  BY <1>1, <1>3, PTL DEF Spec, DefaultsGivenUpOnly

-----------------------------------------------------------------------------
(***************************************************************************)
(* Orders as they are taken in.  That an order stands needs that ids of    *)
(* products are given out above all others (CatalogueFair), that the clock *)
(* is ahead of every key (BucketFair), and, of an intake request on its    *)
(* way, what its next step relies on (CartFair).  That it was sold at one  *)
(* catalogue needs that the requests in flight have visits of their own.   *)
(***************************************************************************)

CatalogueFair ==
  /\ edits \in Nat
  /\ products \in [DOMAIN products -> Product]
  /\ DOMAIN products \subseteq Nat \ {0}
  /\ IsFiniteSet(DOMAIN products)

BucketFair ==
  /\ clock \in Nat
  /\ DOMAIN objects \subseteq 1 .. clock

(* The screenshot of an order, sent with its visit, in the bucket.         *)
Stored(bucket, shot, visit) == shot # 0 => shot \in DOMAIN bucket /\ bucket[shot] = visit

(* What is priced was priced from one of the catalogues a request has seen. *)
PricedFrom(q, snapshot) ==
  /\ q.basket \subseteq DOMAIN snapshot
  /\ q.lines = [id \in q.basket |-> snapshot[id]]

(* The ids of the lines are in a table and stand there for the products of *)
(* the lines, but for the ids that are known to be gone.                   *)
Standing(lines, gone, table) ==
  \A id \in DOMAIN lines \ gone :
    id \in DOMAIN table /\ table[id].serial = lines[id].serial

CartFair(q, bucket, table, catalogues, gone, n) ==
  /\ q = NoCart \/ (q.pc # "idle" /\ q.visit \in 1 .. n)
  /\ Stored(bucket, q.shot, q.visit)
  /\ q.checkout /\ q.pc = "insert" => q.home = q.actor
  /\ ~ q.checkout => ~ q.proof /\ q.pc \in {"idle", "price", "insert"}
  /\ q.pc = "price" => table \in catalogues
  /\ q.pc \notin {"idle", "price"} =>
       (\E snapshot \in catalogues : PricedFrom(q, snapshot)) /\ Standing(q.lines, gone, table)

CartsFair ==
  /\ visits \in Nat
  /\ cart \in [Buyers -> Cart]
  /\ seen = [b \in Buyers |-> seen[b]] /\ removed = [b \in Buyers |-> removed[b]]
  /\ \A b \in Buyers : CartFair(cart[b], objects, products, seen[b], removed[b], visits)
  /\ \A b, c \in Buyers : cart[b] # NoCart /\ cart[b].visit = cart[c].visit => b = c

SalesFair == DOMAIN sales \subseteq 1 .. visits /\ SalesStand

SInv == CatalogueFair /\ BucketFair /\ CartsFair /\ SalesFair

-----------------------------------------------------------------------------
(* To list a finite set of rows in a strict order is to number them: a     *)
(* row's place follows from how many are before it, which tells any two    *)
(* apart, and there are as many places as rows.                            *)
Prior(ids, order, i) == {j \in ids : <<j, i>> \in order}

StrictOrder(ids, order) ==
  /\ \A i \in ids : <<i, i>> \notin order
  /\ \A i, j, k \in ids : <<i, j>> \in order /\ <<j, k>> \in order => <<i, k>> \in order
  /\ \A i, j \in ids : i = j \/ <<i, j>> \in order \/ <<j, i>> \in order

LEMMA PriorIsLess ==
  ASSUME NEW ids, IsFiniteSet(ids), NEW order, StrictOrder(ids, order), NEW id \in ids
  PROVE  /\ IsFiniteSet(Prior(ids, order, id))
         /\ Cardinality(Prior(ids, order, id)) \in 0 .. Cardinality(ids) - 1
<1>1. Prior(ids, order, id) \subseteq ids \ {id} /\ ids \ {id} \subseteq ids
  BY DEF Prior, StrictOrder
<1>2. IsFiniteSet(ids \ {id}) /\ Cardinality(ids \ {id}) = Cardinality(ids) - 1
  BY FS_RemoveElement
<1>3. /\ IsFiniteSet(Prior(ids, order, id))
      /\ Cardinality(Prior(ids, order, id)) <= Cardinality(ids \ {id})
  BY <1>1, <1>2, FS_Subset
<1>4. Cardinality(Prior(ids, order, id)) \in Nat
  BY <1>3, FS_CardinalityType
<1>5. Cardinality(ids) \in Nat
  BY FS_CardinalityType
<1> QED
  BY <1>2, <1>3, <1>4, <1>5

LEMMA MoreArePrior ==
  ASSUME NEW ids, IsFiniteSet(ids), NEW order, StrictOrder(ids, order),
         NEW i \in ids, NEW j \in ids, <<i, j>> \in order
  PROVE  Cardinality(Prior(ids, order, i)) < Cardinality(Prior(ids, order, j))
<1>1. /\ \A k \in Prior(ids, order, i) : k \in Prior(ids, order, j)
      /\ i \in Prior(ids, order, j) /\ i \notin Prior(ids, order, i)
  BY DEF Prior, StrictOrder
<1>2. /\ Cardinality(Prior(ids, order, i)) \in Int /\ Cardinality(Prior(ids, order, j)) \in Int
      /\ IsFiniteSet(Prior(ids, order, j))
  BY PriorIsLess
<1>3. /\ Cardinality(Prior(ids, order, i)) <= Cardinality(Prior(ids, order, j))
      /\ Cardinality(Prior(ids, order, j)) # Cardinality(Prior(ids, order, i))
  BY <1>1, <1>2, FS_Subset
<1> QED
  BY <1>2, <1>3

LEMMA EveryPlaceIsTaken ==
  ASSUME NEW ids, IsFiniteSet(ids), NEW order, StrictOrder(ids, order),
         NEW n \in 1 .. Cardinality(ids)
  PROVE  \E id \in ids : Cardinality(Prior(ids, order, id)) = n - 1
<1>1. Cardinality(ids) \in Nat
  BY FS_CardinalityType
<1>2. PICK top, gap : top = Cardinality(ids) - 1 /\ gap = n - 1
  OBVIOUS
<1>3. top \in Int /\ gap \in 0 .. top /\ top + 1 = Cardinality(ids)
  BY <1>1, <1>2
<1> DEFINE places == (0 .. top) \ {gap}
           place == [id \in ids |-> Cardinality(Prior(ids, order, id))]
<1>4. IsFiniteSet(places) /\ Cardinality(places) < Cardinality(ids)
  <2>1. IsFiniteSet(0 .. top) /\ Cardinality(0 .. top) = IF 0 > top THEN 0 ELSE top - 0 + 1
    BY <1>3, FS_Interval
  <2>2. Cardinality(0 .. top) = Cardinality(ids)
    BY <1>1, <1>3, <2>1
  <2>3. IsFiniteSet(places) /\ Cardinality(places) = Cardinality(0 .. top) - 1
    BY <1>3, <2>1, FS_RemoveElement
  <2> QED
    BY <1>1, <2>2, <2>3
<1>5. SUFFICES ASSUME ~ \E id \in ids : Cardinality(Prior(ids, order, id)) = gap
               PROVE  FALSE
  BY <1>2
<1>6. \A id \in ids : Cardinality(Prior(ids, order, id)) \in 0 .. top
  BY <1>2, PriorIsLess
<1>7. place \in [ids -> places]
  BY <1>5, <1>6
<1>8. \A id \in ids : place[id] = Cardinality(Prior(ids, order, id))
  OBVIOUS
<1> HIDE DEF place, places
<1>10. \E i, j \in ids : i # j /\ place[i] = place[j]
  BY <1>4, <1>7, FS_PigeonHole
<1>11. PICK i \in ids, j \in ids : i # j /\ place[i] = place[j]
  BY <1>10
<1>12. /\ Cardinality(Prior(ids, order, i)) = Cardinality(Prior(ids, order, j))
       /\ Cardinality(Prior(ids, order, i)) \in Int
  BY <1>6, <1>8, <1>11
<1>13. <<i, j>> \in order \/ <<j, i>> \in order
  BY <1>11 DEF StrictOrder
<1> QED
  BY <1>12, <1>13, MoreArePrior

LEMMA SortedNumbers ==
  ASSUME NEW ids, IsFiniteSet(ids), NEW order, StrictOrder(ids, order)
  PROVE  LET sorted == Sorted(ids, order) IN
         /\ Cardinality(ids) \in Nat
         /\ sorted \in [1 .. Cardinality(ids) -> ids]
         /\ \A n \in 1 .. Cardinality(ids) :
              sorted[n] \in ids /\ Cardinality(Prior(ids, order, sorted[n])) = n - 1
         /\ \A id \in ids : /\ Cardinality(Prior(ids, order, id)) + 1 \in 1 .. Cardinality(ids)
                            /\ sorted[Cardinality(Prior(ids, order, id)) + 1] = id
         /\ \A m, n \in 1 .. Cardinality(ids) : m < n => <<sorted[m], sorted[n]>> \in order
<1> DEFINE at(n) == CHOOSE i \in ids : Cardinality(Prior(ids, order, i)) = n - 1
           sorted == Sorted(ids, order)
<1>1. Cardinality(ids) \in Nat
  BY FS_CardinalityType
<1>2. sorted = [n \in 1 .. Cardinality(ids) |-> at(n)]
  BY DEF Sorted, Prior
<1>3. \A n \in 1 .. Cardinality(ids) :
        at(n) \in ids /\ Cardinality(Prior(ids, order, at(n))) = n - 1
  <2> SUFFICES ASSUME NEW n \in 1 .. Cardinality(ids)
               PROVE  at(n) \in ids /\ Cardinality(Prior(ids, order, at(n))) = n - 1
    OBVIOUS
  <2>1. \E id \in ids : Cardinality(Prior(ids, order, id)) = n - 1
    BY EveryPlaceIsTaken
  <2> QED
    BY <2>1
<1> HIDE DEF at
<1>4. \A n \in 1 .. Cardinality(ids) :
        sorted[n] \in ids /\ Cardinality(Prior(ids, order, sorted[n])) = n - 1
  BY <1>2, <1>3
<1>5. sorted \in [1 .. Cardinality(ids) -> ids]
  BY <1>2, <1>3
<1> HIDE DEF sorted
<1>6. ASSUME NEW i \in ids, NEW j \in ids,
             Cardinality(Prior(ids, order, i)) = Cardinality(Prior(ids, order, j))
      PROVE  i = j
  <2>1. Cardinality(Prior(ids, order, i)) \in Int
    BY PriorIsLess
  <2>2. <<i, j>> \notin order /\ <<j, i>> \notin order
    BY <1>6, <2>1, MoreArePrior
  <2> QED
    BY <2>2 DEF StrictOrder
<1>7. ASSUME NEW id \in ids
      PROVE  /\ Cardinality(Prior(ids, order, id)) + 1 \in 1 .. Cardinality(ids)
             /\ sorted[Cardinality(Prior(ids, order, id)) + 1] = id
  <2>1. PICK n : n = Cardinality(Prior(ids, order, id)) + 1
    OBVIOUS
  <2>2. Cardinality(Prior(ids, order, id)) \in 0 .. Cardinality(ids) - 1
    BY PriorIsLess
  <2>3. n \in 1 .. Cardinality(ids) /\ n - 1 = Cardinality(Prior(ids, order, id))
    BY <1>1, <2>1, <2>2
  <2>4. sorted[n] \in ids
        /\ Cardinality(Prior(ids, order, sorted[n])) = Cardinality(Prior(ids, order, id))
    BY <1>4, <2>3
  <2>5. sorted[n] = id
    BY <1>6, <2>4
  <2> QED
    BY <2>1, <2>3, <2>5
<1>8. ASSUME NEW m \in 1 .. Cardinality(ids), NEW n \in 1 .. Cardinality(ids), m < n
      PROVE  <<sorted[m], sorted[n]>> \in order
  <2>1. PICK i, j : i = sorted[m] /\ j = sorted[n]
    OBVIOUS
  <2>2. /\ i \in ids /\ j \in ids
        /\ Cardinality(Prior(ids, order, i)) = m - 1 /\ Cardinality(Prior(ids, order, j)) = n - 1
    BY <1>4, <2>1
  <2>3. m - 1 # n - 1 /\ ~ (n - 1 < m - 1)
    BY <1>1, <1>8
  <2>4. i # j
    BY <2>2, <2>3
  <2>5. <<j, i>> \notin order
    <3> SUFFICES ASSUME <<j, i>> \in order PROVE FALSE
      OBVIOUS
    <3>1. Cardinality(Prior(ids, order, j)) < Cardinality(Prior(ids, order, i))
      BY <2>2, MoreArePrior
    <3> QED
      BY <2>2, <2>3, <3>1
  <2> QED
    BY <2>1, <2>2, <2>4, <2>5 DEF StrictOrder
<1> QED
  BY <1>1, <1>4, <1>5, <1>7, <1>8 DEF sorted

(* In the order of the ids. *)
Below(ids, id) == {i \in ids : i < id}

LEMMA IdsAreOrdered ==
  ASSUME NEW ids \in SUBSET Nat
  PROVE  LET order == {p \in ids \X ids : p[1] < p[2]} IN
         /\ StrictOrder(ids, order)
         /\ \A id \in ids : Prior(ids, order, id) = Below(ids, id)
         /\ ById(ids) = Sorted(ids, order)
<1> DEFINE order == {p \in ids \X ids : p[1] < p[2]}
<1>1. \A i, j \in ids : <<i, j>> \in order <=> i < j
  OBVIOUS
<1>2. \A i \in ids : i \in Int
  OBVIOUS
<1>3. ById(ids) = Sorted(ids, order)
  BY DEF ById
<1> HIDE DEF order
<1>4. StrictOrder(ids, order)
  BY <1>1, <1>2 DEF StrictOrder
<1>5. \A id \in ids : Prior(ids, order, id) = Below(ids, id)
  BY <1>1 DEF Prior, Below
<1> QED
  BY <1>3, <1>4, <1>5 DEF order

LEMMA BelowIsLess ==
  ASSUME NEW ids \in SUBSET Nat, IsFiniteSet(ids), NEW id \in ids
  PROVE  /\ IsFiniteSet(Below(ids, id))
         /\ Cardinality(Below(ids, id)) \in 0 .. Cardinality(ids) - 1
<1>1. PICK order : StrictOrder(ids, order) /\ Prior(ids, order, id) = Below(ids, id)
  BY IdsAreOrdered
<1>2. /\ IsFiniteSet(Prior(ids, order, id))
      /\ Cardinality(Prior(ids, order, id)) \in 0 .. Cardinality(ids) - 1
  BY <1>1, PriorIsLess
<1> QED
  BY <1>1, <1>2

LEMMA ByIdNumbers ==
  ASSUME NEW ids \in SUBSET Nat, IsFiniteSet(ids)
  PROVE  /\ Cardinality(ids) \in Nat
         /\ ById(ids) \in [1 .. Cardinality(ids) -> ids]
         /\ \A n \in 1 .. Cardinality(ids) :
              ById(ids)[n] \in ids /\ Cardinality(Below(ids, ById(ids)[n])) = n - 1
         /\ \A id \in ids : /\ Cardinality(Below(ids, id)) + 1 \in 1 .. Cardinality(ids)
                            /\ ById(ids)[Cardinality(Below(ids, id)) + 1] = id
<1>1. PICK order : /\ StrictOrder(ids, order)
                   /\ \A id \in ids : Prior(ids, order, id) = Below(ids, id)
                   /\ ById(ids) = Sorted(ids, order)
  BY IdsAreOrdered
<1>2. /\ Cardinality(ids) \in Nat
      /\ Sorted(ids, order) \in [1 .. Cardinality(ids) -> ids]
      /\ \A n \in 1 .. Cardinality(ids) :
           /\ Sorted(ids, order)[n] \in ids
           /\ Cardinality(Prior(ids, order, Sorted(ids, order)[n])) = n - 1
      /\ \A id \in ids :
           /\ Cardinality(Prior(ids, order, id)) + 1 \in 1 .. Cardinality(ids)
           /\ Sorted(ids, order)[Cardinality(Prior(ids, order, id)) + 1] = id
  BY <1>1, SortedNumbers
<1> QED
  BY <1>1, <1>2

-----------------------------------------------------------------------------
(* A free id is above every id of the table, and there are finitely many   *)
(* ids to ask for.                                                         *)
LEMMA FreeIdIsNew ==
  ASSUME NEW table, DOMAIN table \subseteq Nat \ {0}, NEW id \in FreeIds(table)
  PROVE  id \in Nat \ {0} /\ id \notin DOMAIN table /\ \A i \in DOMAIN table : i < id
<1>1. id \in {1} \cup {i + 1 : i \in DOMAIN table} /\ \A i \in DOMAIN table : i < id
  BY DEF FreeIds
<1>2. id \in Nat \ {0}
  BY <1>1
<1>3. id \notin DOMAIN table
  BY <1>1, <1>2
<1> QED
  BY <1>1, <1>2, <1>3

LEMMA OffersAreIds ==
  ASSUME CatalogueFair
  PROVE  Offers \subseteq Nat
<1>1. DOMAIN products \subseteq Nat \ {0}
  BY DEF CatalogueFair
<1>2. FreeIds(products) \subseteq Nat
  BY <1>1, FreeIdIsNew
<1> QED
  BY <1>1, <1>2 DEF Offers

-----------------------------------------------------------------------------
(* What the steps of the catalogue leave: the rows there are after one are *)
(* new, under a free id, or those there were, of the same serial, and no   *)
(* row that an order holds is gone.                                        *)
LEMMA CatalogueStays ==
  ASSUME CatalogueFair, CreateProduct \/ UpdateProduct \/ DeleteProduct(HeldIds)
  PROVE  /\ CatalogueFair'
         /\ \A id \in DOMAIN products \cap DOMAIN products' :
              products'[id].serial = products[id].serial
         /\ \A id \in SoldIds \cap DOMAIN products :
              id \in DOMAIN products' /\ products'[id].serial = products[id].serial
<1>0. /\ edits \in Nat
      /\ products \in [DOMAIN products -> Product]
      /\ DOMAIN products \subseteq Nat \ {0}
      /\ IsFiniteSet(DOMAIN products)
  BY DEF CatalogueFair
<1>1. CASE CreateProduct
  <2>1. PICK price \in Prices, text \in Texts \cup {NoText}, id \in FreeIds(products) :
          /\ edits' = edits + 1
          /\ products' = [i \in DOMAIN products \cup {id} |->
                            IF i = id
                            THEN [serial |-> edits + 1, price |-> price, text |-> text]
                            ELSE products[i]]
    BY <1>1 DEF CreateProduct, Edit
  <2>2. id \in Nat \ {0} /\ id \notin DOMAIN products
    BY <1>0, FreeIdIsNew
  <2>3. [serial |-> edits + 1, price |-> price, text |-> text] \in Product
    BY <1>0 DEF Product
  <2>4. DOMAIN products' = DOMAIN products \cup {id} /\ IsFiniteSet(DOMAIN products \cup {id})
    BY <1>0, <2>1, FS_AddElement
  <2> QED
    BY <1>0, <2>1, <2>2, <2>3, <2>4 DEF CatalogueFair
<1>2. CASE UpdateProduct
  <2>1. PICK id \in DOMAIN products, price \in Prices, text \in Texts \cup {NoText} :
          /\ edits' = edits + 1
          /\ products' = [products EXCEPT ![id] =
                            [products[id] EXCEPT !.price = price, !.text = text]]
    BY <1>2 DEF UpdateProduct, Edit
  <2>2. products[id] \in Product
    BY <1>0
  <2>3. PICK row : row = [products[id] EXCEPT !.price = price, !.text = text]
    OBVIOUS
  <2>4. row \in Product /\ row.serial = products[id].serial
    BY <2>2, <2>3 DEF Product
  <2>5. products' = [products EXCEPT ![id] = row]
    BY <2>1, <2>3
  <2> QED
    BY <1>0, <2>1, <2>4, <2>5 DEF CatalogueFair
<1>3. CASE DeleteProduct(HeldIds)
  <2>1. PICK id \in DOMAIN products \ HeldIds :
          /\ edits' = edits + 1
          /\ products' = [i \in DOMAIN products \ {id} |-> products[i]]
    BY <1>3 DEF DeleteProduct, Edit
  <2>2. DOMAIN products' = DOMAIN products \ {id} /\ IsFiniteSet(DOMAIN products \ {id})
    BY <1>0, <2>1, FS_RemoveElement
  <2>3. id \notin SoldIds
    BY <2>1 DEF HeldIds
  <2> QED
    BY <1>0, <2>1, <2>2, <2>3 DEF CatalogueFair
<1> QED
  BY <1>1, <1>2, <1>3

-----------------------------------------------------------------------------
(* The bucket only grows: an object that is there is not replaced.         *)
Grown(bucket, new) ==
  \A k \in DOMAIN bucket : k \in DOMAIN new /\ new[k] = bucket[k]

LEMMA NoCartFair ==
  /\ NoCart \in Cart /\ NoCart.pc = "idle"
  /\ \A bucket, table, catalogues, gone, n :
       CartFair(NoCart, bucket, table, catalogues, gone, n)
<1>1. /\ NoCart.pc = "idle" /\ NoCart.basket = {} /\ NoCart.shot = 0
      /\ ~ NoCart.checkout /\ ~ NoCart.proof
  BY DEF NoCart
<1>2. <<>> \in UNION {[ids -> Product] : ids \in SUBSET Nat}
  <2>1. <<>> \in [{} -> Product]
    OBVIOUS
  <2> QED
    BY <2>1
<1>3. NoCart \in Cart
  BY <1>2 DEF NoCart, Cart, CartPcs, Shoppers, Guest
<1> QED
  BY <1>1, <1>3 DEF CartFair, Stored

(* A request that takes no step stays fair beside the steps of the others  *)
(* and beside those of the editors.                                        *)
LEMMA FairBesideOthers ==
  ASSUME NEW q, NEW bucket, NEW table, NEW catalogues, NEW gone, NEW n \in Nat,
         CartFair(q, bucket, table, catalogues, gone, n),
         NEW newBucket, Grown(bucket, newBucket), NEW m \in {n, n + 1}
  PROVE  CartFair(q, newBucket, table, catalogues, gone, m)
<1>1. Stored(newBucket, q.shot, q.visit)
  BY DEF CartFair, Stored, Grown
<1>2. q = NoCart \/ (q.pc # "idle" /\ q.visit \in 1 .. m)
  BY DEF CartFair
<1> QED
  BY <1>1, <1>2 DEF CartFair

LEMMA FairBesideEditors ==
  ASSUME NEW q, NEW bucket, NEW table, NEW catalogues, NEW gone, NEW n,
         CartFair(q, bucket, table, catalogues, gone, n),
         NEW newTable, NEW newCatalogues, NEW newGone,
         catalogues \subseteq newCatalogues, gone \subseteq newGone,
         q.pc = "price" => newTable \in newCatalogues,
         q.pc \notin {"idle", "price"} => Standing(table, newGone, newTable)
  PROVE  CartFair(q, bucket, newTable, newCatalogues, newGone, n)
<1>1. q.pc \notin {"idle", "price"} => \E snapshot \in newCatalogues : PricedFrom(q, snapshot)
  BY DEF CartFair
<1>2. q.pc \notin {"idle", "price"} => Standing(q.lines, newGone, newTable)
  <2>1. q.pc \notin {"idle", "price"} => Standing(q.lines, gone, table)
    BY DEF CartFair
  <2> QED
    BY <2>1 DEF Standing
<1> QED
  BY <1>1, <1>2 DEF CartFair

LEMMA IdleIsNoCart ==
  ASSUME CartsFair, NEW b \in Buyers
  PROVE  /\ cart[b] \in Cart
         /\ cart[b].pc = "idle" => cart[b] = NoCart
         /\ cart[b] # NoCart => cart[b].visit \in 1 .. visits
BY DEF CartsFair, CartFair

(* One request's step: of a visit that is its own, to a fair state.        *)
LEMMA CartStepKeeps ==
  ASSUME CartsFair, NEW b \in Buyers, NEW q \in Cart, NEW now, NEW lost,
         NEW m \in {visits, visits + 1},
         cart' = [cart EXCEPT ![b] = q], seen' = [seen EXCEPT ![b] = now],
         removed' = [removed EXCEPT ![b] = lost],
         visits' = m, products' = products, Grown(objects, objects'),
         CartFair(q, objects', products, now, lost, m),
         q # NoCart => \/ q.visit = m /\ m # visits
                       \/ q.visit = cart[b].visit /\ cart[b] # NoCart
  PROVE  CartsFair'
<1>0. /\ visits \in Nat /\ cart \in [Buyers -> Cart]
      /\ seen = [c \in Buyers |-> seen[c]] /\ removed = [c \in Buyers |-> removed[c]]
      /\ \A c \in Buyers : CartFair(cart[c], objects, products, seen[c], removed[c], visits)
      /\ \A c, d \in Buyers : cart[c] # NoCart /\ cart[c].visit = cart[d].visit => c = d
  BY DEF CartsFair
<1>1. /\ visits' \in Nat /\ cart' \in [Buyers -> Cart]
      /\ seen' = [c \in Buyers |-> seen'[c]] /\ removed' = [c \in Buyers |-> removed'[c]]
  <2>1. visits' \in Nat /\ cart' \in [Buyers -> Cart]
    BY <1>0
  <2>2. seen' = [c \in Buyers |-> seen'[c]]
    BY <1>0
  <2>3. removed' = [c \in Buyers |-> removed'[c]]
    BY <1>0
  <2> QED
    BY <2>1, <2>2, <2>3
<1>2. ASSUME NEW c \in Buyers
      PROVE  CartFair(cart'[c], objects', products', seen'[c], removed'[c], visits')
  <2>1. CASE c = b
    BY <1>0, <2>1
  <2>2. CASE c # b
    <3>1. cart'[c] = cart[c] /\ seen'[c] = seen[c] /\ removed'[c] = removed[c]
      BY <1>0, <2>2
    <3>2. PICK bucket, catalogues, gone, new, q_ :
            /\ bucket = objects /\ catalogues = seen[c] /\ gone = removed[c]
            /\ new = objects' /\ q_ = cart[c]
      OBVIOUS
    <3>3. CartFair(q_, bucket, products, catalogues, gone, visits) /\ Grown(bucket, new)
      BY <1>0, <3>2
    <3>4. CartFair(q_, new, products, catalogues, gone, m)
      BY <1>0, <3>3, FairBesideOthers
    <3> QED
      BY <3>1, <3>2, <3>4
  <2> QED
    BY <2>1, <2>2
<1>3. ASSUME NEW c \in Buyers, NEW d \in Buyers, cart'[c] # NoCart,
             cart'[c].visit = cart'[d].visit
      PROVE  c = d
  <2>1. cart'[b] = q /\ \A e \in Buyers \ {b} : cart'[e] = cart[e]
    BY <1>0
  <2>2. \A e \in Buyers : cart[e].visit \in 0 .. visits
    <3> SUFFICES ASSUME NEW e \in Buyers
                 PROVE  cart[e].visit \in 0 .. visits
      OBVIOUS
    <3>1. CASE cart[e] = NoCart
      BY <1>0, <3>1 DEF NoCart
    <3>2. CASE cart[e] # NoCart
      BY <1>0, <3>2, IdleIsNoCart
    <3> QED
      BY <3>1, <3>2
  <2>3. \A e \in Buyers : cart[e] # NoCart => cart[e].visit \in 1 .. visits
    BY IdleIsNoCart
  <2>4. CASE c # b /\ d # b
    BY <1>0, <1>3, <2>1, <2>4
  <2>5. CASE c = b /\ d # b
    <3>1. q # NoCart /\ q.visit = cart[d].visit
      BY <1>3, <2>1, <2>5
    <3>2. cart[b] # NoCart /\ cart[b].visit = cart[d].visit
      BY <1>0, <2>2, <3>1
    <3> QED
      BY <1>0, <2>5, <3>2
  <2>6. CASE c # b /\ d = b
    <3>1. cart[c] # NoCart /\ cart[c].visit = q.visit /\ cart[c].visit \in 1 .. visits
      BY <1>3, <2>1, <2>3, <2>6
    <3>2. q # NoCart
      BY <1>0, <3>1 DEF NoCart
    <3>3. q.visit = cart[b].visit
      BY <1>0, <3>1, <3>2
    <3> QED
      BY <1>0, <2>6, <3>1, <3>3
  <2> QED
    BY <2>4, <2>5, <2>6
<1> QED
  BY <1>1, <1>2, <1>3 DEF CartsFair

LEMMA LeaveKeeps ==
  ASSUME CartsFair, NEW b \in Buyers, Leave(b), visits' = visits, products' = products,
         Grown(objects, objects')
  PROVE  CartsFair'
<1>1. visits \in Nat
  BY DEF CartsFair
<1>2. PICK q, now, lost : q = NoCart /\ now = {} /\ lost = {}
  OBVIOUS
<1>3. /\ q \in Cart /\ visits' \in {visits, visits + 1}
      /\ cart' = [cart EXCEPT ![b] = q] /\ seen' = [seen EXCEPT ![b] = now]
      /\ removed' = [removed EXCEPT ![b] = lost]
      /\ CartFair(q, objects', products, now, lost, visits')
  BY <1>2, NoCartFair DEF Leave
<1> QED
  BY <1>2, <1>3, CartStepKeeps

(* The next step of a request in flight, from the state q.                 *)
LEMMA ProceedKeeps ==
  ASSUME CartsFair, NEW b \in Buyers, NEW q \in Cart, NEW pc \in CartPcs,
         Following(q, q.pc) = pc, Proceed(b, q),
         seen' = seen, removed' = removed, visits' = visits, products' = products,
         Grown(objects, objects'),
         CartFair([q EXCEPT !.pc = pc], objects', products, seen[b], removed[b], visits),
         q.visit = cart[b].visit, cart[b] # NoCart
  PROVE  CartsFair'
<1>0. /\ visits \in Nat /\ seen = [c \in Buyers |-> seen[c]]
      /\ removed = [c \in Buyers |-> removed[c]]
  BY DEF CartsFair
<1>1. PICK next, now, lost : next = [q EXCEPT !.pc = pc] /\ now = seen[b] /\ lost = removed[b]
  OBVIOUS
<1>2. next \in Cart /\ next.visit = cart[b].visit
  BY <1>1 DEF Cart
<1>3. /\ cart' = [cart EXCEPT ![b] = next] /\ seen' = [seen EXCEPT ![b] = now]
      /\ removed' = [removed EXCEPT ![b] = lost]
      /\ CartFair(next, objects', products, now, lost, visits')
      /\ visits' \in {visits, visits + 1}
  BY <1>0, <1>1 DEF Proceed
<1> QED
  BY <1>2, <1>3, CartStepKeeps

-----------------------------------------------------------------------------
(* The orders there are, while none is added.                              *)
LEMMA SalesStay ==
  ASSUME SalesFair, visits \in Nat, visits' \in {visits, visits + 1},
         \A v \in DOMAIN sales' : v \in DOMAIN sales /\ sales'[v] = sales[v],
         Grown(objects, objects'),
         \A id \in SoldIds \cap DOMAIN products :
           id \in DOMAIN products' /\ products'[id].serial = products[id].serial
  PROVE  SalesFair'
<1>1. DOMAIN sales' \subseteq 1 .. visits'
  BY DEF SalesFair
<1>2. SoldProductsStay'
  <2> SUFFICES ASSUME NEW v \in DOMAIN sales', NEW id \in DOMAIN sales'[v].lines
               PROVE  /\ id \in DOMAIN products'
                      /\ id \notin sales'[v].gone
                           => products'[id].serial = sales'[v].lines[id].serial
    BY DEF SoldProductsStay
  <2>1. v \in DOMAIN sales /\ sales'[v] = sales[v] /\ id \in DOMAIN sales[v].lines
    OBVIOUS
  <2>2. /\ id \in DOMAIN products
        /\ id \notin sales[v].gone => products[id].serial = sales[v].lines[id].serial
    BY <2>1 DEF SalesFair, SalesStand, SoldProductsStay
  <2>3. id \in SoldIds
    BY <2>1 DEF SoldIds
  <2> QED
    BY <2>1, <2>2, <2>3
<1>3. ScreenshotsAreTheOrders'
  BY DEF SalesFair, SalesStand, ScreenshotsAreTheOrders, Grown
<1>4. DeliversHome'
  BY DEF SalesFair, SalesStand, DeliversHome
<1> QED
  BY <1>1, <1>2, <1>3, <1>4 DEF SalesFair, SalesStand

LEMMA EnterKeeps ==
  ASSUME CatalogueFair, CartsFair, NEW b \in Buyers, UNCHANGED catalogue,
         NEW checkout \in BOOLEAN, NEW actor \in Shoppers, NEW address \in Nat,
         NEW basket \in Baskets, NEW proof \in BOOLEAN, proof => checkout,
         Enter(b, checkout, actor, address, basket, proof)
  PROVE  CartsFair'
<1>0. visits \in Nat /\ products' = products
  BY DEF CartsFair, catalogue
<1>1. PICK q, now, lost :
        /\ q = [NoCart EXCEPT !.checkout = checkout, !.actor = actor,
                  !.address = address, !.basket = basket, !.proof = proof,
                  !.visit = visits + 1, !.pc = "price"]
        /\ now = {products} /\ lost = removed[b]
  OBVIOUS
<1>2. /\ cart' = [cart EXCEPT ![b] = q] /\ seen' = [seen EXCEPT ![b] = now]
      /\ visits' = visits + 1 /\ objects' = objects
      /\ removed' = [removed EXCEPT ![b] = lost]
  <2>1. removed' = removed /\ removed = [c \in Buyers |-> removed[c]]
    BY DEF Enter, CartsFair
  <2> QED
    BY <1>1, <2>1 DEF Enter, Following
<1>3. basket \in SUBSET Nat
  <2>1. basket \subseteq Offers
    BY DEF Baskets
  <2> QED
    BY <2>1, OffersAreIds
<1>4. q \in Cart
  <2>1. NoCart \in Cart /\ "price" \in CartPcs /\ visits + 1 \in Nat
    BY <1>0, NoCartFair DEF CartPcs
  <2> QED
    BY <1>1, <1>3, <2>1 DEF Cart
<1>5. /\ q.pc = "price" /\ q.visit = visits + 1 /\ q.basket = basket /\ q.shot = 0
      /\ q.checkout = checkout /\ q.proof = proof
  BY <1>1 DEF NoCart
<1>6. CartFair(q, objects', products, now, lost, visits')
  <2>1. q.visit \in 1 .. visits'
    BY <1>0, <1>2, <1>5
  <2> QED
    BY <1>1, <1>3, <1>5, <2>1 DEF CartFair, Stored
<1>7. Grown(objects, objects') /\ visits' \in {visits, visits + 1} /\ visits' # visits
  BY <1>0, <1>2 DEF Grown
<1> QED
  BY <1>0, <1>2, <1>4, <1>5, <1>6, <1>7, CartStepKeeps

LEMMA PriceKeeps ==
  ASSUME CatalogueFair, CartsFair, NEW b \in Buyers, UNCHANGED catalogue, PriceBasket(b)
  PROVE  CartsFair'
<1>0. /\ visits \in Nat /\ products' = products /\ visits' = visits /\ objects' = objects
      /\ Grown(objects, objects')
  BY DEF CartsFair, catalogue, PriceBasket, Grown
<1>1. PICK q : q = cart[b]
  OBVIOUS
<1>2. q \in Cart /\ q.pc = "price" /\ CartFair(q, objects, products, seen[b], removed[b], visits)
  BY <1>1 DEF CartsFair, PriceBasket
<1>3. CASE ~ q.basket \subseteq DOMAIN products
  <2>1. Leave(b)
    BY <1>1, <1>3 DEF PriceBasket
  <2> QED
    BY <1>0, <2>1, LeaveKeeps
<1>4. CASE q.basket \subseteq DOMAIN products
  <2>1. PICK lines : lines = [id \in q.basket |-> products[id]]
    OBVIOUS
  <2>2. PICK priced : priced = [q EXCEPT !.lines = lines]
    OBVIOUS
  <2>3. Proceed(b, priced) /\ seen' = seen /\ removed' = removed
    BY <1>1, <1>4, <2>1, <2>2 DEF PriceBasket
  <2>4. q.basket \in SUBSET Nat
    BY <1>2 DEF Cart
  <2>5. lines \in UNION {[ids -> Product] : ids \in SUBSET Nat}
    <3>1. lines \in [q.basket -> Product]
      BY <1>4, <2>1 DEF CatalogueFair
    <3> QED
      BY <2>4, <3>1
  <2>6. /\ priced \in Cart /\ priced.lines = lines /\ priced.basket = q.basket
        /\ priced.pc = "price" /\ priced.visit = q.visit /\ priced.shot = q.shot
        /\ priced.checkout = q.checkout /\ priced.proof = q.proof
    BY <1>2, <2>2, <2>5 DEF Cart
  <2>7. PICK pc : pc = Following(priced, "price")
    OBVIOUS
  <2>8. /\ pc \in CartPcs /\ pc \notin {"idle", "price"}
        /\ pc = "insert" => ~ q.checkout
        /\ ~ q.checkout => pc = "insert"
    BY <1>2, <2>6, <2>7 DEF Following, CartPcs, CartFair
  <2>9. PICK next : next = [priced EXCEPT !.pc = pc]
    OBVIOUS
  <2>10. /\ next.lines = lines /\ next.basket = q.basket /\ next.pc = pc
         /\ next.visit = q.visit /\ next.shot = q.shot
         /\ next.checkout = q.checkout /\ next.proof = q.proof
    BY <2>6, <2>9 DEF Cart
  <2>11. PricedFrom(next, products) /\ products \in seen[b]
    BY <1>2, <1>4, <2>1, <2>10 DEF PricedFrom, CartFair
  <2>12. Standing(next.lines, removed[b], products)
    BY <1>4, <2>1, <2>10 DEF Standing
  <2>13. q # NoCart
    BY <1>2, NoCartFair
  <2>14. CartFair(next, objects', products, seen[b], removed[b], visits)
    BY <1>0, <1>2, <2>8, <2>10, <2>11, <2>12, <2>13 DEF CartFair
  <2> QED
    BY <1>0, <1>1, <2>3, <2>6, <2>7, <2>8, <2>9, <2>13, <2>14, ProceedKeeps
<1> QED
  BY <1>3, <1>4

LEMMA UploadKeeps ==
  ASSUME BucketFair, CartsFair, NEW b \in Buyers, UNCHANGED catalogue, Upload(b)
  PROVE  BucketFair' /\ CartsFair' /\ Grown(objects, objects')
<1>0. /\ visits \in Nat /\ products' = products /\ visits' = visits
      /\ clock \in Nat /\ clock' = clock + 1 /\ DOMAIN objects \subseteq 1 .. clock
  BY DEF CartsFair, BucketFair, catalogue, Upload
<1>1. PICK q, key, stored :
        /\ q = cart[b] /\ key = clock + 1
        /\ stored = [k \in DOMAIN objects \cup {key} |->
                       IF k = key THEN q.visit ELSE objects[k]]
  OBVIOUS
<1>2. q \in Cart /\ q.pc = "upload" /\ CartFair(q, objects, products, seen[b], removed[b], visits)
  BY <1>1 DEF CartsFair, Upload
<1>3. /\ DOMAIN stored = DOMAIN objects \cup {key} /\ stored[key] = q.visit
      /\ Grown(objects, stored) /\ Grown(objects, objects)
  BY <1>0, <1>1 DEF Grown
<1>4. \/ Proceed(b, [q EXCEPT !.shot = key]) /\ objects' = stored
         /\ seen' = seen /\ removed' = removed
      \/ Leave(b) /\ objects' \in {objects, stored}
  BY <1>1 DEF Upload, KeyAt
<1>5. BucketFair' /\ Grown(objects, objects')
  BY <1>0, <1>1, <1>3, <1>4 DEF BucketFair
<1>6. CASE Leave(b)
  BY <1>0, <1>5, <1>6, LeaveKeeps
<1>7. CASE /\ Proceed(b, [q EXCEPT !.shot = key]) /\ objects' = stored
           /\ seen' = seen /\ removed' = removed
  <2>1. PICK sent : sent = [q EXCEPT !.shot = key]
    OBVIOUS
  <2>2. /\ sent \in Cart /\ sent.lines = q.lines /\ sent.basket = q.basket
        /\ sent.pc = "upload" /\ sent.visit = q.visit /\ sent.shot = key
        /\ sent.checkout = q.checkout /\ sent.proof = q.proof
    <3>1. key \in Nat
      BY <1>0, <1>1
    <3>2. sent \in Cart
      BY <1>2, <2>1, <3>1 DEF Cart
    <3>3. sent.shot = key /\ \A field \in {"lines", "basket", "pc", "visit", "checkout", "proof"} :
                               sent[field] = q[field]
      BY <1>2, <2>1 DEF Cart
    <3> QED
      BY <1>2, <3>2, <3>3
  <2>3. Following(sent, sent.pc) = "shopper" /\ "shopper" \in CartPcs
    BY <2>2 DEF Following, CartPcs
  <2>4. PICK next : next = [sent EXCEPT !.pc = "shopper"]
    OBVIOUS
  <2>5. /\ next.lines = q.lines /\ next.basket = q.basket /\ next.pc = "shopper"
        /\ next.visit = q.visit /\ next.shot = key
        /\ next.checkout = q.checkout /\ next.proof = q.proof
    BY <2>2, <2>4 DEF Cart
  <2>6. q # NoCart
    BY <1>2, NoCartFair
  <2>7. /\ \E snapshot \in seen[b] : PricedFrom(next, snapshot)
        /\ Standing(next.lines, removed[b], products)
    BY <1>2, <2>5 DEF CartFair, PricedFrom
  <2>8. CartFair(next, objects', products, seen[b], removed[b], visits)
    BY <1>2, <1>3, <1>7, <2>5, <2>6, <2>7 DEF CartFair, Stored
  <2> QED
    BY <1>0, <1>1, <1>5, <1>7, <2>1, <2>2, <2>3, <2>4, <2>6, <2>8, ProceedKeeps
<1> QED
  BY <1>4, <1>5, <1>6, <1>7

LEMMA ReadShopperKeeps ==
  ASSUME CartsFair, NEW b \in Buyers, UNCHANGED catalogue, ReadShopper(b)
  PROVE  CartsFair'
<1>0. /\ visits \in Nat /\ products' = products /\ visits' = visits /\ objects' = objects
      /\ seen' = seen /\ removed' = removed /\ Grown(objects, objects')
  BY DEF CartsFair, catalogue, ReadShopper, Grown
<1>1. PICK q : q = cart[b]
  OBVIOUS
<1>2. /\ q \in Cart /\ q.pc = "shopper"
      /\ CartFair(q, objects, products, seen[b], removed[b], visits)
      /\ Proceed(b, q)
  BY <1>1 DEF CartsFair, ReadShopper
<1>3. Following(q, q.pc) = "address" /\ "address" \in CartPcs
  BY <1>2 DEF Following, CartPcs
<1>4. PICK next : next = [q EXCEPT !.pc = "address"]
  OBVIOUS
<1>5. /\ next.lines = q.lines /\ next.basket = q.basket /\ next.pc = "address"
      /\ next.visit = q.visit /\ next.shot = q.shot
      /\ next.checkout = q.checkout /\ next.proof = q.proof
  BY <1>2, <1>4 DEF Cart
<1>6. q # NoCart
  BY <1>2, NoCartFair
<1>7. /\ \E snapshot \in seen[b] : PricedFrom(next, snapshot)
      /\ Standing(next.lines, removed[b], products)
  <2>1. PICK snapshot \in seen[b] : PricedFrom(q, snapshot)
    BY <1>2 DEF CartFair
  <2>2. Standing(q.lines, removed[b], products)
    BY <1>2 DEF CartFair
  <2> QED
    BY <1>5, <2>1, <2>2 DEF PricedFrom
<1>8. CartFair(next, objects', products, seen[b], removed[b], visits)
  BY <1>0, <1>2, <1>5, <1>6, <1>7 DEF CartFair, Stored
<1> QED
  BY <1>0, <1>1, <1>2, <1>3, <1>4, <1>6, <1>8, ProceedKeeps

LEMMA ReadAddressKeeps ==
  ASSUME CartsFair, NEW b \in Buyers, UNCHANGED catalogue, ReadAddress(b)
  PROVE  CartsFair'
<1>0. /\ visits \in Nat /\ products' = products /\ visits' = visits /\ objects' = objects
      /\ Grown(objects, objects')
  BY DEF CartsFair, catalogue, ReadAddress, Grown
<1>1. PICK q : q = cart[b]
  OBVIOUS
<1>2. q \in Cart /\ q.pc = "address" /\ CartFair(q, objects, products, seen[b], removed[b], visits)
  BY <1>1 DEF CartsFair, ReadAddress
<1>3. CASE ~ FindsAddress(q)
  <2>1. Leave(b)
    BY <1>1, <1>3 DEF ReadAddress
  <2> QED
    BY <1>0, <2>1, LeaveKeeps
<1>4. CASE FindsAddress(q)
  <2>1. PICK found : found = [q EXCEPT !.home = addresses[q.address].owner]
    OBVIOUS
  <2>2. Proceed(b, found) /\ seen' = seen /\ removed' = removed
    BY <1>1, <1>4, <2>1 DEF ReadAddress
  <2>3. addresses[q.address].owner = q.actor /\ q.actor \in Shoppers
    BY <1>2, <1>4 DEF FindsAddress, Owned, Cart
  <2>4. /\ found \in Cart /\ found.lines = q.lines /\ found.basket = q.basket
        /\ found.pc = "address" /\ found.visit = q.visit /\ found.shot = q.shot
        /\ found.checkout = q.checkout /\ found.proof = q.proof
        /\ found.home = found.actor
    BY <1>2, <2>1, <2>3 DEF Cart
  <2>5. Following(found, found.pc) = "insert" /\ "insert" \in CartPcs
    BY <2>4 DEF Following, CartPcs
  <2>6. PICK next : next = [found EXCEPT !.pc = "insert"]
    OBVIOUS
  <2>7. /\ next.lines = q.lines /\ next.basket = q.basket /\ next.pc = "insert"
        /\ next.visit = q.visit /\ next.shot = q.shot
        /\ next.checkout = q.checkout /\ next.proof = q.proof
        /\ next.home = next.actor
    BY <2>4, <2>6 DEF Cart
  <2>8. q # NoCart
    BY <1>2, NoCartFair
  <2>9. /\ \E snapshot \in seen[b] : PricedFrom(next, snapshot)
        /\ Standing(next.lines, removed[b], products)
    <3>1. PICK snapshot \in seen[b] : PricedFrom(q, snapshot)
      BY <1>2 DEF CartFair
    <3>2. PricedFrom(next, snapshot)
      BY <2>7, <3>1 DEF PricedFrom
    <3>3. Standing(q.lines, removed[b], products)
      BY <1>2 DEF CartFair
    <3> QED
      BY <2>7, <3>2, <3>3
  <2>10. CartFair(next, objects', products, seen[b], removed[b], visits)
    BY <1>0, <1>2, <2>7, <2>8, <2>9 DEF CartFair, Stored
  <2> QED
    BY <1>0, <1>1, <2>2, <2>4, <2>5, <2>6, <2>8, <2>10, ProceedKeeps
<1> QED
  BY <1>3, <1>4

(* The sale that is stored is what the request asked for.                  *)
LEMMA InsertKeeps ==
  ASSUME SInv, NEW b \in Buyers, UNCHANGED catalogue, InsertSale(b)
  PROVE  CartsFair' /\ SalesFair'
<1>0. /\ visits \in Nat /\ products' = products /\ visits' = visits /\ objects' = objects
      /\ Grown(objects, objects') /\ Leave(b)
  BY DEF SInv, CartsFair, catalogue, InsertSale, Grown
<1>1. PICK q : q = cart[b]
  OBVIOUS
<1>2. /\ q \in Cart /\ q.pc = "insert" /\ q.visit \in 1 .. visits
      /\ CartFair(q, objects, products, seen[b], removed[b], visits)
  BY <1>1, NoCartFair DEF SInv, CartsFair, CartFair, InsertSale
<1>3. CartsFair'
  BY <1>0, LeaveKeeps DEF SInv
<1>4. CASE ~ ReferencesHold(q)
  <2>1. sales' = sales
    BY <1>1, <1>4 DEF InsertSale
  <2> QED
    BY <1>0, <1>3, <2>1, SalesStay DEF SInv
<1>5. CASE ReferencesHold(q)
  <2>1. PICK sale : sale =
          [actor |-> q.actor, home |-> q.home, checkout |-> q.checkout,
           lines |-> q.lines, shot |-> q.shot, gone |-> removed[b]]
    OBVIOUS
  <2>2. sales' = [v \in DOMAIN sales \cup {q.visit} |->
                    IF v = q.visit THEN sale ELSE sales[v]]
    BY <1>1, <1>5, <2>1 DEF InsertSale
  <2>3. \A v \in DOMAIN sales' :
          \/ v = q.visit /\ sales'[v] = sale
          \/ v \in DOMAIN sales /\ sales'[v] = sales[v]
    BY <2>2
  <2>4. DOMAIN sales' \subseteq 1 .. visits'
    BY <1>0, <1>2, <2>2 DEF SInv, SalesFair
  <2>5. SoldProductsStay'
    <3>1. DOMAIN q.lines = q.basket /\ Standing(q.lines, removed[b], products)
      BY <1>2 DEF CartFair, PricedFrom
    <3>2. \A id \in DOMAIN sale.lines :
            /\ id \in DOMAIN products
            /\ id \notin sale.gone => products[id].serial = sale.lines[id].serial
      BY <1>5, <2>1, <3>1 DEF ReferencesHold, Standing
    <3> QED
      BY <1>0, <2>3, <3>2 DEF SoldProductsStay, SInv, SalesFair, SalesStand
  <2>6. ScreenshotsAreTheOrders'
    <3>1. sale.shot # 0 => sale.shot \in DOMAIN objects /\ objects[sale.shot] = q.visit
      BY <1>2, <2>1 DEF CartFair, Stored
    <3> QED
      BY <1>0, <2>3, <3>1 DEF ScreenshotsAreTheOrders, SInv, SalesFair, SalesStand
  <2>7. DeliversHome'
    <3>1. sale.checkout => sale.home = sale.actor
      BY <1>2, <2>1 DEF CartFair
    <3> QED
      BY <2>3, <3>1 DEF DeliversHome, SInv, SalesFair, SalesStand
  <2> QED
    BY <1>3, <2>4, <2>5, <2>6, <2>7 DEF SalesFair, SalesStand
<1> QED
  BY <1>4, <1>5

-----------------------------------------------------------------------------
LEMMA SInitial ==
  ASSUME StorefrontInit
  PROVE  SInv
<1>1. /\ products = <<>> /\ edits = 0 /\ cart = [b \in Buyers |-> NoCart]
      /\ sales = <<>> /\ objects = <<>> /\ clock = 0 /\ visits = 0
      /\ seen = [b \in Buyers |-> {}] /\ removed = [b \in Buyers |-> {}]
  BY DEF StorefrontInit, CatalogueInit, IntakeInit
<1>2. PICK table : table = <<>>
  OBVIOUS
<1>3. DOMAIN table = {} /\ IsFiniteSet(DOMAIN table) /\ table \in [DOMAIN table -> Product]
  BY <1>2, FS_EmptySet
<1>4. CatalogueFair
  BY <1>1, <1>2, <1>3 DEF CatalogueFair
<1>5. BucketFair
  BY <1>1, <1>2, <1>3 DEF BucketFair
<1>6. CartsFair
  BY <1>1, NoCartFair DEF CartsFair
<1>7. SalesFair
  BY <1>1, <1>2, <1>3
  DEF SalesFair, SalesStand, SoldProductsStay, ScreenshotsAreTheOrders, DeliversHome
<1> QED
  BY <1>4, <1>5, <1>6, <1>7 DEF SInv

(* An edit of the catalogue: what waits for its prices has seen it.        *)
LEMMA EditKeeps ==
  ASSUME SInv, CatalogueStep
  PROVE  SInv'
<1>0. /\ visits \in Nat /\ cart \in [Buyers -> Cart]
      /\ \A b \in Buyers : CartFair(cart[b], objects, products, seen[b], removed[b], visits)
      /\ \A b, c \in Buyers : cart[b] # NoCart /\ cart[b].visit = cart[c].visit => b = c
  BY DEF SInv, CartsFair
<1>1. /\ cart' = cart /\ sales' = sales /\ objects' = objects
      /\ clock' = clock /\ visits' = visits
      /\ CreateProduct \/ UpdateProduct \/ DeleteProduct(HeldIds)
      /\ seen' = [b \in Buyers |->
                    IF cart[b].pc = "price" THEN seen[b] \cup {products'} ELSE seen[b]]
      /\ removed' = [b \in Buyers |->
                       IF cart[b].pc \in {"idle", "price"} THEN removed[b]
                       ELSE removed[b] \cup (DOMAIN products \ DOMAIN products')]
  BY DEF CatalogueStep, CatalogueSeen
<1>2. /\ CatalogueFair'
      /\ \A id \in DOMAIN products \cap DOMAIN products' :
           products'[id].serial = products[id].serial
      /\ \A id \in SoldIds \cap DOMAIN products :
           id \in DOMAIN products' /\ products'[id].serial = products[id].serial
  BY <1>1, CatalogueStays DEF SInv
<1>3. BucketFair'
  BY <1>1 DEF SInv, BucketFair
<1>4. CartsFair'
  <2>1. ASSUME NEW b \in Buyers
        PROVE  CartFair(cart'[b], objects', products', seen'[b], removed'[b], visits')
    <3>1. PICK q, bucket, table, new, catalogues, now, gone, lost :
            /\ q = cart[b] /\ bucket = objects /\ table = products /\ new = products'
            /\ catalogues = seen[b] /\ now = seen'[b]
            /\ gone = removed[b] /\ lost = removed'[b]
      OBVIOUS
    <3>2. /\ CartFair(q, bucket, table, catalogues, gone, visits) /\ Grown(bucket, bucket)
          /\ catalogues \subseteq now
          /\ q.pc = "price" => new \in now
          /\ gone \subseteq lost
      BY <1>0, <1>1, <3>1 DEF Grown
    <3>3. q.pc \notin {"idle", "price"} => Standing(table, lost, new)
      BY <1>1, <1>2, <3>1 DEF Standing
    <3>4. CartFair(q, bucket, new, now, lost, visits)
      BY <3>2, <3>3, FairBesideEditors
    <3> QED
      BY <1>1, <3>1, <3>4
  <2>2. /\ seen' = [b \in Buyers |-> seen'[b]]
        /\ removed' = [b \in Buyers |-> removed'[b]]
    BY <1>1
  <2> QED
    BY <1>0, <1>1, <2>1, <2>2 DEF CartsFair
<1>5. SalesFair'
  <2>1. visits' \in {visits, visits + 1} /\ Grown(objects, objects')
    BY <1>1 DEF Grown
  <2> QED
    BY <1>0, <1>1, <1>2, <2>1, SalesStay DEF SInv
<1> QED
  BY <1>2, <1>3, <1>4, <1>5 DEF SInv

LEMMA IntakeKeeps ==
  ASSUME SInv, IntakeNext
  PROVE  SInv'
<1>0. /\ visits \in Nat /\ products' = products /\ UNCHANGED catalogue
      /\ CatalogueFair' /\ CatalogueFair /\ BucketFair /\ CartsFair /\ SalesFair
  BY DEF SInv, CartsFair, IntakeNext, catalogue, CatalogueFair
<1>1. ASSUME BucketFair', CartsFair', sales' = sales, visits' \in {visits, visits + 1},
             Grown(objects, objects')
      PROVE  SInv'
  <2>1. SalesFair'
    BY <1>0, <1>1, SalesStay
  <2> QED
    BY <1>0, <1>1, <2>1 DEF SInv
<1>2. CASE RemoveSale
  <2>1. /\ cart' = cart /\ objects' = objects /\ clock' = clock /\ visits' = visits
        /\ seen' = seen /\ removed' = removed /\ Grown(objects, objects')
        /\ \A v \in DOMAIN sales' : v \in DOMAIN sales /\ sales'[v] = sales[v]
    BY <1>2 DEF RemoveSale, Grown
  <2>2. CartsFair'
    BY <1>0, <2>1 DEF CartsFair
  <2>3. BucketFair'
    BY <1>0, <2>1 DEF BucketFair
  <2>4. SalesFair'
    BY <1>0, <2>1, SalesStay
  <2> QED
    BY <1>0, <2>2, <2>3, <2>4 DEF SInv
<1>3. ASSUME NEW b \in Buyers, IntakeStep(b)
      PROVE  SInv'
  <2>1. ASSUME UNCHANGED <<objects, clock>>
        PROVE  BucketFair' /\ Grown(objects, objects')
    BY <1>0, <2>1 DEF BucketFair, Grown
  <2>2. CASE CreateOrder(b)
    <3>1. PICK actor \in Shoppers, basket \in Baskets : Enter(b, FALSE, actor, 0, basket, FALSE)
      BY <2>2 DEF CreateOrder
    <3>2. CartsFair'
      BY <1>0, <3>1, EnterKeeps
    <3>3. visits' = visits + 1 /\ sales' = sales /\ UNCHANGED <<objects, clock>>
      BY <3>1 DEF Enter
    <3> QED
      BY <1>1, <2>1, <3>2, <3>3
  <2>3. CASE Checkout(b)
    <3>1. PICK actor \in Customers, address \in 1 .. last, basket \in Baskets,
               proof \in BOOLEAN : Enter(b, TRUE, actor, address, basket, proof)
      BY <2>3 DEF Checkout
    <3>2. actor \in Shoppers /\ address \in Nat
      BY DEF Shoppers
    <3>3. CartsFair'
      BY <1>0, <3>1, <3>2, EnterKeeps
    <3>4. visits' = visits + 1 /\ sales' = sales /\ UNCHANGED <<objects, clock>>
      BY <3>1 DEF Enter
    <3> QED
      BY <1>1, <2>1, <3>3, <3>4
  <2>4. CASE PriceBasket(b)
    BY <1>0, <1>1, <2>1, <2>4, PriceKeeps DEF PriceBasket
  <2>5. CASE Upload(b)
    BY <1>0, <1>1, <2>5, UploadKeeps DEF Upload
  <2>6. CASE ReadShopper(b)
    BY <1>0, <1>1, <2>1, <2>6, ReadShopperKeeps DEF ReadShopper
  <2>7. CASE ReadAddress(b)
    BY <1>0, <1>1, <2>1, <2>7, ReadAddressKeeps DEF ReadAddress
  <2>8. CASE InsertSale(b)
    <3>1. CartsFair' /\ SalesFair'
      BY <1>0, <2>8, InsertKeeps
    <3>2. UNCHANGED <<objects, clock>>
      BY <2>8 DEF InsertSale
    <3> QED
      BY <1>0, <2>1, <3>1, <3>2 DEF SInv
  <2>9. CASE IntakeFails(b)
    BY <1>0, <1>1, <2>1, <2>9, LeaveKeeps DEF IntakeFails
  <2> QED
    BY <1>3, <2>2, <2>3, <2>4, <2>5, <2>6, <2>7, <2>8, <2>9 DEF IntakeStep
<1> QED
  BY <1>2, <1>3 DEF IntakeNext

LEMMA SStep ==
  ASSUME SInv, [StorefrontNext]_storefront
  PROVE  SInv'
<1>1. ASSUME UNCHANGED <<catalogue, intake>>
      PROVE  SInv'
  <2>1. /\ products' = products /\ edits' = edits /\ cart' = cart /\ sales' = sales
        /\ objects' = objects /\ clock' = clock /\ visits' = visits
        /\ seen' = seen /\ removed' = removed
    BY <1>1 DEF catalogue, intake
  <2>2. CatalogueFair'
    BY <2>1 DEF SInv, CatalogueFair
  <2>3. BucketFair'
    BY <2>1 DEF SInv, BucketFair
  <2>4. CartsFair'
    BY <2>1 DEF SInv, CartsFair
  <2>5. SalesFair'
    BY <2>1 DEF SInv, SalesFair, SalesStand, SoldProductsStay, ScreenshotsAreTheOrders,
                DeliversHome
  <2> QED
    BY <2>2, <2>3, <2>4, <2>5 DEF SInv
<1>2. CASE BookStep
  BY <1>1, <1>2 DEF BookStep
<1>3. CASE ExportStep
  BY <1>1, <1>3 DEF ExportStep
<1>4. CASE UNCHANGED storefront
  BY <1>1, <1>4 DEF storefront
<1> QED
  BY <1>2, <1>3, <1>4, EditKeeps, IntakeKeeps DEF StorefrontNext

(* As long as an order exists, the ids in its lines stand for the products *)
(* they were priced from, but for ids deleted between pricing and insert;  *)
(* its screenshot is the shopper's, a checkout delivers to an address that *)
(* was the shopper's (Create and Checkout of services/                     *)
(* orders/service.go, the foreign key of order_items, GenerateKey), for    *)
(* any catalogue, any number of shoppers and any number of requests.       *)
THEOREM OrdersStand == StorefrontSpec => []SalesStand
<1>1. StorefrontInit => SInv
  BY SInitial
<1>2. SInv /\ [StorefrontNext]_storefront => SInv'
  BY SStep
<1>3. SInv => SalesStand
  BY DEF SInv, SalesFair
<1> QED
  BY <1>1, <1>2, <1>3, PTL DEF StorefrontSpec

-----------------------------------------------------------------------------
(* A new order is stored by the request whose visit it bears, because no   *)
(* other has that visit, and with what that request was told of one of the *)
(* catalogues it has seen.                                                 *)
LEMMA SoldByItsRequest ==
  ASSUME SInv, StorefrontNext, NEW b \in Buyers,
         cart[b].visit \in DOMAIN sales' \ DOMAIN sales
  PROVE  \E snapshot \in seen[b] :
           /\ cart[b].basket \subseteq DOMAIN snapshot
           /\ sales'[cart[b].visit].lines = [id \in cart[b].basket |-> snapshot[id]]
<1>0. CartsFair
  BY DEF SInv
<1>1. PICK c \in Buyers : InsertSale(c)
  <2>1. sales' # sales
    OBVIOUS
  <2>2. CASE BookStep \/ ExportStep
    BY <2>1, <2>2 DEF BookStep, ExportStep, intake
  <2>3. CASE CatalogueStep
    BY <2>1, <2>3 DEF CatalogueStep
  <2>4. CASE IntakeNext
    <3>1. ~ RemoveSale
      BY DEF RemoveSale
    <3>2. PICK c \in Buyers : IntakeStep(c)
      BY <2>4, <3>1 DEF IntakeNext
    <3>3. InsertSale(c)
      BY <2>1, <3>2
      DEF IntakeStep, CreateOrder, Checkout, Enter, PriceBasket, Upload, ReadShopper,
          ReadAddress, IntakeFails
    <3> QED
      BY <3>3
  <2> QED
    BY <2>2, <2>3, <2>4 DEF StorefrontNext
<1>2. PICK q : q = cart[c]
  OBVIOUS
<1>3. q.pc = "insert" /\ CartFair(q, objects, products, seen[c], removed[c], visits)
  BY <1>0, <1>1, <1>2 DEF InsertSale, CartsFair
<1>4. PICK sale : sale =
        [actor |-> q.actor, home |-> q.home, checkout |-> q.checkout,
         lines |-> q.lines, shot |-> q.shot, gone |-> removed[c]]
  OBVIOUS
<1>5. sales' = [v \in DOMAIN sales \cup {q.visit} |->
                  IF v = q.visit THEN sale ELSE sales[v]]
  <2>1. sales' = IF ReferencesHold(q)
                 THEN [v \in DOMAIN sales \cup {q.visit} |->
                         IF v = q.visit THEN sale ELSE sales[v]]
                 ELSE sales
    BY <1>1, <1>2, <1>4 DEF InsertSale
  <2> QED
    BY <2>1
<1>6. cart[b].visit = q.visit /\ sales'[q.visit] = sale
  BY <1>5
<1>7. b = c
  BY <1>0, <1>2, <1>3, <1>6, NoCartFair DEF CartsFair
<1>8. PICK snapshot \in seen[b] : PricedFrom(q, snapshot)
  BY <1>3, <1>7 DEF CartFair
<1>9. sales'[cart[b].visit].lines = q.lines /\ cart[b] = q
  BY <1>2, <1>4, <1>6, <1>7
<1> QED
  BY <1>8, <1>9 DEF PricedFrom

(* The lines of a new order carry the prices of one catalogue that was     *)
(* there between the request and its pricing (priceBasket of services/     *)
(* orders/service.go, one query), whatever the editors write meanwhile.    *)
THEOREM OneCatalogueForABasket == StorefrontSpec => SoldAtOneCatalogue
<1>1. StorefrontInit => SInv
  BY SInitial
<1>2. SInv /\ [StorefrontNext]_storefront => SInv'
  BY SStep
<1>3. SInv /\ [StorefrontNext]_storefront =>
        [\A b \in Buyers :
           (DOMAIN sales' # DOMAIN sales /\ cart[b].visit \in DOMAIN sales' \ DOMAIN sales)
             => \E snapshot \in seen[b] :
                  /\ cart[b].basket \subseteq DOMAIN snapshot
                  /\ sales'[cart[b].visit].lines
                       = [id \in cart[b].basket |-> snapshot[id]]]_<<intake, catalogue>>
  <2> SUFFICES ASSUME SInv, StorefrontNext, NEW b \in Buyers,
                      cart[b].visit \in DOMAIN sales' \ DOMAIN sales
               PROVE  \E snapshot \in seen[b] :
                        /\ cart[b].basket \subseteq DOMAIN snapshot
                        /\ sales'[cart[b].visit].lines
                             = [id \in cart[b].basket |-> snapshot[id]]
    BY DEF storefront
  <2> QED
    BY SoldByItsRequest
<1> QED
  BY <1>1, <1>2, <1>3, PTL DEF StorefrontSpec, SoldAtOneCatalogue

-----------------------------------------------------------------------------
(* The index.  It says of each row of the table what the row says, and of  *)
(* no other, through every write: what a trigger takes out are the entries *)
(* of the row as it was.                                                   *)

LEMMA EntriesOfARow ==
  ASSUME NEW id, NEW row
  PROVE  /\ \A i, text : <<i, text>> \in Entries(id, row) <=>
                           i = id /\ row.text # NoText /\ row.text = text
         /\ \A e \in Entries(id, row) : \E i, text : e = <<i, text>>
<1>1. CASE row.text = NoText
  <2>1. Entries(id, row) = {}
    BY <1>1 DEF Entries
  <2> QED
    BY <1>1, <2>1
<1>2. CASE row.text # NoText
  <2>1. Entries(id, row) = {<<id, row.text>>}
    BY <1>2 DEF Entries
  <2>2. \A i, text : <<i, text>> = <<id, row.text>> <=> i = id /\ row.text = text
    OBVIOUS
  <2> QED
    BY <1>2, <2>1, <2>2
<1> QED
  BY <1>1, <1>2

LEMMA EntriesAreTheIds ==
  ASSUME NEW table, NEW id, NEW text
  PROVE  <<id, text>> \in IndexOf(table) <=>
           id \in DOMAIN table /\ table[id].text # NoText /\ table[id].text = text
<1>1. ASSUME NEW i, NEW row
      PROVE  <<id, text>> \in Entries(i, row) <=>
               id = i /\ row.text # NoText /\ row.text = text
  BY EntriesOfARow
<1>2. <<id, text>> \in IndexOf(table) <=>
        \E i \in DOMAIN table : <<id, text>> \in Entries(i, table[i])
  BY DEF IndexOf
<1> QED
  BY <1>1, <1>2

LEMMA IndexIsPairs ==
  ASSUME NEW table
  PROVE  \A e \in IndexOf(table) : \E id, text : e = <<id, text>>
<1> SUFFICES ASSUME NEW e \in IndexOf(table)
             PROVE  \E id, text : e = <<id, text>>
  OBVIOUS
<1>1. PICK id \in DOMAIN table : e \in Entries(id, table[id])
  BY DEF IndexOf
<1> QED
  BY <1>1, EntriesOfARow

IndexFair == CatalogueFair /\ index = IndexOf(products)

LEMMA WritesAreIndexed ==
  ASSUME IndexFair, CreateProduct \/ UpdateProduct \/ DeleteProduct(HeldIds)
  PROVE  index' = IndexOf(products')
<1>0. /\ edits \in Nat
      /\ products \in [DOMAIN products -> Product]
      /\ DOMAIN products \subseteq Nat \ {0}
      /\ index = IndexOf(products)
  BY DEF IndexFair, CatalogueFair
<1> SUFFICES \A e : e \in index' <=> e \in IndexOf(products')
  OBVIOUS
<1>1. \A e \in index : \E id, text : e = <<id, text>>
  BY <1>0, IndexIsPairs
<1>2. SUFFICES /\ \A e \in index' : \E id, text : e = <<id, text>>
               /\ \A i, text : <<i, text>> \in index' <=>
                    i \in DOMAIN products' /\ products'[i].text # NoText
                                          /\ products'[i].text = text
  <2>1. \A i, text : <<i, text>> \in IndexOf(products') <=>
          i \in DOMAIN products' /\ products'[i].text # NoText
                                /\ products'[i].text = text
    BY EntriesAreTheIds
  <2>2. \A e \in IndexOf(products') : \E i, text : e = <<i, text>>
    BY IndexIsPairs
  <2> QED
    BY <2>1, <2>2
<1>3. \A i, text : <<i, text>> \in index <=>
        i \in DOMAIN products /\ products[i].text # NoText /\ products[i].text = text
  BY <1>0, EntriesAreTheIds
<1>4. \A id, row, i, text : <<i, text>> \in Entries(id, row) <=>
        i = id /\ row.text # NoText /\ row.text = text
  BY EntriesOfARow
<1>5. \A id, row : \A e \in Entries(id, row) : \E i, text : e = <<i, text>>
  BY EntriesOfARow
<1>6. CASE CreateProduct
  <2>0. PICK price \in Prices, text \in Texts \cup {NoText}, id \in FreeIds(products) :
          /\ products' = [i \in DOMAIN products \cup {id} |->
                            IF i = id
                            THEN [serial |-> edits + 1, price |-> price, text |-> text]
                            ELSE products[i]]
          /\ index' = index \cup Entries(id, [serial |-> edits + 1, price |-> price,
                                              text |-> text])
    BY <1>6 DEF CreateProduct, IndexInserted
  <2>1. PICK row :
          /\ products' = [i \in DOMAIN products \cup {id} |->
                            IF i = id THEN row ELSE products[i]]
          /\ index' = index \cup Entries(id, row)
    BY <2>0
  <2>2. id \notin DOMAIN products
    BY <1>0, FreeIdIsNew
  <2>3. /\ DOMAIN products' = DOMAIN products \cup {id} /\ products'[id] = row
        /\ \A i \in DOMAIN products : products'[i] = products[i]
    BY <2>1, <2>2
  <2>4. \A e \in index' : \E i, t : e = <<i, t>>
    BY <1>1, <1>5, <2>1
  <2>5. \A i, t : <<i, t>> \in index' <=>
          <<i, t>> \in index \/ (i = id /\ row.text # NoText /\ row.text = t)
    BY <1>4, <2>1
  <2>6. \A i, t : <<i, t>> \in index' <=>
          i \in DOMAIN products' /\ products'[i].text # NoText /\ products'[i].text = t
    BY <1>3, <2>2, <2>3, <2>5
  <2> QED
    BY <2>4, <2>6
<1>7. CASE UpdateProduct
  <2>1. PICK id, row :
          /\ id \in DOMAIN products
          /\ products' = [products EXCEPT ![id] = row]
          /\ index' = (index \ Entries(id, products[id])) \cup Entries(id, row)
    BY <1>7 DEF UpdateProduct, IndexUpdated, IndexInserted, IndexDeleted
  <2>3. /\ DOMAIN products' = DOMAIN products /\ products'[id] = row
        /\ \A i \in DOMAIN products \ {id} : products'[i] = products[i]
    BY <1>0, <2>1
  <2>4. \A e \in index' : \E i, t : e = <<i, t>>
    BY <1>1, <1>5, <2>1
  <2>5. \A i, t : <<i, t>> \in index' <=>
          \/ <<i, t>> \in index
               /\ ~ (i = id /\ products[id].text # NoText /\ products[id].text = t)
          \/ i = id /\ row.text # NoText /\ row.text = t
    <3>1. \A i, t : <<i, t>> \in Entries(id, products[id]) <=>
                       i = id /\ products[id].text # NoText /\ products[id].text = t
      BY <1>4
    <3>2. \A i, t : <<i, t>> \in Entries(id, row) <=> i = id /\ row.text # NoText /\ row.text = t
      BY <1>4
    <3>3. \A e : e \in index' <=>
                    (e \in index /\ e \notin Entries(id, products[id])) \/ e \in Entries(id, row)
      BY <2>1
    <3> QED
      BY <3>1, <3>2, <3>3
  <2>6. \A i, t : <<i, t>> \in index' <=>
          i \in DOMAIN products' /\ products'[i].text # NoText /\ products'[i].text = t
    <3> SUFFICES ASSUME NEW i, NEW t
                 PROVE  <<i, t>> \in index' <=> /\ i \in DOMAIN products'
                                                /\ products'[i].text # NoText
                                                /\ products'[i].text = t
      OBVIOUS
    <3>1. CASE i = id
      BY <1>3, <2>1, <2>3, <2>5, <3>1
    <3>2. CASE i # id
      BY <1>3, <2>3, <2>5, <3>2
    <3> QED
      BY <3>1, <3>2
  <2> QED
    BY <2>4, <2>6
<1>8. CASE DeleteProduct(HeldIds)
  <2>1. PICK id \in DOMAIN products :
          /\ products' = [i \in DOMAIN products \ {id} |-> products[i]]
          /\ index' = index \ Entries(id, products[id])
    BY <1>8 DEF DeleteProduct, IndexDeleted
  <2>3. /\ DOMAIN products' = DOMAIN products \ {id}
        /\ \A i \in DOMAIN products \ {id} : products'[i] = products[i]
    BY <2>1
  <2>4. \A e \in index' : \E i, t : e = <<i, t>>
    BY <1>1, <2>1
  <2>5. \A i, t : <<i, t>> \in index' <=>
          <<i, t>> \in index
            /\ ~ (i = id /\ products[id].text # NoText /\ products[id].text = t)
    BY <1>4, <2>1
  <2>6. \A i, t : <<i, t>> \in index' <=>
          i \in DOMAIN products' /\ products'[i].text # NoText /\ products'[i].text = t
    BY <1>3, <2>3, <2>5
  <2> QED
    BY <2>4, <2>6
<1> QED
  BY <1>6, <1>7, <1>8

LEMMA IndexIsFair == StorefrontSpec => []IndexFair
<1>1. StorefrontInit => SInv /\ IndexFair
  <2> SUFFICES ASSUME StorefrontInit
               PROVE  SInv /\ IndexFair
    OBVIOUS
  <2>1. SInv
    BY SInitial
  <2>2. IndexOf(<<>>) = {}
    BY DEF IndexOf
  <2> QED
    BY <2>1, <2>2 DEF SInv, IndexFair, StorefrontInit, CatalogueInit
<1>2. SInv /\ IndexFair /\ [StorefrontNext]_storefront => (SInv /\ IndexFair)'
  <2> SUFFICES ASSUME SInv, IndexFair, [StorefrontNext]_storefront
               PROVE  SInv' /\ IndexFair'
    OBVIOUS
  <2>1. SInv' /\ CatalogueFair'
    BY SStep DEF SInv
  <2>2. CASE CatalogueStep
    <3>1. index' = IndexOf(products')
      BY <2>2, WritesAreIndexed DEF CatalogueStep
    <3> QED
      BY <2>1, <3>1 DEF IndexFair
  <2>3. CASE ~ CatalogueStep
    <3>1. UNCHANGED catalogue
      BY <2>3 DEF StorefrontNext, BookStep, IntakeNext, ExportStep, storefront
    <3>2. index' = index /\ products' = products
      BY <3>1 DEF catalogue
    <3> QED
      BY <2>1, <3>2 DEF IndexFair
  <2> QED
    BY <2>2, <2>3
<1> QED
  BY <1>1, <1>2, PTL DEF StorefrontSpec

(* What the WHERE of a search selects are the products whose present text  *)
(* and price match: the index is never behind the table nor ahead of it,   *)
(* whatever was created, rewritten and deleted under an id before.         *)
SearchesTheTable ==
  \A filter \in Filters :
    Matching(products, index, filter) =
      {id \in DOMAIN products :
         /\ filter.query \in {NoText, products[id].text}
         /\ filter.maxPrice > 0 => products[id].price <= filter.maxPrice}

(* The triggers of migrations/0001_init.sql keep products_fts the index of *)
(* the table, so that Search (services/products/repository.go) selects     *)
(* what is stored, for any number of products, texts and edits.            *)
THEOREM IndexFollowsTable == StorefrontSpec => []SearchesTheTable
<1>1. IndexFair => SearchesTheTable
  <2> SUFFICES ASSUME IndexFair, NEW filter \in Filters, NEW id \in DOMAIN products
               PROVE  (filter.query # NoText => <<id, filter.query>> \in index)
                        <=> filter.query \in {NoText, products[id].text}
    BY DEF SearchesTheTable, Matching
  <2>1. <<id, filter.query>> \in index <=>
          products[id].text # NoText /\ products[id].text = filter.query
    BY EntriesAreTheIds DEF IndexFair
  <2> QED
    BY <2>1
<1> QED
  BY <1>1, IndexIsFair, PTL

-----------------------------------------------------------------------------
(***************************************************************************)
(* The export.  That no row is taken twice needs that a row once taken     *)
(* stays, while it is there, in front of the OFFSET: new rows are put      *)
(* behind all others and a deletion only moves rows forward (TakenFair).   *)
(* That none is lost unless one was deleted needs the converse, that what  *)
(* is in front of the OFFSET has been taken (WholeFair).                   *)
(***************************************************************************)

(* Where a row stands in ORDER BY rowid, counted from 0.                   *)
Place(table, id) == Cardinality(Below(DOMAIN table, id))

(* The rows of the script: the page and the line of the page.              *)
Places(pages) ==
  {at \in (DOMAIN pages) \X (1 .. PageSize) : at[2] <= Len(pages[at[1]])}

Item(pages, at) == pages[at[1]][at[2]]

(* Serials are not given out again.                                        *)
SerialsFair(table, n) ==
  /\ \A id \in DOMAIN table : table[id].serial \in 1 .. n
  /\ \A i, j \in DOMAIN table : table[i].serial = table[j].serial => i = j

Row == [id : Nat, row : Product]

(* The script: no serial twice, and none that is yet to come.              *)
ScriptFair(pages, n) ==
  /\ pages \in Seq(Seq(Row))
  /\ \A k \in DOMAIN pages : Len(pages[k]) <= PageSize
  /\ \A at \in Places(pages) : Item(pages, at).row.serial \in 1 .. n
  /\ \A at, to \in Places(pages) :
       Item(pages, at).row.serial = Item(pages, to).row.serial => at = to

TakenFair(pages, offset, table) ==
  \A id \in DOMAIN table, at \in Places(pages) :
    Item(pages, at).row.serial = table[id].serial => Place(table, id) < offset

(* A row of the script that says what a table does of its id.              *)
Agrees(pages, at, table) ==
  /\ Item(pages, at).id \in DOMAIN table
  /\ table[Item(pages, at).id].serial = Item(pages, at).row.serial

WholeFair(pages, offset, table, start) ==
  /\ offset <= Cardinality(DOMAIN table)
  /\ \A id \in DOMAIN table : Place(table, id) < offset =>
       \E at \in Places(pages) : Item(pages, at).id = id /\ Agrees(pages, at, table)
  /\ \A at \in Places(pages) : Agrees(pages, at, table)
  /\ \A id \in DOMAIN start : id \in DOMAIN table /\ table[id].serial = start[id].serial

(* After the last page: the rows there were at the start are in the        *)
(* script, no id is there twice, and of the pages that are loaded every    *)
(* row is in the local table, with no row of any other page.               *)
ScriptWhole(pages, start) ==
  /\ \A id \in DOMAIN start :
       \E at \in Places(pages) : Item(pages, at).id = id /\ Agrees(pages, at, start)
  /\ \A at, to \in Places(pages) : Item(pages, at).id = Item(pages, to).id => at = to

LoadFair(pages, rows, n) ==
  /\ n \in 0 .. Len(pages)
  /\ \A at \in Places(pages) : at[1] <= n => Agrees(pages, at, rows)
  /\ \A id \in DOMAIN rows :
       \E at \in Places(pages) : at[1] <= n /\ Item(pages, at).id = id

DumpPcs == {"off", "pages", "load", "loaded", "edited"}

DumpType ==
  /\ dump \in [pc : DumpPcs, offset : Nat, pages : Seq(Seq(Row))]
  /\ copy = [rows |-> copy.rows, index |-> copy.index, loaded |-> copy.loaded]
  /\ shrunk \in BOOLEAN
  /\ dump.pc = "off" => dump.offset = 0 /\ dump.pages = <<>>
  /\ dump.pc \in {"off", "pages"} => copy.rows = <<>> /\ copy.loaded = 0

DumpFair ==
  /\ DumpType
  /\ SerialsFair(products, edits)
  /\ ScriptFair(dump.pages, edits)
  /\ dump.pc = "pages" => TakenFair(dump.pages, dump.offset, products)
  /\ dump.pc = "pages" /\ ~ shrunk =>
       WholeFair(dump.pages, dump.offset, products, before)
  /\ dump.pc \in {"load", "loaded"} /\ ~ shrunk =>
       ScriptWhole(dump.pages, before)
  /\ dump.pc \in {"load", "loaded"} /\ ~ shrunk =>
       LoadFair(dump.pages, copy.rows, copy.loaded)
  /\ dump.pc = "loaded" => copy.loaded = Len(dump.pages)

-----------------------------------------------------------------------------
(* A page of the listing: its rows stand from the OFFSET on, and every row *)
(* that stands there is on it.                                             *)
LEMMA RowsOfAPage ==
  ASSUME CatalogueFair, NEW offset \in Nat
  PROVE  /\ Rows(PageSize, offset) \in Seq(DOMAIN products)
         /\ Len(Rows(PageSize, offset)) <= PageSize
         /\ \A n \in DOMAIN Rows(PageSize, offset) :
              /\ Rows(PageSize, offset)[n] \in DOMAIN products
              /\ Place(products, Rows(PageSize, offset)[n]) = offset + n - 1
         /\ \A id \in DOMAIN products :
              Place(products, id) \in offset .. offset + PageSize - 1 =>
                \E n \in DOMAIN Rows(PageSize, offset) : Rows(PageSize, offset)[n] = id
         /\ Len(Rows(PageSize, offset)) = PageSize
              => offset + PageSize <= Cardinality(DOMAIN products)
         /\ Len(Rows(PageSize, offset)) < PageSize
              => Cardinality(DOMAIN products) < offset + PageSize
<1>1. PICK ids, m, limit :
        ids = DOMAIN products /\ m = Cardinality(ids) /\ limit = PageSize
  OBVIOUS
<1>2. /\ ids \in SUBSET Nat /\ IsFiniteSet(ids) /\ m \in Nat /\ limit \in Nat \ {0}
  BY <1>1, FS_CardinalityType, DumpAssumption DEF CatalogueFair
<1>3. PICK rows : rows = ById(ids)
  OBVIOUS
<1>4. /\ rows \in [1 .. m -> ids]
      /\ \A n \in 1 .. m : rows[n] \in ids /\ Place(products, rows[n]) = n - 1
      /\ \A id \in ids : /\ Place(products, id) + 1 \in 1 .. m
                         /\ rows[Place(products, id) + 1] = id
  BY <1>1, <1>2, <1>3, ByIdNumbers DEF Place
<1>5. rows \in Seq(ids) /\ Len(rows) = m
  BY <1>2, <1>4
<1>6. PICK end : end = IF offset + limit < m THEN offset + limit ELSE m
  OBVIOUS
<1>7. end \in Nat /\ end <= m /\ end <= offset + limit
      /\ (end = offset + limit \/ end = m)
  BY <1>2, <1>6
<1>8. PICK page : page = SubSeq(rows, offset + 1, end)
  OBVIOUS
<1>9. Rows(PageSize, offset) = page
  BY <1>1, <1>2, <1>3, <1>5, <1>6, <1>8 DEF Rows, List, Page
<1>10. CASE end <= offset
  <2>1. page = <<>>
    BY <1>2, <1>5, <1>7, <1>8, <1>10
  <2>2. m <= offset
    BY <1>2, <1>7, <1>10
  <2>3. \A id \in ids : Place(products, id) < offset
    BY <1>2, <1>4, <2>2
  <2>4. page \in Seq(ids) /\ Len(page) = 0 /\ DOMAIN page = {}
    BY <2>1
  <2> QED
    BY <1>1, <1>2, <1>9, <2>2, <2>3, <2>4
<1>11. CASE offset < end
  <2>1. /\ page \in Seq(ids) /\ Len(page) = end - offset
        /\ \A n \in 1 .. end - offset : page[n] = rows[offset + n]
    BY <1>2, <1>5, <1>7, <1>8, <1>11
  <2>2. DOMAIN page = 1 .. end - offset
    BY <2>1
  <2>3. \A n \in DOMAIN page : page[n] \in ids /\ Place(products, page[n]) = offset + n - 1
    <3> SUFFICES ASSUME NEW n \in 1 .. end - offset
                 PROVE  page[n] \in ids /\ Place(products, page[n]) = offset + n - 1
      BY <2>2
    <3>1. PICK i : i = offset + n
      OBVIOUS
    <3>2. i \in 1 .. m /\ i - 1 = offset + n - 1
      BY <1>2, <1>7, <3>1
    <3>3. page[n] = rows[i]
      BY <2>1, <3>1
    <3>4. rows[i] \in ids /\ Place(products, rows[i]) = i - 1
      BY <1>4, <3>2
    <3> QED
      BY <3>2, <3>3, <3>4
  <2>4. ASSUME NEW id \in ids, Place(products, id) \in offset .. offset + limit - 1
        PROVE  \E n \in DOMAIN page : page[n] = id
    <3>1. PICK n : n = Place(products, id) + 1 - offset
      OBVIOUS
    <3>2. Place(products, id) + 1 \in 1 .. m
      BY <1>4
    <3>3. Place(products, id) \in Int /\ Place(products, id) < end
      <4>1. Place(products, id) \in Int /\ Place(products, id) < m
        BY <1>2, <2>4, <3>2
      <4> QED
        BY <1>2, <1>7, <2>4, <4>1
    <3>4. n \in 1 .. end - offset /\ offset + n = Place(products, id) + 1
      BY <1>2, <1>7, <2>4, <3>1, <3>3
    <3>5. page[n] = rows[Place(products, id) + 1]
      BY <2>1, <3>4
    <3> QED
      BY <1>4, <2>2, <3>4, <3>5
  <2>5. Len(page) <= limit /\ (Len(page) = limit => offset + limit <= m)
        /\ (Len(page) < limit => m < offset + limit)
    BY <1>2, <1>7, <2>1
  <2> QED
    BY <1>1, <1>9, <2>1, <2>3, <2>4, <2>5
<1> QED
  BY <1>2, <1>7, <1>10, <1>11

(* One more page in the script.                                            *)
LEMMA PlacesOfAppended ==
  ASSUME NEW pages \in Seq(Seq(Row)), NEW page \in Seq(Row), Len(page) <= PageSize,
         NEW k, k = Len(pages) + 1
  PROVE  /\ Append(pages, page) \in Seq(Seq(Row))
         /\ \A at : at \in Places(Append(pages, page)) <=>
              at \in Places(pages) \/ \E n \in DOMAIN page : at = <<k, n>>
         /\ \A at \in Places(pages) :
              at[1] # k /\ Item(Append(pages, page), at) = Item(pages, at)
         /\ \A n \in DOMAIN page : Item(Append(pages, page), <<k, n>>) = page[n]
<1>1. PICK longer : longer = Append(pages, page)
  OBVIOUS
<1>2. /\ longer \in Seq(Seq(Row)) /\ DOMAIN longer = DOMAIN pages \cup {k}
      /\ longer[k] = page /\ k \notin DOMAIN pages
      /\ \A i \in DOMAIN pages : longer[i] = pages[i]
  BY <1>1
<1>3. DOMAIN page = 1 .. Len(page) /\ Len(page) \in Nat /\ PageSize \in Nat
  BY DumpAssumption
<1>4. ASSUME NEW at
      PROVE  at \in Places(longer) <=>
               at \in Places(pages) \/ \E n \in DOMAIN page : at = <<k, n>>
  <2>1. ASSUME at \in Places(longer)
        PROVE  at \in Places(pages) \/ \E n \in DOMAIN page : at = <<k, n>>
    <3>1. PICK i \in DOMAIN longer, n \in 1 .. PageSize : at = <<i, n>>
      BY <2>1 DEF Places
    <3>2. n <= Len(longer[i])
      BY <2>1, <3>1 DEF Places
    <3>3. CASE i = k
      BY <1>2, <1>3, <3>1, <3>2, <3>3
    <3>4. CASE i \in DOMAIN pages
      BY <1>2, <3>1, <3>2, <3>4 DEF Places
    <3> QED
      BY <1>2, <3>3, <3>4
  <2>2. ASSUME at \in Places(pages)
        PROVE  at \in Places(longer)
    BY <1>2, <2>2 DEF Places
  <2>3. ASSUME NEW n \in DOMAIN page, at = <<k, n>>
        PROVE  at \in Places(longer)
    BY <1>2, <1>3, <2>3 DEF Places
  <2> QED
    BY <2>1, <2>2, <2>3
<1>5. \A at \in Places(pages) : at[1] # k /\ Item(longer, at) = Item(pages, at)
  BY <1>2 DEF Places, Item
<1>6. \A n \in DOMAIN page : Item(longer, <<k, n>>) = page[n]
  BY <1>2 DEF Item
<1> QED
  BY <1>1, <1>2, <1>4, <1>5, <1>6

(* What a page adds to the script.  `ids` are its rows, `table` and `n`    *)
(* the table it is read from and the writes there were.                    *)
Entry(table, ids) == [k \in DOMAIN ids |-> [id |-> ids[k], row |-> table[ids[k]]]]

LEMMA EntriesOfAPage ==
  ASSUME NEW table, table \in [DOMAIN table -> Product], DOMAIN table \subseteq Nat,
         NEW ids \in Seq(DOMAIN table)
  PROVE  /\ Entry(table, ids) \in Seq(Row) /\ DOMAIN Entry(table, ids) = DOMAIN ids
         /\ Len(Entry(table, ids)) = Len(ids)
         /\ \A k \in DOMAIN ids : /\ ids[k] \in DOMAIN table
                                  /\ Entry(table, ids)[k].id = ids[k]
                                  /\ Entry(table, ids)[k].row = table[ids[k]]
<1>1. Len(ids) \in Nat /\ DOMAIN ids = 1 .. Len(ids)
  OBVIOUS
<1>2. \A k \in 1 .. Len(ids) : ids[k] \in DOMAIN table
  OBVIOUS
<1>3. Entry(table, ids) = [k \in 1 .. Len(ids) |-> [id |-> ids[k], row |-> table[ids[k]]]]
  BY <1>1 DEF Entry
<1>4. \A k \in 1 .. Len(ids) : [id |-> ids[k], row |-> table[ids[k]]] \in Row
  BY <1>2 DEF Row
<1>5. Entry(table, ids) \in [1 .. Len(ids) -> Row]
  BY <1>3, <1>4
<1> QED
  BY <1>1, <1>2, <1>3, <1>5

LEMMA NextPageKeeps ==
  ASSUME CatalogueFair, DumpFair, NextPage, UNCHANGED catalogue
  PROVE  DumpFair'
<1>1. PICK table, offset, pages, ids, page, longer, k :
        /\ table = products /\ offset = dump.offset /\ pages = dump.pages
        /\ ids = Rows(PageSize, offset) /\ page = Entry(table, ids)
        /\ longer = Append(pages, page) /\ k = Len(pages) + 1
  OBVIOUS
<1>2. /\ dump.pc = "pages" /\ dump.offset \in Nat /\ copy.rows = <<>> /\ copy.loaded = 0
      /\ copy = [rows |-> copy.rows, index |-> copy.index, loaded |-> copy.loaded]
      /\ shrunk \in BOOLEAN
      /\ SerialsFair(products, edits) /\ ScriptFair(dump.pages, edits)
      /\ TakenFair(dump.pages, dump.offset, products)
      /\ ~ shrunk => WholeFair(dump.pages, dump.offset, products, before)
  BY DEF DumpFair, DumpType, NextPage
<1>3. /\ table \in [DOMAIN table -> Product] /\ DOMAIN table \subseteq Nat
      /\ IsFiniteSet(DOMAIN table) /\ Cardinality(DOMAIN table) \in Nat
      /\ offset \in Nat /\ PageSize \in Nat \ {0} /\ edits \in Nat
  BY <1>1, <1>2, FS_CardinalityType, DumpAssumption DEF CatalogueFair
<1>4. /\ dump' = [pc |-> IF Len(ids) < PageSize THEN "load" ELSE "pages",
                  offset |-> offset + PageSize, pages |-> longer]
      /\ copy' = copy /\ before' = before /\ shrunk' = shrunk
      /\ products' = products /\ edits' = edits
  BY <1>1 DEF NextPage, NextOffset, Entry, catalogue
<1>5. /\ ids \in Seq(DOMAIN table) /\ Len(ids) \in Nat /\ Len(ids) <= PageSize
      /\ \A n \in DOMAIN ids :
           ids[n] \in DOMAIN table /\ Place(table, ids[n]) = offset + n - 1
      /\ \A id \in DOMAIN table : Place(table, id) \in offset .. offset + PageSize - 1 =>
           \E n \in DOMAIN ids : ids[n] = id
      /\ Len(ids) = PageSize => offset + PageSize <= Cardinality(DOMAIN table)
      /\ Len(ids) < PageSize => Cardinality(DOMAIN table) < offset + PageSize
  <2>1. Rows(PageSize, offset) = ids /\ products = table
    BY <1>1
  <2>2. offset \in Nat
    BY <1>3
  <2>3. ids \in Seq(DOMAIN table)
    BY <2>1, <2>2, RowsOfAPage
  <2>4. Len(ids) \in Nat
    BY <2>3
  <2> QED
    BY <2>1, <2>2, <2>3, <2>4, RowsOfAPage
<1>6. /\ page \in Seq(Row) /\ DOMAIN page = DOMAIN ids /\ Len(page) = Len(ids)
      /\ \A n \in DOMAIN ids : page[n].id = ids[n] /\ page[n].row = table[ids[n]]
  <2>1. page = Entry(table, ids) /\ ids \in Seq(DOMAIN table)
    BY <1>1, <1>5
  <2>2. table \in [DOMAIN table -> Product] /\ DOMAIN table \subseteq Nat
    BY <1>3
  <2> QED
    BY <2>1, <2>2, EntriesOfAPage
<1>7. pages \in Seq(Seq(Row)) /\ \A i \in DOMAIN pages : Len(pages[i]) <= PageSize
  BY <1>1, <1>2 DEF ScriptFair
<1>8. /\ longer \in Seq(Seq(Row))
      /\ \A at : at \in Places(longer) <=>
           at \in Places(pages) \/ \E n \in DOMAIN page : at = <<k, n>>
      /\ \A at \in Places(pages) : at[1] # k /\ Item(longer, at) = Item(pages, at)
      /\ \A n \in DOMAIN page : Item(longer, <<k, n>>) = page[n]
  BY <1>1, <1>5, <1>6, <1>7, PlacesOfAppended
<1>9. \A n \in DOMAIN ids :
        /\ <<k, n>> \in Places(longer)
        /\ Item(longer, <<k, n>>).id = ids[n]
        /\ Item(longer, <<k, n>>).row = table[ids[n]]
  BY <1>6, <1>8
<1>10. \A id \in DOMAIN table : Place(table, id) \in Int /\ Place(table, id) >= 0
                                /\ Place(table, id) < Cardinality(DOMAIN table)
  BY <1>3, BelowIsLess DEF Place
<1>11. ScriptFair(longer, edits)
  <2>1. \A i \in DOMAIN longer : Len(longer[i]) <= PageSize
    BY <1>1, <1>5, <1>6, <1>7
  <2>2. \A at \in Places(longer) : Item(longer, at).row.serial \in 1 .. edits
    BY <1>1, <1>2, <1>5, <1>6, <1>8, <1>9 DEF ScriptFair, SerialsFair
  <2>3. ASSUME NEW at \in Places(longer), NEW to \in Places(longer),
               Item(longer, at).row.serial = Item(longer, to).row.serial
        PROVE  at = to
    <3>1. \A i \in Places(pages), n \in DOMAIN ids :
            Item(longer, i).row.serial # Item(longer, <<k, n>>).row.serial
      <4> SUFFICES ASSUME NEW i \in Places(pages), NEW n \in DOMAIN ids,
                          Item(pages, i).row.serial = table[ids[n]].serial
                   PROVE  FALSE
        BY <1>8, <1>9
      <4>1. Place(table, ids[n]) < offset
        BY <1>1, <1>2, <1>5 DEF TakenFair
      <4>2. Place(table, ids[n]) = offset + n - 1 /\ n \in Nat \ {0}
        BY <1>5
      <4> QED
        BY <1>3, <4>1, <4>2
    <3>2. \A n, m \in DOMAIN ids : table[ids[n]].serial = table[ids[m]].serial => n = m
      <4> SUFFICES ASSUME NEW n \in DOMAIN ids, NEW m \in DOMAIN ids,
                          table[ids[n]].serial = table[ids[m]].serial
                   PROVE  n = m
        OBVIOUS
      <4>1. ids[n] = ids[m]
        BY <1>1, <1>2, <1>5 DEF SerialsFair
      <4>2. offset + n - 1 = offset + m - 1 /\ n \in Nat /\ m \in Nat
        BY <1>5, <4>1
      <4> QED
        BY <1>3, <4>2
    <3>3. CASE at \in Places(pages) /\ to \in Places(pages)
      BY <1>1, <1>2, <1>8, <2>3, <3>3 DEF ScriptFair
    <3>4. CASE at \notin Places(pages) /\ to \notin Places(pages)
      <4>1. PICK n \in DOMAIN ids, m \in DOMAIN ids : at = <<k, n>> /\ to = <<k, m>>
        BY <1>6, <1>8, <3>4
      <4>2. table[ids[n]].serial = table[ids[m]].serial
        BY <1>9, <2>3, <4>1
      <4> QED
        BY <3>2, <4>1, <4>2
    <3>5. CASE at \in Places(pages) /\ to \notin Places(pages)
      BY <1>6, <1>8, <2>3, <3>1, <3>5
    <3>6. CASE at \notin Places(pages) /\ to \in Places(pages)
      BY <1>6, <1>8, <2>3, <3>1, <3>6
    <3> QED
      BY <3>3, <3>4, <3>5, <3>6
  <2> QED
    BY <1>8, <2>1, <2>2, <2>3 DEF ScriptFair
<1>12. TakenFair(longer, offset + PageSize, table)
  <2> SUFFICES ASSUME NEW id \in DOMAIN table, NEW at \in Places(longer),
                      Item(longer, at).row.serial = table[id].serial
               PROVE  Place(table, id) < offset + PageSize
    BY DEF TakenFair
  <2>1. CASE at \in Places(pages)
    <3>1. Place(table, id) < offset
      BY <1>1, <1>2, <1>8, <2>1 DEF TakenFair
    <3> QED
      BY <1>3, <1>10, <3>1
  <2>2. CASE at \notin Places(pages)
    <3>1. PICK n \in DOMAIN ids : at = <<k, n>>
      BY <1>6, <1>8, <2>2
    <3>2. id = ids[n]
      BY <1>1, <1>2, <1>5, <1>9, <3>1 DEF SerialsFair
    <3>3. Place(table, id) = offset + n - 1 /\ n \in 1 .. Len(ids)
      BY <1>5, <3>2
    <3> QED
      BY <1>3, <1>5, <3>3
  <2> QED
    BY <2>1, <2>2
<1>13. ASSUME ~ shrunk
       PROVE  /\ \A id \in DOMAIN table : Place(table, id) < offset + PageSize =>
                   \E at \in Places(longer) : Item(longer, at).id = id /\ Agrees(longer, at, table)
              /\ \A at \in Places(longer) : Agrees(longer, at, table)
              /\ \A id \in DOMAIN before :
                   id \in DOMAIN table /\ table[id].serial = before[id].serial
  <2>1. WholeFair(pages, offset, table, before)
    BY <1>1, <1>2, <1>13
  <2>2. \A at \in Places(longer) : Agrees(longer, at, table)
    <3> SUFFICES ASSUME NEW at \in Places(longer)
                 PROVE  Agrees(longer, at, table)
      OBVIOUS
    <3>1. CASE at \in Places(pages)
      BY <1>8, <2>1, <3>1 DEF WholeFair, Agrees
    <3>2. CASE at \notin Places(pages)
      BY <1>5, <1>6, <1>8, <1>9, <3>2 DEF Agrees
    <3> QED
      BY <3>1, <3>2
  <2>3. ASSUME NEW id \in DOMAIN table, Place(table, id) < offset + PageSize
        PROVE  \E at \in Places(longer) : Item(longer, at).id = id
    <3>1. CASE Place(table, id) < offset
      BY <1>8, <2>1, <3>1 DEF WholeFair
    <3>2. CASE ~ Place(table, id) < offset
      <4>1. Place(table, id) \in offset .. offset + PageSize - 1
        BY <1>3, <1>10, <2>3, <3>2
      <4>2. PICK n \in DOMAIN ids : ids[n] = id
        BY <1>5, <4>1
      <4> QED
        BY <1>9, <4>2
    <3> QED
      BY <3>1, <3>2
  <2> QED
    BY <2>1, <2>2, <2>3 DEF WholeFair
<1>14. DumpType'
  <2>1. longer \in Seq(Seq(Row)) /\ offset + PageSize \in Nat
    BY <1>3, <1>8
  <2> QED
    BY <1>2, <1>4, <2>1 DEF DumpType, DumpPcs
<1>15. CASE Len(ids) = PageSize
  <2>1. dump'.pc = "pages" /\ dump'.offset = offset + PageSize /\ dump'.pages = longer
    BY <1>3, <1>4, <1>15
  <2>2. ~ shrunk => WholeFair(longer, offset + PageSize, table, before)
    BY <1>5, <1>13, <1>15 DEF WholeFair
  <2> QED
    BY <1>1, <1>2, <1>4, <1>11, <1>12, <1>14, <2>1, <2>2 DEF DumpFair
<1>16. CASE Len(ids) < PageSize
  <2>1. dump'.pc = "load" /\ dump'.pages = longer
    BY <1>4, <1>16
  <2>2. ~ shrunk => ScriptWhole(longer, before)
    <3> SUFFICES ASSUME ~ shrunk
                 PROVE  ScriptWhole(longer, before)
      OBVIOUS
    <3>1. ASSUME NEW id \in DOMAIN before
          PROVE  \E at \in Places(longer) :
                   Item(longer, at).id = id /\ Agrees(longer, at, before)
      <4>1. id \in DOMAIN table /\ table[id].serial = before[id].serial
        BY <1>13
      <4>2. Place(table, id) < offset + PageSize
        BY <1>3, <1>5, <1>10, <1>16, <4>1
      <4>3. PICK at \in Places(longer) : Item(longer, at).id = id /\ Agrees(longer, at, table)
        BY <1>13, <4>1, <4>2
      <4> QED
        BY <4>1, <4>3 DEF Agrees
    <3>2. \A at, to \in Places(longer) :
            Item(longer, at).id = Item(longer, to).id => at = to
      BY <1>11, <1>13 DEF Agrees, ScriptFair
    <3> QED
      BY <3>1, <3>2 DEF ScriptWhole
  <2>3. LoadFair(longer, copy.rows, copy.loaded)
    <3>1. PICK rows, n : rows = <<>> /\ n = 0 /\ copy.rows = rows /\ copy.loaded = n
      BY <1>2
    <3>2. DOMAIN rows = {} /\ n \in 0 .. Len(longer)
      BY <1>8, <3>1
    <3>3. \A at \in Places(longer) : ~ (at[1] <= n)
      <4> SUFFICES ASSUME NEW at \in Places(longer)
                   PROVE  ~ (at[1] <= n)
        OBVIOUS
      <4>1. at[1] \in DOMAIN longer
        BY DEF Places
      <4> QED
        BY <1>8, <3>1, <4>1
    <3>4. LoadFair(longer, rows, n)
      BY <3>1, <3>2, <3>3 DEF LoadFair
    <3> QED
      BY <3>1, <3>4
  <2> QED
    BY <1>1, <1>2, <1>4, <1>11, <1>14, <2>1, <2>2, <2>3 DEF DumpFair
<1> QED
  BY <1>3, <1>5, <1>15, <1>16

-----------------------------------------------------------------------------
(* The other steps of the export. *)

LEMMA OneStatementLoads ==
  ASSUME NEW pages, NEW n \in Nat, NEW edited, ScriptFair(pages, edited), NEW rows, NEW start,
         ScriptWhole(pages, start), LoadFair(pages, rows, n), n < Len(pages),
         DumpAssumption
  PROVE  LoadFair(pages, LoadPage(rows, pages[n + 1]), n + 1)
<1>1. PICK k, page : k = n + 1 /\ page = pages[k]
  OBVIOUS
<1>2. /\ pages \in Seq(Seq(Row)) /\ k \in DOMAIN pages /\ k \in 1 .. Len(pages)
      /\ page \in Seq(Row) /\ Len(page) \in Nat /\ Len(page) <= PageSize
      /\ DOMAIN page = 1 .. Len(page)
  BY <1>1 DEF ScriptFair
<1>3. \A m \in DOMAIN page : <<k, m>> \in Places(pages) /\ Item(pages, <<k, m>>) = page[m]
  BY <1>1, <1>2 DEF Places, Item, DumpAssumption
<1>4. \A at \in Places(pages) : at[1] = k => \E m \in DOMAIN page : at = <<k, m>>
  BY <1>1, <1>2 DEF Places, DumpAssumption
<1>5. \A at \in Places(pages) : at[1] \in Nat
  BY <1>2 DEF Places
<1>6. PICK ids : ids = {page[m].id : m \in DOMAIN page}
  OBVIOUS
<1>7. ids \cap DOMAIN rows = {}
  <2> SUFFICES ASSUME NEW m \in DOMAIN page, page[m].id \in DOMAIN rows
               PROVE  FALSE
    BY <1>6
  <2>1. PICK at \in Places(pages) : at[1] <= n /\ Item(pages, at).id = page[m].id
    BY DEF LoadFair
  <2>2. at = <<k, m>>
    BY <1>3, <2>1 DEF ScriptWhole
  <2> QED
    BY <1>1, <2>1, <2>2
<1>8. PICK new : new = [id \in DOMAIN rows \cup ids |->
                          IF id \in ids
                          THEN page[CHOOSE m \in DOMAIN page : page[m].id = id].row
                          ELSE rows[id]]
  OBVIOUS
<1>9. LoadPage(rows, page) = new
  BY <1>6, <1>7, <1>8 DEF LoadPage
<1>10. \A m \in DOMAIN page : page[m].id \in DOMAIN new /\ new[page[m].id] = page[m].row
  <2> SUFFICES ASSUME NEW m \in DOMAIN page
               PROVE  page[m].id \in DOMAIN new /\ new[page[m].id] = page[m].row
    OBVIOUS
  <2>1. PICK other : other = CHOOSE i \in DOMAIN page : page[i].id = page[m].id
    OBVIOUS
  <2>2. other \in DOMAIN page /\ page[other].id = page[m].id
    BY <2>1
  <2>3. <<k, other>> = <<k, m>>
    BY <1>3, <2>2 DEF ScriptWhole
  <2>4. other = m
    BY <2>3
  <2>5. page[m].id \in ids
    BY <1>6
  <2> QED
    BY <1>8, <2>1, <2>4, <2>5
<1>11. \A id \in DOMAIN rows : id \in DOMAIN new /\ new[id] = rows[id]
  BY <1>7, <1>8
<1>12. ASSUME NEW at \in Places(pages), at[1] <= k
       PROVE  Agrees(pages, at, new)
  <2>1. CASE at[1] <= n
    <3>1. Agrees(pages, at, rows)
      BY <2>1 DEF LoadFair
    <3> QED
      BY <1>11, <3>1 DEF Agrees
  <2>2. CASE ~ (at[1] <= n)
    <3>1. at[1] = k
      BY <1>1, <1>5, <1>12, <2>2
    <3>2. PICK m \in DOMAIN page : at = <<k, m>>
      BY <1>4, <3>1
    <3> QED
      BY <1>3, <1>10, <3>2 DEF Agrees
  <2> QED
    BY <2>1, <2>2
<1>13. ASSUME NEW id \in DOMAIN new
       PROVE  \E at \in Places(pages) : at[1] <= k /\ Item(pages, at).id = id
  <2>1. CASE id \in DOMAIN rows
    <3>1. PICK at \in Places(pages) : at[1] <= n /\ Item(pages, at).id = id
      BY <2>1 DEF LoadFair
    <3>2. at[1] <= k
      BY <1>1, <1>5, <3>1
    <3> QED
      BY <3>1, <3>2
  <2>2. CASE id \in ids
    <3>1. PICK m \in DOMAIN page : page[m].id = id
      BY <1>6, <2>2
    <3>2. PICK at : at = <<k, m>>
      OBVIOUS
    <3>3. at \in Places(pages) /\ at[1] <= k /\ Item(pages, at).id = id
      BY <1>2, <1>3, <3>1, <3>2
    <3> QED
      BY <3>3
  <2> QED
    BY <1>8, <2>1, <2>2
<1>14. k \in 0 .. Len(pages)
  BY <1>2
<1>15. LoadFair(pages, new, k)
  BY <1>12, <1>13, <1>14 DEF LoadFair
<1> QED
  BY <1>1, <1>9, <1>15

LEMMA ExportKeeps ==
  ASSUME CatalogueFair, DumpFair, DumpStep, UNCHANGED catalogue
  PROVE  DumpFair'
<1>0. /\ products' = products /\ edits' = edits /\ edits \in Nat /\ shrunk \in BOOLEAN
      /\ DOMAIN products \subseteq Nat /\ IsFiniteSet(DOMAIN products)
      /\ dump \in [pc : DumpPcs, offset : Nat, pages : Seq(Seq(Row))]
      /\ copy = [rows |-> copy.rows, index |-> copy.index, loaded |-> copy.loaded]
      /\ dump.pc = "off" => dump.offset = 0 /\ dump.pages = <<>>
      /\ dump.pc \in {"off", "pages"} => copy.rows = <<>> /\ copy.loaded = 0
      /\ SerialsFair(products, edits) /\ ScriptFair(dump.pages, edits)
  BY DEF CatalogueFair, DumpFair, DumpType, catalogue
<1>1. PICK none : none = <<>>
  OBVIOUS
<1>2. none \in Seq(Seq(Row)) /\ DOMAIN none = {} /\ Places(none) = {}
  BY <1>1 DEF Places
<1>3. ScriptFair(none, edits)
  BY <1>2 DEF ScriptFair
<1>4. CASE BeginDump
  <2>1. PICK began : began = [dump EXCEPT !.pc = "pages"]
    OBVIOUS
  <2>2. /\ dump' = began /\ began.pc = "pages" /\ began.offset = 0
        /\ began.pages = none /\ dump.pc = "off"
        /\ began \in [pc : DumpPcs, offset : Nat, pages : Seq(Seq(Row))]
        /\ before' = products /\ shrunk' = FALSE /\ copy' = copy
    BY <1>0, <1>1, <1>4, <2>1 DEF BeginDump, DumpPcs
  <2>3. TakenFair(none, 0, products)
    BY <1>2 DEF TakenFair
  <2>4. WholeFair(none, 0, products, products)
    <3>1. \A id \in DOMAIN products : Place(products, id) \in Nat
      BY <1>0, BelowIsLess DEF Place
    <3>2. Cardinality(DOMAIN products) \in Nat
      BY <1>0, FS_CardinalityType
    <3> QED
      BY <1>2, <3>1, <3>2 DEF WholeFair
  <2>5. DumpType'
    BY <1>0, <2>2 DEF DumpType
  <2> QED
    BY <1>0, <1>3, <2>2, <2>3, <2>4, <2>5 DEF DumpFair
<1>5. CASE NextPage
  BY <1>5, NextPageKeeps
<1>6. CASE DumpFails
  <2>1. /\ dump' = [pc |-> "off", offset |-> 0, pages |-> none] /\ copy' = copy
        /\ shrunk' = shrunk /\ dump.pc = "pages"
    BY <1>1, <1>6 DEF DumpFails, NoDump
  <2>2. DumpType'
    BY <1>0, <1>1, <1>2, <2>1 DEF DumpType, DumpPcs
  <2> QED
    BY <1>0, <1>3, <2>1, <2>2 DEF DumpFair
<1>7. CASE LoadRows
  <2>1. /\ dump.pc = "load" /\ copy.loaded < Len(dump.pages) /\ dump' = dump
        /\ before' = before /\ shrunk' = shrunk
        /\ copy' = [copy EXCEPT !.rows = LoadPage(copy.rows, dump.pages[copy.loaded + 1]),
                                !.loaded = copy.loaded + 1]
    BY <1>7 DEF LoadRows
  <2>2. PICK rows, n : rows = LoadPage(copy.rows, dump.pages[copy.loaded + 1])
                       /\ n = copy.loaded + 1
    OBVIOUS
  <2>3. copy' = [rows |-> rows, index |-> copy.index, loaded |-> n]
    BY <1>0, <2>1, <2>2
  <2>4. ~ shrunk => LoadFair(dump.pages, rows, n)
    <3> SUFFICES ASSUME ~ shrunk
                 PROVE  LoadFair(dump.pages, rows, n)
      OBVIOUS
    <3>1. PICK pages, old, m : pages = dump.pages /\ old = copy.rows /\ m = copy.loaded
      OBVIOUS
    <3>2. ScriptWhole(pages, before) /\ LoadFair(pages, old, m)
      BY <2>1, <3>1 DEF DumpFair
    <3>3. m \in Nat /\ m < Len(pages) /\ ScriptFair(pages, edits)
      BY <1>0, <2>1, <3>1, <3>2 DEF LoadFair
    <3>4. LoadFair(pages, LoadPage(old, pages[m + 1]), m + 1)
      BY <3>2, <3>3, OneStatementLoads, DumpAssumption
    <3> QED
      BY <2>2, <3>1, <3>4
  <2>5. ~ shrunk => ScriptWhole(dump.pages, before)
    BY <2>1 DEF DumpFair
  <2>6. DumpType'
    BY <1>0, <2>1, <2>3 DEF DumpType
  <2>7. copy'.rows = rows /\ copy'.loaded = n /\ dump'.pc = "load" /\ dump'.pages = dump.pages
    <3>1. copy'.rows = rows /\ copy'.loaded = n
      BY <2>3
    <3> QED
      BY <2>1, <3>1
  <2>8. /\ ScriptFair(dump'.pages, edits') /\ SerialsFair(products', edits')
        /\ ~ shrunk' => ScriptWhole(dump'.pages, before')
        /\ ~ shrunk' => LoadFair(dump'.pages, copy'.rows, copy'.loaded)
    BY <1>0, <2>1, <2>4, <2>5, <2>7
  <2> QED
    BY <2>6, <2>7, <2>8 DEF DumpFair
<1>8. CASE RebuildIndex
  <2>1. PICK index_, loaded : /\ index_ = IndexOf(copy.rows)
                              /\ loaded = [dump EXCEPT !.pc = "loaded"]
    OBVIOUS
  <2>2. /\ dump.pc = "load" /\ copy.loaded = Len(dump.pages) /\ dump' = loaded
        /\ copy' = [copy EXCEPT !.index = index_]
        /\ before' = before /\ shrunk' = shrunk
    BY <1>8, <2>1 DEF RebuildIndex
  <2>3. /\ copy' = [rows |-> copy.rows, index |-> index_, loaded |-> copy.loaded]
        /\ loaded.pc = "loaded" /\ loaded.pages = dump.pages
        /\ loaded \in [pc : DumpPcs, offset : Nat, pages : Seq(Seq(Row))]
    BY <1>0, <2>1, <2>2 DEF DumpPcs
  <2>4. DumpType'
    BY <1>0, <2>2, <2>3 DEF DumpType
  <2>5. ~ shrunk => /\ ScriptWhole(dump.pages, before)
                    /\ LoadFair(dump.pages, copy.rows, copy.loaded)
    BY <2>2 DEF DumpFair
  <2> QED
    BY <1>0, <2>2, <2>3, <2>4, <2>5 DEF DumpFair
<1>9. CASE CreateLocally
  <2>0. PICK id \in FreeIds(copy.rows), price \in Prices, text \in Texts :
          /\ dump.pc = "loaded" /\ dump' = [dump EXCEPT !.pc = "edited"]
          /\ copy' = [copy EXCEPT !.rows = [i \in DOMAIN copy.rows \cup {id} |->
                        IF i = id THEN [serial |-> 0, price |-> price, text |-> text]
                        ELSE copy.rows[i]]]
          /\ before' = before /\ shrunk' = shrunk
    BY <1>9, SMTT(30) DEF CreateLocally
  <2>1. PICK row :
          /\ dump.pc = "loaded" /\ dump' = [dump EXCEPT !.pc = "edited"]
          /\ copy' = [copy EXCEPT !.rows = [i \in DOMAIN copy.rows \cup {id} |->
                                              IF i = id THEN row ELSE copy.rows[i]]]
          /\ before' = before /\ shrunk' = shrunk
    BY <2>0
  <2>2. PICK edited, rows :
          /\ edited = [dump EXCEPT !.pc = "edited"]
          /\ rows = [i \in DOMAIN copy.rows \cup {id} |-> IF i = id THEN row ELSE copy.rows[i]]
    OBVIOUS
  <2>3. /\ copy' = [rows |-> rows, index |-> copy.index, loaded |-> copy.loaded]
        /\ edited.pc = "edited" /\ edited.pages = dump.pages /\ dump' = edited
        /\ edited \in [pc : DumpPcs, offset : Nat, pages : Seq(Seq(Row))]
    BY <1>0, <2>1, <2>2 DEF DumpPcs
  <2>4. DumpType'
    BY <1>0, <2>1, <2>3 DEF DumpType
  <2> QED
    BY <1>0, <2>1, <2>3, <2>4 DEF DumpFair
<1> QED
  BY <1>4, <1>5, <1>6, <1>7, <1>8, <1>9 DEF DumpStep

-----------------------------------------------------------------------------
(* The catalogue's writes beside the export.  A new row is behind all      *)
(* others, and of a serial no page has; a deletion moves rows forward.     *)

LEMMA PlaceBesideNew ==
  ASSUME NEW ids \in SUBSET Nat, NEW new, \A i \in ids : i < new, new \in Nat
  PROVE  /\ \A id \in ids : Below(ids \cup {new}, id) = Below(ids, id)
         /\ Below(ids \cup {new}, new) = ids
<1>1. \A id \in ids : id \in Int /\ ~ (new < id)
  OBVIOUS
<1>2. ASSUME NEW id \in ids
      PROVE  Below(ids \cup {new}, id) = Below(ids, id)
  BY <1>1 DEF Below
<1>3. \A i \in ids \cup {new} : i < new <=> i \in ids
  OBVIOUS
<1>4. Below(ids \cup {new}, new) = ids
  BY <1>3 DEF Below
<1> QED
  BY <1>2, <1>4

LEMMA CreationKeeps ==
  ASSUME NEW table, NEW new, NEW id, NEW n \in Nat, NEW pages, NEW offset \in Nat, NEW start,
         DOMAIN table \subseteq Nat, IsFiniteSet(DOMAIN table),
         id \in Nat, id \notin DOMAIN table, \A i \in DOMAIN table : i < id,
         DOMAIN new = DOMAIN table \cup {id}, \A i \in DOMAIN table : new[i] = table[i],
         new[id].serial = n + 1, SerialsFair(table, n), ScriptFair(pages, n)
  PROVE  /\ SerialsFair(new, n + 1) /\ ScriptFair(pages, n + 1)
         /\ TakenFair(pages, offset, table) => TakenFair(pages, offset, new)
         /\ WholeFair(pages, offset, table, start) => WholeFair(pages, offset, new, start)
<1>0. /\ \A i \in DOMAIN table : Below(DOMAIN new, i) = Below(DOMAIN table, i)
      /\ Below(DOMAIN new, id) = DOMAIN table
  <2>1. PICK ids : ids = DOMAIN table
    OBVIOUS
  <2>2. ids \in SUBSET Nat /\ \A i \in ids : i < id
    BY <2>1
  <2>3. /\ \A i \in ids : Below(ids \cup {id}, i) = Below(ids, i)
        /\ Below(ids \cup {id}, id) = ids
    BY <2>2, PlaceBesideNew
  <2> QED
    BY <2>1, <2>3
<1>1. \A i \in DOMAIN table : Place(new, i) = Place(table, i)
  BY <1>0 DEF Place
<1>2. Place(new, id) = Cardinality(DOMAIN table)
  BY <1>0 DEF Place
<1>3. SerialsFair(new, n + 1)
  BY DEF SerialsFair
<1>4. ScriptFair(pages, n + 1)
  BY DEF ScriptFair
<1>5. ASSUME TakenFair(pages, offset, table)
      PROVE  TakenFair(pages, offset, new)
  <2>1. \A at \in Places(pages) : Item(pages, at).row.serial # n + 1
    BY DEF ScriptFair
  <2> QED
    BY <1>1, <1>5, <2>1 DEF TakenFair
<1>6. ASSUME WholeFair(pages, offset, table, start)
      PROVE  WholeFair(pages, offset, new, start)
  <2>1. /\ Cardinality(DOMAIN table) \in Nat
        /\ Cardinality(DOMAIN new) = Cardinality(DOMAIN table) + 1
    BY FS_CardinalityType, FS_AddElement
  <2>2. offset <= Cardinality(DOMAIN table)
    BY <1>6 DEF WholeFair
  <2>3. offset <= Cardinality(DOMAIN new) /\ ~ (Place(new, id) < offset)
    BY <1>2, <2>1, <2>2
  <2>4. \A at \in Places(pages) : Agrees(pages, at, table) => Agrees(pages, at, new)
    BY DEF Agrees
  <2> QED
    BY <1>1, <1>6, <2>3, <2>4 DEF WholeFair
<1> QED
  BY <1>3, <1>4, <1>5, <1>6

LEMMA ChangeKeeps ==
  ASSUME NEW table, NEW new, NEW n \in Nat, NEW pages, NEW offset, NEW start,
         DOMAIN new = DOMAIN table,
         \A i \in DOMAIN table : new[i].serial = table[i].serial,
         SerialsFair(table, n), ScriptFair(pages, n)
  PROVE  /\ SerialsFair(new, n + 1) /\ ScriptFair(pages, n + 1)
         /\ TakenFair(pages, offset, table) => TakenFair(pages, offset, new)
         /\ WholeFair(pages, offset, table, start) => WholeFair(pages, offset, new, start)
<1>1. \A i : Place(new, i) = Place(table, i)
  BY DEF Place
<1>2. SerialsFair(new, n + 1)
  BY DEF SerialsFair
<1>3. ScriptFair(pages, n + 1)
  BY DEF ScriptFair
<1>4. TakenFair(pages, offset, table) => TakenFair(pages, offset, new)
  BY <1>1 DEF TakenFair
<1>5. \A at \in Places(pages) : Agrees(pages, at, table) => Agrees(pages, at, new)
  BY DEF Agrees
<1>6. WholeFair(pages, offset, table, start) => WholeFair(pages, offset, new, start)
  BY <1>1, <1>5 DEF WholeFair
<1> QED
  BY <1>2, <1>3, <1>4, <1>6

LEMMA DeletionKeeps ==
  ASSUME NEW table, NEW new, NEW n \in Nat, NEW pages, NEW offset \in Nat,
         DOMAIN table \subseteq Nat, IsFiniteSet(DOMAIN table),
         DOMAIN new \subseteq DOMAIN table, \A i \in DOMAIN new : new[i] = table[i],
         SerialsFair(table, n), ScriptFair(pages, n)
  PROVE  /\ SerialsFair(new, n + 1) /\ ScriptFair(pages, n + 1)
         /\ TakenFair(pages, offset, table) => TakenFair(pages, offset, new)
<1>1. ASSUME NEW i \in DOMAIN new
      PROVE  /\ Place(new, i) <= Place(table, i)
             /\ Place(new, i) \in Int /\ Place(table, i) \in Int
  <2>1. IsFiniteSet(DOMAIN new)
    BY FS_Subset
  <2>2. Below(DOMAIN new, i) \subseteq Below(DOMAIN table, i)
    BY DEF Below
  <2>3. /\ IsFiniteSet(Below(DOMAIN table, i)) /\ Place(table, i) \in Int
        /\ Place(new, i) \in Int
    BY <2>1, BelowIsLess DEF Place
  <2> QED
    BY <2>2, <2>3, FS_Subset DEF Place
<1>2. SerialsFair(new, n + 1)
  BY DEF SerialsFair
<1>3. ScriptFair(pages, n + 1)
  BY DEF ScriptFair
<1>4. ASSUME TakenFair(pages, offset, table)
      PROVE  TakenFair(pages, offset, new)
  <2> SUFFICES ASSUME NEW id \in DOMAIN new, NEW at \in Places(pages),
                      Item(pages, at).row.serial = new[id].serial
               PROVE  Place(new, id) < offset
    BY DEF TakenFair
  <2>1. Place(table, id) < offset
    BY <1>4 DEF TakenFair
  <2> QED
    BY <1>1, <2>1
<1> QED
  BY <1>2, <1>3, <1>4

LEMMA EditBesideExport ==
  ASSUME CatalogueFair, DumpFair, CatalogueStep
  PROVE  DumpFair'
<1>0. /\ edits \in Nat /\ shrunk \in BOOLEAN
      /\ products \in [DOMAIN products -> Product]
      /\ DOMAIN products \subseteq Nat \ {0} /\ DOMAIN products \subseteq Nat
      /\ IsFiniteSet(DOMAIN products)
      /\ SerialsFair(products, edits) /\ ScriptFair(dump.pages, edits)
      /\ dump \in [pc : DumpPcs, offset : Nat, pages : Seq(Seq(Row))]
  BY DEF CatalogueFair, DumpFair, DumpType
<1>1. dump' = dump /\ copy' = copy /\ before' = before
  BY DEF CatalogueStep
<1>2. PICK table, new, pages, offset, start, n :
        /\ table = products /\ new = products' /\ pages = dump.pages
        /\ offset = dump.offset /\ start = before /\ n = edits
  OBVIOUS
<1>3. ASSUME SerialsFair(products', edits'), ScriptFair(dump.pages, edits'),
             dump.pc = "pages" => TakenFair(dump.pages, dump.offset, products'),
             dump.pc = "pages" /\ ~ shrunk' =>
               WholeFair(dump.pages, dump.offset, products', before),
             dump.pc # "pages" => shrunk' = shrunk, shrunk' \in BOOLEAN
      PROVE  DumpFair'
  <2>1. DumpType'
    BY <1>1, <1>3 DEF DumpFair, DumpType
  <2>2. dump'.pc \in {"load", "loaded"} /\ ~ shrunk' =>
          ScriptWhole(dump'.pages, before') /\ LoadFair(dump'.pages, copy'.rows, copy'.loaded)
    BY <1>1, <1>3 DEF DumpFair
  <2>3. dump'.pc = "loaded" => copy'.loaded = Len(dump'.pages)
    BY <1>1 DEF DumpFair
  <2> QED
    BY <1>1, <1>3, <2>1, <2>2, <2>3 DEF DumpFair
<1>4. CASE CreateProduct /\ UNCHANGED shrunk
  <2>1. PICK price \in Prices, text \in Texts \cup {NoText}, id \in FreeIds(products) :
          /\ edits' = edits + 1
          /\ products' = [i \in DOMAIN products \cup {id} |->
                            IF i = id
                            THEN [serial |-> edits + 1, price |-> price, text |-> text]
                            ELSE products[i]]
    BY <1>4 DEF CreateProduct, Edit
  <2>2. id \in Nat /\ id \notin DOMAIN table /\ \A i \in DOMAIN table : i < id
    BY <1>0, <1>2, FreeIdIsNew
  <2>3. /\ DOMAIN new = DOMAIN table \cup {id} /\ new[id].serial = n + 1
        /\ \A i \in DOMAIN table : new[i] = table[i]
    BY <1>2, <2>1, <2>2
  <2>4. /\ n \in Nat /\ offset \in Nat /\ DOMAIN table \subseteq Nat
        /\ IsFiniteSet(DOMAIN table) /\ SerialsFair(table, n) /\ ScriptFair(pages, n)
    BY <1>0, <1>2
  <2>5. /\ SerialsFair(new, n + 1) /\ ScriptFair(pages, n + 1)
        /\ TakenFair(pages, offset, table) => TakenFair(pages, offset, new)
        /\ WholeFair(pages, offset, table, start) => WholeFair(pages, offset, new, start)
    BY <2>2, <2>3, <2>4, CreationKeeps
  <2>6. /\ SerialsFair(products', edits') /\ ScriptFair(dump.pages, edits')
        /\ dump.pc = "pages" => TakenFair(dump.pages, dump.offset, products')
        /\ dump.pc = "pages" /\ ~ shrunk =>
             WholeFair(dump.pages, dump.offset, products', before)
    BY <1>2, <2>1, <2>5 DEF DumpFair
  <2> QED
    BY <1>0, <1>3, <1>4, <2>6
<1>5. CASE UpdateProduct /\ UNCHANGED shrunk
  <2>1. PICK id \in DOMAIN products, price \in Prices, text \in Texts \cup {NoText} :
          /\ edits' = edits + 1
          /\ products' = [products EXCEPT ![id] =
                            [products[id] EXCEPT !.price = price, !.text = text]]
    BY <1>5 DEF UpdateProduct, Edit
  <2>2. PICK row : row = [products[id] EXCEPT !.price = price, !.text = text]
    OBVIOUS
  <2>3. row.serial = products[id].serial
    BY <1>0, <2>2 DEF Product
  <2>4. /\ DOMAIN new = DOMAIN table
        /\ \A i \in DOMAIN table : new[i].serial = table[i].serial
    BY <1>0, <1>2, <2>1, <2>2, <2>3
  <2>5. n \in Nat /\ SerialsFair(table, n) /\ ScriptFair(pages, n)
    BY <1>0, <1>2
  <2>6. /\ SerialsFair(new, n + 1) /\ ScriptFair(pages, n + 1)
        /\ TakenFair(pages, offset, table) => TakenFair(pages, offset, new)
        /\ WholeFair(pages, offset, table, start) => WholeFair(pages, offset, new, start)
    BY <2>4, <2>5, ChangeKeeps
  <2>7. /\ SerialsFair(products', edits') /\ ScriptFair(dump.pages, edits')
        /\ dump.pc = "pages" => TakenFair(dump.pages, dump.offset, products')
        /\ dump.pc = "pages" /\ ~ shrunk =>
             WholeFair(dump.pages, dump.offset, products', before)
    BY <1>2, <2>1, <2>6 DEF DumpFair
  <2> QED
    BY <1>0, <1>3, <1>5, <2>7
<1>6. CASE DeleteProduct(HeldIds) /\ DeletionSeen
  <2>1. PICK id \in DOMAIN products :
          /\ edits' = edits + 1
          /\ products' = [i \in DOMAIN products \ {id} |-> products[i]]
    BY <1>6 DEF DeleteProduct, Edit
  <2>2. DOMAIN new \subseteq DOMAIN table /\ \A i \in DOMAIN new : new[i] = table[i]
    BY <1>2, <2>1
  <2>3. /\ n \in Nat /\ offset \in Nat /\ DOMAIN table \subseteq Nat
        /\ IsFiniteSet(DOMAIN table) /\ SerialsFair(table, n) /\ ScriptFair(pages, n)
    BY <1>0, <1>2
  <2>4. /\ SerialsFair(new, n + 1) /\ ScriptFair(pages, n + 1)
        /\ TakenFair(pages, offset, table) => TakenFair(pages, offset, new)
    BY <2>2, <2>3, DeletionKeeps
  <2>5. /\ SerialsFair(products', edits') /\ ScriptFair(dump.pages, edits')
        /\ dump.pc = "pages" => TakenFair(dump.pages, dump.offset, products')
    BY <1>2, <2>1, <2>4 DEF DumpFair
  <2>6. /\ dump.pc = "pages" => shrunk'
        /\ dump.pc # "pages" => shrunk' = shrunk
        /\ shrunk' \in BOOLEAN
    BY <1>0, <1>6 DEF DeletionSeen
  <2> QED
    BY <1>3, <2>5, <2>6
<1> QED
  BY <1>4, <1>5, <1>6 DEF CatalogueStep

-----------------------------------------------------------------------------
LEMMA TakenIsPlaces ==
  ASSUME NEW serial
  PROVE  Taken(serial) = {at \in Places(dump.pages) : Item(dump.pages, at).row.serial = serial}
BY DEF Taken, Places, Item

LEMMA FairIsOnce ==
  ASSUME DumpFair
  PROVE  RowsTakenOnce
<1>1. ASSUME NEW serial
      PROVE  Cardinality(Taken(serial)) <= 1
  <2>1. \A at, to \in Taken(serial) : at = to
    BY TakenIsPlaces DEF DumpFair, ScriptFair
  <2>2. CASE Taken(serial) = {}
    <3>1. Cardinality(Taken(serial)) = 0
      BY <2>2, FS_EmptySet
    <3> QED
      BY <3>1
  <2>3. CASE Taken(serial) # {}
    <3>1. PICK at : at \in Taken(serial)
      BY <2>3
    <3>2. Taken(serial) = {at}
      BY <2>1, <3>1
    <3>3. Cardinality(Taken(serial)) = 1
      BY <3>2, FS_Singleton
    <3> QED
      BY <3>3
  <2> QED
    BY <2>2, <2>3
<1>2. ASSUME dump.pc \in {"load", "loaded"}, ~ shrunk, NEW id \in DOMAIN before
      PROVE  /\ Taken(before[id].serial) # {}
             /\ dump.pc = "loaded" =>
                  id \in DOMAIN copy.rows /\ copy.rows[id].serial = before[id].serial
  <2>1. PICK at \in Places(dump.pages) :
          Item(dump.pages, at).id = id /\ Agrees(dump.pages, at, before)
    BY <1>2 DEF DumpFair, ScriptWhole
  <2>2. Item(dump.pages, at).row.serial = before[id].serial
    BY <2>1 DEF Agrees
  <2>3. at \in Taken(before[id].serial)
    BY <2>1, <2>2, TakenIsPlaces
  <2>4. ASSUME dump.pc = "loaded"
        PROVE  id \in DOMAIN copy.rows /\ copy.rows[id].serial = before[id].serial
    <3>1. at[1] \in DOMAIN dump.pages /\ dump.pages \in Seq(Seq(Row))
      BY DEF Places, DumpFair, ScriptFair
    <3>2. copy.loaded = Len(dump.pages) /\ LoadFair(dump.pages, copy.rows, copy.loaded)
      BY <1>2, <2>4 DEF DumpFair
    <3>3. at[1] <= copy.loaded
      BY <3>1, <3>2
    <3>4. Agrees(dump.pages, at, copy.rows)
      BY <3>2, <3>3 DEF LoadFair
    <3> QED
      BY <2>1, <2>2, <3>4 DEF Agrees
  <2> QED
    BY <2>3, <2>4
<1> QED
  BY <1>1, <1>2 DEF RowsTakenOnce

LEMMA DInitial ==
  ASSUME StorefrontInit
  PROVE  DumpFair
<1>1. PICK none : none = <<>>
  OBVIOUS
<1>2. /\ none \in Seq(Seq(Row)) /\ DOMAIN none = {} /\ Places(none) = {}
      /\ dump = [pc |-> "off", offset |-> 0, pages |-> none]
      /\ copy = [rows |-> none, index |-> {}, loaded |-> 0] /\ shrunk = FALSE
      /\ products = none
  BY <1>1 DEF Places, StorefrontInit, CatalogueInit, DumpInit, NoDump
<1>3. ScriptFair(none, edits) /\ SerialsFair(none, edits)
  BY <1>2 DEF ScriptFair, SerialsFair
<1>4. DumpType
  BY <1>1, <1>2 DEF DumpType, DumpPcs
<1> QED
  BY <1>2, <1>3, <1>4 DEF DumpFair

LEMMA DStep ==
  ASSUME SInv, DumpFair, [StorefrontNext]_storefront
  PROVE  DumpFair'
<1>0. CatalogueFair
  BY DEF SInv
<1>1. ASSUME UNCHANGED <<catalogue, export>>
      PROVE  DumpFair'
  <2>1. /\ products' = products /\ edits' = edits /\ dump' = dump /\ copy' = copy
        /\ before' = before /\ shrunk' = shrunk
    BY <1>1 DEF catalogue, export
  <2>2. DumpType'
    BY <2>1 DEF DumpFair, DumpType
  <2> QED
    BY <2>1, <2>2 DEF DumpFair
<1>2. CASE BookStep
  BY <1>1, <1>2 DEF BookStep
<1>3. CASE IntakeNext
  BY <1>1, <1>3 DEF IntakeNext
<1>4. CASE UNCHANGED storefront
  BY <1>1, <1>4 DEF storefront
<1>5. CASE ExportStep
  BY <1>0, <1>5, ExportKeeps DEF ExportStep
<1> QED
  BY <1>0, <1>2, <1>3, <1>4, <1>5, EditBesideExport DEF StorefrontNext

(* An export that walks a table page by page over no snapshot (writeRows   *)
(* of devdb/export.go, Dumper.Rows of database/dump.go) takes no row       *)
(* twice, and loses none that was there throughout unless some row was     *)
(* deleted meanwhile; what it took is what the local database holds.  For  *)
(* any page size and any number of rows and writes.                        *)
THEOREM DumpTakesRowsOnce == StorefrontSpec => []RowsTakenOnce
<1>1. StorefrontInit => SInv /\ DumpFair
  BY SInitial, DInitial
<1>2. SInv /\ DumpFair /\ [StorefrontNext]_storefront => (SInv /\ DumpFair)'
  BY SStep, DStep
<1>3. DumpFair => RowsTakenOnce
  BY FairIsOnce
<1> QED
  BY <1>1, <1>2, <1>3, PTL DEF StorefrontSpec
-----------------------------------------------------------------------------
(* What a search finds.  A page is a cut of the rows in their order, and a *)
(* place (page, line) of a walk is a number divided by the page's size.    *)
LEMMA Spread ==
  ASSUME NEW limit \in Nat \ {0}, NEW k \in Nat, NEW j \in Nat, k < j
  PROVE  k * limit + limit <= j * limit
<1>1. PICK d \in Nat : j = k + 1 + d
  <2>1. j - k - 1 \in Nat /\ j = k + 1 + (j - k - 1)
    OBVIOUS
  <2> QED
    BY <2>1
<1>2. j * limit = k * limit + limit + d * limit
  BY <1>1
<1>3. d * limit >= 0 /\ d * limit \in Nat /\ k * limit \in Nat
  OBVIOUS
<1> QED
  BY <1>2, <1>3

LEMMA Division ==
  ASSUME NEW limit \in Nat \ {0}, NEW m \in Nat \ {0}
  PROVE  \E k \in Nat, n \in 1 .. limit : k < m /\ k * limit + n = m
<1> DEFINE k == (m - 1) \div limit
           n == ((m - 1) % limit) + 1
<1>1. k \in Nat /\ n \in 1 .. limit /\ k * limit + n = m
  OBVIOUS
<1>2. k < m
  BY <1>1
<1> QED
  BY <1>1, <1>2

(* What a page shows.                                                      *)
LEMMA PageIsCut ==
  ASSUME NEW ids, NEW rows \in Seq(ids), NEW limit \in Nat \ {0}, NEW offset \in Nat
  PROVE  LET page == Page(rows, limit, offset) IN
         /\ \A n \in 1 .. limit : n \in DOMAIN page.items <=> offset + n <= Len(rows)
         /\ \A n \in DOMAIN page.items : n \in 1 .. limit /\ page.items[n] = rows[offset + n]
         /\ page.items # <<>> => page.total = Len(rows)
<1>0. PICK end : end = IF offset + limit < Len(rows) THEN offset + limit ELSE Len(rows)
  OBVIOUS
<1>1. PICK m : m = Len(rows)
  OBVIOUS
<1>2. m \in Nat /\ end \in Nat /\ end <= m /\ end <= offset + limit
      /\ (end = offset + limit \/ end = m)
  BY <1>0, <1>1
<1>3. PICK items : items = SubSeq(rows, offset + 1, end)
  OBVIOUS
<1>4. Page(rows, limit, offset) = [items |-> items, total |-> IF items = <<>> THEN 0 ELSE m]
  <2>1. limit > 0
    OBVIOUS
  <2> QED
    BY <1>0, <1>1, <1>3, <2>1, Zenon DEF Page
<1>5. CASE end <= offset
  <2>1. items = <<>> /\ DOMAIN items = {}
    BY <1>2, <1>3, <1>5
  <2>2. m <= offset
    BY <1>2, <1>5
  <2>3. \A n \in 1 .. limit : ~ (offset + n <= m)
    BY <1>2, <2>2
  <2> QED
    BY <1>1, <1>4, <2>1, <2>3
<1>6. CASE offset < end
  <2>1. /\ Len(items) = end - offset /\ DOMAIN items = 1 .. end - offset
        /\ \A n \in 1 .. end - offset : items[n] = rows[offset + n]
    BY <1>1, <1>2, <1>3, <1>6
  <2>2. \A n \in 1 .. limit : n \in 1 .. end - offset <=> offset + n <= m
    BY <1>2, <1>6
  <2>3. \A n \in 1 .. end - offset : n \in 1 .. limit
    BY <1>2, <1>6
  <2> QED
    BY <1>1, <1>4, <2>1, <2>2, <2>3
<1> QED
  BY <1>2, <1>5, <1>6

(* The places of a walk, and the number of a place among all.              *)
Shelves(walk, limit) ==
  {at \in (DOMAIN walk) \X (1 .. limit) : at[2] \in DOMAIN walk[at[1]].items}

Number(at, limit) == (at[1] - 1) * limit + at[2]

LEMMA WalkShowsAll ==
  ASSUME NEW ids, NEW rows \in Seq(ids), NEW limit \in Nat \ {0},
         NEW most \in Nat, Len(rows) <= most,
         NEW walk, DOMAIN walk = 1 .. most + 1,
         \A k \in 1 .. most + 1 : walk[k] = Page(rows, limit, (k - 1) * limit)
  PROVE  /\ \A at \in Shelves(walk, limit) :
              /\ Number(at, limit) \in 1 .. Len(rows)
              /\ walk[at[1]].items[at[2]] = rows[Number(at, limit)]
         /\ \A m \in 1 .. Len(rows) : \E at \in Shelves(walk, limit) : Number(at, limit) = m
         /\ \A at, on \in Shelves(walk, limit) :
              /\ Later(at, on) => Number(at, limit) < Number(on, limit)
              /\ at = on \/ Later(at, on) \/ Later(on, at)
         /\ \A k \in DOMAIN walk : walk[k].items # <<>> => walk[k].total = Len(rows)
<1>1. DOMAIN walk = 1 .. most + 1
      /\ \A k \in 1 .. most + 1 : walk[k] = Page(rows, limit, (k - 1) * limit)
  OBVIOUS
<1>2. ASSUME NEW k \in 1 .. most + 1
      PROVE  /\ (k - 1) * limit \in Nat
             /\ \A n \in 1 .. limit : n \in DOMAIN walk[k].items <=> (k - 1) * limit + n <= Len(rows)
             /\ \A n \in DOMAIN walk[k].items :
                  n \in 1 .. limit /\ walk[k].items[n] = rows[(k - 1) * limit + n]
             /\ walk[k].items # <<>> => walk[k].total = Len(rows)
  <2>1. k - 1 \in Nat
    OBVIOUS
  <2>2. PICK offset \in Nat : offset = (k - 1) * limit
    BY <2>1
  <2>3. walk[k] = Page(rows, limit, offset)
    BY <1>1, <2>2
  <2>4. /\ \A n \in 1 .. limit : n \in DOMAIN walk[k].items <=> offset + n <= Len(rows)
        /\ \A n \in DOMAIN walk[k].items :
             n \in 1 .. limit /\ walk[k].items[n] = rows[offset + n]
        /\ walk[k].items # <<>> => walk[k].total = Len(rows)
    <3>1. /\ \A n \in 1 .. limit :
               n \in DOMAIN Page(rows, limit, offset).items <=> offset + n <= Len(rows)
          /\ \A n \in DOMAIN Page(rows, limit, offset).items :
               n \in 1 .. limit /\ Page(rows, limit, offset).items[n] = rows[offset + n]
          /\ Page(rows, limit, offset).items # <<>> =>
               Page(rows, limit, offset).total = Len(rows)
      BY PageIsCut
    <3> QED
      BY <2>3, <3>1
  <2> QED
    BY <2>2, <2>4
<1>3. ASSUME NEW at \in Shelves(walk, limit)
      PROVE  /\ Number(at, limit) \in 1 .. Len(rows)
             /\ walk[at[1]].items[at[2]] = rows[Number(at, limit)]
  <2>1. PICK k \in 1 .. most + 1, n \in 1 .. limit : at = <<k, n>> /\ n \in DOMAIN walk[k].items
    BY <1>1 DEF Shelves
  <2>2. Number(at, limit) = (k - 1) * limit + n
    BY <2>1 DEF Number
  <2>3. (k - 1) * limit \in Nat /\ (k - 1) * limit + n <= Len(rows)
        /\ walk[k].items[n] = rows[(k - 1) * limit + n]
    BY <1>2, <2>1
  <2>4. (k - 1) * limit + n \in 1 .. Len(rows)
    <3>1. PICK offset \in Nat : offset = (k - 1) * limit
      BY <2>3
    <3>2. Len(rows) \in Nat
      OBVIOUS
    <3>3. offset + n <= Len(rows)
      BY <2>3, <3>1
    <3>4. offset + n \in 1 .. Len(rows)
      BY <3>2, <3>3
    <3> QED
      BY <3>1, <3>4
  <2> QED
    BY <2>1, <2>2, <2>3, <2>4
<1>4. ASSUME NEW m \in 1 .. Len(rows)
      PROVE  \E at \in Shelves(walk, limit) : Number(at, limit) = m
  <2>0. m \in Nat \ {0} /\ m <= Len(rows) /\ Len(rows) \in Nat
    OBVIOUS
  <2>1. PICK j \in Nat, n \in 1 .. limit : j < m /\ j * limit + n = m
    BY <2>0, Division
  <2>2. PICK k : k = j + 1
    OBVIOUS
  <2>3. k \in 1 .. most + 1 /\ k - 1 = j
    BY <2>0, <2>1, <2>2
  <2>4. (k - 1) * limit + n = m
    BY <2>1, <2>3
  <2>5. n \in DOMAIN walk[k].items
    <3>1. n \in DOMAIN walk[k].items <=> (k - 1) * limit + n <= Len(rows)
      BY <1>2, <2>3
    <3> QED
      BY <2>0, <2>4, <3>1
  <2>6. <<k, n>> \in Shelves(walk, limit)
    BY <1>1, <2>3, <2>5 DEF Shelves
  <2>7. Number(<<k, n>>, limit) = m
    BY <2>4 DEF Number
  <2> QED
    BY <2>6, <2>7
<1>5. ASSUME NEW at \in Shelves(walk, limit), NEW on \in Shelves(walk, limit)
      PROVE  /\ Later(at, on) => Number(at, limit) < Number(on, limit)
             /\ at = on \/ Later(at, on) \/ Later(on, at)
  <2>1. PICK k \in 1 .. most + 1, n \in 1 .. limit : at = <<k, n>>
    BY <1>1 DEF Shelves
  <2>2. PICK j \in 1 .. most + 1, i \in 1 .. limit : on = <<j, i>>
    BY <1>1 DEF Shelves
  <2>3. Number(at, limit) = (k - 1) * limit + n /\ Number(on, limit) = (j - 1) * limit + i
    BY <2>1, <2>2 DEF Number
  <2>4. Later(at, on) <=> k < j \/ (k = j /\ n < i)
    BY <2>1, <2>2 DEF Later
  <2>5. Later(on, at) <=> j < k \/ (j = k /\ i < n)
    BY <2>1, <2>2 DEF Later
  <2>6. (k - 1) * limit \in Nat /\ (j - 1) * limit \in Nat
    BY <1>2
  <2>7. ASSUME k < j PROVE (k - 1) * limit + limit <= (j - 1) * limit
    <3>1. k - 1 \in Nat /\ j - 1 \in Nat /\ k - 1 < j - 1
      BY <2>7
    <3> QED
      BY <3>1, Spread
  <2>11. PICK first \in Nat, second \in Nat :
           first = (k - 1) * limit /\ second = (j - 1) * limit
    BY <2>6
  <2>8. ASSUME k < j PROVE Number(at, limit) < Number(on, limit)
    <3>1. first + limit <= second
      BY <2>7, <2>8, <2>11
    <3>2. first + n < second + i
      BY <3>1
    <3> QED
      BY <2>3, <2>11, <3>2
  <2>9. ASSUME k = j, n < i PROVE Number(at, limit) < Number(on, limit)
    <3>1. first + n < second + i
      BY <2>9, <2>11
    <3> QED
      BY <2>3, <2>11, <3>1
  <2>10. at = on \/ Later(at, on) \/ Later(on, at)
    BY <2>1, <2>2, <2>4, <2>5
  <2> QED
    BY <2>4, <2>8, <2>9, <2>10
<1> QED
  BY <1>1, <1>2, <1>3, <1>4, <1>5

(* The three orders of a listing are strict.                               *)
LEMMA SortsAreStrict ==
  ASSUME CatalogueFair, NEW sort \in Sorts, NEW ids \in SUBSET DOMAIN products, NEW order,
         order = {p \in ids \X ids : Before(products, sort, p[1], p[2])}
  PROVE  /\ StrictOrder(ids, order)
         /\ \A i, j \in ids : <<i, j>> \in order => InOrder(sort, i, j)
<1>1. \A i \in ids : i \in Int /\ products[i].price \in Int
  BY CatalogueAssumption DEF CatalogueFair, Product
<1>2. \A i, j \in ids : <<i, j>> \in order <=> Before(products, sort, i, j)
  OBVIOUS
<1>3. CASE sort = ""
  <2>1. \A i, j \in ids :
          /\ Before(products, sort, i, j) <=> i > j
          /\ InOrder(sort, i, j) <=> i > j
    BY <1>3 DEF Before, InOrder
  <2> QED
    BY <1>1, <1>2, <2>1 DEF StrictOrder
<1>4. CASE sort = "price_asc"
  <2>1. \A i, j \in ids :
          /\ Before(products, sort, i, j) <=>
               \/ products[i].price < products[j].price
               \/ products[i].price = products[j].price /\ i < j
          /\ InOrder(sort, i, j) <=> products[i].price <= products[j].price
    BY <1>4 DEF Before, InOrder
  <2> QED
    BY <1>1, <1>2, <2>1 DEF StrictOrder
<1>5. CASE sort = "price_desc"
  <2>1. \A i, j \in ids :
          /\ Before(products, sort, i, j) <=>
               \/ products[i].price > products[j].price
               \/ products[i].price = products[j].price /\ i < j
          /\ InOrder(sort, i, j) <=> products[i].price >= products[j].price
    BY <1>5 DEF Before, InOrder
  <2> QED
    BY <1>1, <1>2, <2>1 DEF StrictOrder
<1> QED
  BY <1>3, <1>4, <1>5 DEF Sorts

LEMMA WalksFind == CatalogueFair /\ SearchesTheTable => SearchFindsWhatIsStored
<1> SUFFICES ASSUME CatalogueFair, SearchesTheTable,
                    NEW filter \in Filters, NEW limit \in Limits
             PROVE  LET found == {id \in DOMAIN products :
                                    /\ filter.query \in {NoText, products[id].text}
                                    /\ filter.maxPrice > 0 => products[id].price <= filter.maxPrice}
                        walk == Walk(filter, limit)
                        places == Shelves(walk, limit)
                        Shown(at) == walk[at[1]].items[at[2]]
                    IN /\ {Shown(at) : at \in places} = found
                       /\ \A at, on \in places : Shown(at) = Shown(on) => at = on
                       /\ \A at, on \in places :
                            Later(at, on) => InOrder(filter.sort, Shown(at), Shown(on))
                       /\ \A k \in DOMAIN walk :
                            walk[k].items # <<>> => walk[k].total = Cardinality(found)
  BY DEF SearchFindsWhatIsStored, Shelves
<1>1. PICK found : found = {id \in DOMAIN products :
                              /\ filter.query \in {NoText, products[id].text}
                              /\ filter.maxPrice > 0 => products[id].price <= filter.maxPrice}
  OBVIOUS
<1>2. Matching(products, index, filter) = found
  BY <1>1 DEF SearchesTheTable
<1>3. PICK order : order = {p \in found \X found : Before(products, filter.sort, p[1], p[2])}
  OBVIOUS
<1>4. PICK rows : rows = Sorted(found, order)
  OBVIOUS
<1>5. /\ IsFiniteSet(DOMAIN products) /\ found \in SUBSET DOMAIN products
      /\ Cardinality(DOMAIN products) \in Nat
  BY <1>1, FS_CardinalityType DEF CatalogueFair
<1>6. IsFiniteSet(found) /\ Cardinality(found) <= Cardinality(DOMAIN products)
  BY <1>5, FS_Subset
<1>7. filter.sort \in Sorts
  BY DEF Filters
<1>8. /\ StrictOrder(found, order)
      /\ \A i, j \in found : <<i, j>> \in order => InOrder(filter.sort, i, j)
  BY <1>3, <1>5, <1>7, SortsAreStrict
<1>9. /\ Cardinality(found) \in Nat
      /\ rows \in [1 .. Cardinality(found) -> found]
      /\ \A id \in found : /\ Cardinality(Prior(found, order, id)) + 1 \in 1 .. Cardinality(found)
                           /\ rows[Cardinality(Prior(found, order, id)) + 1] = id
      /\ \A m, n \in 1 .. Cardinality(found) : m < n => <<rows[m], rows[n]>> \in order
  BY <1>4, <1>6, <1>8, SortedNumbers
<1>10. rows \in Seq(found) /\ Len(rows) = Cardinality(found)
  BY <1>9
<1>11. PICK walk : walk = Walk(filter, limit)
  OBVIOUS
<1>12. PICK most : most = Cardinality(DOMAIN products)
  OBVIOUS
<1>13. /\ DOMAIN walk = 1 .. most + 1
       /\ \A k \in 1 .. most + 1 : walk[k] = Page(rows, limit, (k - 1) * limit)
  <2>1. \A offset : Search(filter, limit, offset) = Page(rows, limit, offset)
    BY <1>2, <1>3, <1>4 DEF Search
  <2> QED
    BY <1>11, <1>12, <2>1 DEF Walk
<1>14. limit \in Nat \ {0}
  BY CatalogueAssumption
<1>15. most \in Nat /\ Len(rows) <= most
  BY <1>5, <1>6, <1>10, <1>12
<1> DEFINE Shown(at) == walk[at[1]].items[at[2]]
<1>16. /\ \A at \in Shelves(walk, limit) :
            /\ Number(at, limit) \in 1 .. Len(rows)
            /\ Shown(at) = rows[Number(at, limit)]
       /\ \A m \in 1 .. Len(rows) : \E at \in Shelves(walk, limit) : Number(at, limit) = m
       /\ \A at, on \in Shelves(walk, limit) :
            /\ Later(at, on) => Number(at, limit) < Number(on, limit)
            /\ at = on \/ Later(at, on) \/ Later(on, at)
       /\ \A k \in DOMAIN walk : walk[k].items # <<>> => walk[k].total = Len(rows)
  <2> HIDE DEF Shown
  <2>1. /\ \A at \in Shelves(walk, limit) :
             /\ Number(at, limit) \in 1 .. Len(rows)
             /\ walk[at[1]].items[at[2]] = rows[Number(at, limit)]
        /\ \A m \in 1 .. Len(rows) : \E at \in Shelves(walk, limit) : Number(at, limit) = m
        /\ \A at, on \in Shelves(walk, limit) :
             /\ Later(at, on) => Number(at, limit) < Number(on, limit)
             /\ at = on \/ Later(at, on) \/ Later(on, at)
        /\ \A k \in DOMAIN walk : walk[k].items # <<>> => walk[k].total = Len(rows)
    <3>1. rows \in Seq(found)
      BY <1>10
    <3>2. most \in Nat /\ Len(rows) <= most
      BY <1>15
    <3> QED
      BY <1>13, <1>14, <3>1, <3>2, WalkShowsAll
  <2> QED
    BY <2>1 DEF Shown
<1> HIDE DEF Shown
<1>17. \A at \in Shelves(walk, limit) : Shown(at) \in found
  BY <1>9, <1>10, <1>16
<1>18. ASSUME NEW id \in found PROVE \E at \in Shelves(walk, limit) : Shown(at) = id
  <2>1. PICK m \in 1 .. Len(rows) : rows[m] = id
    BY <1>9, <1>10
  <2> QED
    BY <1>16, <2>1
<1>19. {Shown(at) : at \in Shelves(walk, limit)} = found
  BY <1>17, <1>18
<1>20. ASSUME NEW at \in Shelves(walk, limit), NEW on \in Shelves(walk, limit), Later(at, on)
       PROVE  <<Shown(at), Shown(on)>> \in order
  BY <1>9, <1>10, <1>16, <1>20
<1>21. \A at, on \in Shelves(walk, limit) :
         Later(at, on) => InOrder(filter.sort, Shown(at), Shown(on))
  BY <1>8, <1>17, <1>20
<1>22. \A at, on \in Shelves(walk, limit) : Shown(at) = Shown(on) => at = on
  BY <1>8, <1>16, <1>17, <1>20 DEF StrictOrder
<1>23. \A k \in DOMAIN walk : walk[k].items # <<>> => walk[k].total = Cardinality(found)
  BY <1>10, <1>16
<1> QED
  BY <1>1, <1>11, <1>19, <1>21, <1>22, <1>23 DEF Shown

(* Whose an object is.                                                     *)
ObjectsFair == \A k \in DOMAIN objects : objects[k] \in 1 .. visits

LEMMA ObjectsStep ==
  ASSUME SInv, ObjectsFair, [StorefrontNext]_storefront
  PROVE  ObjectsFair'
<1>0. visits \in Nat /\ cart \in [Buyers -> Cart]
  BY DEF SInv, CartsFair
<1>1. ASSUME UNCHANGED <<objects, visits>>
      PROVE  ObjectsFair'
  BY <1>1 DEF ObjectsFair
<1>2. ASSUME NEW b \in Buyers, CreateOrder(b) \/ Checkout(b)
      PROVE  ObjectsFair'
  <2>1. visits' = visits + 1 /\ objects' = objects
    BY <1>2 DEF CreateOrder, Checkout, Enter
  <2> QED
    BY <1>0, <2>1 DEF ObjectsFair
<1>3. ASSUME NEW b \in Buyers, Upload(b)
      PROVE  ObjectsFair'
  <2>1. PICK key : \/ objects' = objects
                   \/ objects' = [k \in DOMAIN objects \cup {key} |->
                                    IF k = key THEN cart[b].visit ELSE objects[k]]
    BY <1>3 DEF Upload
  <2>2. visits' = visits
    BY <1>3 DEF Upload
  <2>3. cart[b] # NoCart
    BY <1>3 DEF Upload, NoCart
  <2>4. cart[b].visit \in 1 .. visits
    BY <2>3 DEF SInv, CartsFair, CartFair
  <2> QED
    BY <2>1, <2>2, <2>4 DEF ObjectsFair
<1>4. ASSUME NEW b \in Buyers, IntakeStep(b)
      PROVE  ObjectsFair'
  BY <1>1, <1>2, <1>3, <1>4
  DEF IntakeStep, PriceBasket, ReadShopper, ReadAddress, InsertSale, IntakeFails
<1>5. CASE IntakeNext
  BY <1>1, <1>4, <1>5 DEF IntakeNext, RemoveSale
<1>6. CASE BookStep \/ CatalogueStep \/ ExportStep \/ UNCHANGED storefront
  BY <1>1, <1>6 DEF BookStep, CatalogueStep, ExportStep, storefront, intake
<1> QED
  BY <1>5, <1>6 DEF StorefrontNext

LEMMA LoadedStep ==
  ASSUME DumpFair, LoadedIndexAgrees, [StorefrontNext]_storefront
  PROVE  LoadedIndexAgrees'
<1>0. /\ dump \in [pc : DumpPcs, offset : Nat, pages : Seq(Seq(Row))]
      /\ copy = [rows |-> copy.rows, index |-> copy.index, loaded |-> copy.loaded]
  BY DEF DumpFair, DumpType
<1>1. ASSUME UNCHANGED export
      PROVE  LoadedIndexAgrees'
  <2>1. dump' = dump /\ copy' = copy
    BY <1>1 DEF export
  <2> QED
    BY <2>1 DEF LoadedIndexAgrees
<1>2. CASE ExportStep
  <2>1. CASE RebuildIndex
    <3>1. copy' = [copy EXCEPT !.index = IndexOf(copy.rows)]
      BY <2>1 DEF RebuildIndex
    <3>2. copy'.index = IndexOf(copy.rows) /\ copy'.rows = copy.rows
      BY <1>0, <3>1
    <3> QED
      BY <3>2 DEF LoadedIndexAgrees
  <2>2. CASE NextPage
    <3>1. dump'.pc \in {"load", "pages"}
      BY <2>2 DEF NextPage
    <3> QED
      BY <3>1 DEF LoadedIndexAgrees
  <2>3. CASE BeginDump \/ DumpFails
    <3>1. dump'.pc \in {"pages", "off"}
      BY <1>0, <2>3 DEF BeginDump, DumpFails, NoDump
    <3> QED
      BY <3>1 DEF LoadedIndexAgrees
  <2>4. CASE LoadRows
    <3>1. dump'.pc = "load"
      BY <2>4 DEF LoadRows
    <3> QED
      BY <3>1 DEF LoadedIndexAgrees
  <2>5. CASE CreateLocally
    <3>1. dump'.pc = "edited"
      BY <1>0, <2>5 DEF CreateLocally
    <3> QED
      BY <3>1 DEF LoadedIndexAgrees
  <2> QED
    BY <1>2, <2>1, <2>2, <2>3, <2>4, <2>5 DEF ExportStep, DumpStep
<1>3. CASE CatalogueStep
  <2>1. dump' = dump /\ copy' = copy
    BY <1>3 DEF CatalogueStep
  <2> QED
    BY <2>1 DEF LoadedIndexAgrees
<1>4. CASE BookStep \/ IntakeNext \/ UNCHANGED storefront
  BY <1>1, <1>4 DEF BookStep, IntakeNext, storefront
<1> QED
  BY <1>2, <1>3, <1>4 DEF StorefrontNext

LEMMA ShopHasItsTypes ==
  ASSUME SInv, IndexFair, DumpFair, ObjectsFair
  PROVE  StorefrontTypeOK
<1>1. products \in [DOMAIN products -> Product] /\ index = IndexOf(products)
  BY DEF IndexFair, CatalogueFair
<1>2. ASSUME NEW e \in index PROVE e \in (DOMAIN products) \X Texts
  <2>1. PICK id, text : e = <<id, text>>
    BY <1>1, <1>2, IndexIsPairs
  <2>2. id \in DOMAIN products /\ products[id].text # NoText /\ products[id].text = text
    BY <1>1, <1>2, <2>1, EntriesAreTheIds
  <2>3. text \in Texts
    BY <1>1, <2>2 DEF Product
  <2> QED
    BY <2>1, <2>2, <2>3
<1>3. ASSUME NEW b \in Buyers
      PROVE  /\ cart[b].pc \in CartPcs
             /\ cart[b].pc = "idle" => cart[b] = NoCart
             /\ cart[b].visit \in 0 .. visits
  <2>1. cart[b] \in Cart /\ visits \in Nat
    BY DEF SInv, CartsFair
  <2>2. cart[b] = NoCart \/ (cart[b].pc # "idle" /\ cart[b].visit \in 1 .. visits)
    BY DEF SInv, CartsFair, CartFair
  <2>3. NoCart.visit = 0
    BY DEF NoCart
  <2>4. cart[b].pc \in CartPcs
    BY <2>1 DEF Cart
  <2> QED
    BY <2>1, <2>2, <2>3, <2>4
<1>4. DOMAIN sales \subseteq 1 .. visits
  BY DEF SInv, SalesFair
<1>5. \A k \in DOMAIN objects : k \in 1 .. clock /\ objects[k] \in 1 .. visits
  BY DEF SInv, BucketFair, ObjectsFair
<1>6. dump.pc \in DumpPcs
  BY DEF DumpFair, DumpType
<1> QED
  BY <1>1, <1>2, <1>3, <1>4, <1>5, <1>6 DEF StorefrontTypeOK, DumpPcs

(* A client that asks for a search page by page, at any size of page, is   *)
(* shown each product the table has for that search once, in the order it  *)
(* asked for, and is told on each page how many there are (Search and      *)
(* ListProducts of services/products/repository.go, over the index the     *)
(* triggers keep); and the index devdb rebuilds is that of the rows it     *)
(* loaded.  In every state, whatever customers and editors did before.     *)
THEOREM SearchAlwaysFinds == StorefrontSpec => [](SearchFindsWhatIsStored /\ SearchFinds)
<1> DEFINE Shop == IInv /\ SInv /\ DumpFair /\ ObjectsFair /\ LoadedIndexAgrees
<1>1. StorefrontInit => Shop
  <2> SUFFICES ASSUME StorefrontInit
               PROVE  Shop
    OBVIOUS
  <2>1. DOMAIN objects = {} /\ dump.pc = "off"
    BY DEF StorefrontInit, IntakeInit, DumpInit, NoDump
  <2>2. Init
    BY DEF StorefrontInit
  <2> QED
    BY <2>1, <2>2, Initially, SInitial, DInitial DEF ObjectsFair, LoadedIndexAgrees
<1>2. Shop /\ [StorefrontNext]_storefront => Shop'
  <2>1. [StorefrontNext]_storefront => [Next]_vars
    BY DEF StorefrontNext, BookStep, CatalogueStep, IntakeNext, ExportStep, storefront
  <2> QED
    BY <2>1, Inductive, SStep, DStep, ObjectsStep, LoadedStep
<1>3. Shop /\ IndexFair /\ SearchesTheTable => SearchFindsWhatIsStored /\ SearchFinds
  BY WalksFind, ShopHasItsTypes DEF SInv, SearchFinds, IInv
<1> HIDE DEF Shop
<1> QED
  BY <1>1, <1>2, <1>3, IndexIsFair, IndexFollowsTable, PTL DEF StorefrontSpec
=============================================================================
