----------------------------- MODULE Addresses -----------------------------
(***************************************************************************)
(* The delivery addresses of customers (services/customers/repository.go,  *)
(* table customer_addresses): which rows there are, whose they are, and    *)
(* which is marked as its owner's default.                                 *)
(*                                                                         *)
(* The table has an AUTOINCREMENT key, so unlike the orders of OrderTables *)
(* an address id is never given out twice.  The adapter is fixed when the  *)
(* process starts: on SQLite a transaction is one step (Transaction), on   *)
(* D1 each statement is (ClearStatement, WriteStatement), and nothing is   *)
(* compensated, because the only INSERT is the last statement.             *)
(***************************************************************************)
EXTENDS Integers

CONSTANTS
  Customers,      \* the accounts that keep addresses
  Requests,       \* the requests that may be in flight at the same time
  MaxAddresses    \* bound: addresses ever created

ASSUME AddressesAssumption == MaxAddresses \in Nat

VARIABLES
  addresses,   \* the table: the rows by id
  last,        \* the largest id ever given out (sqlite_sequence)
  req,         \* what each request is doing
  atomic,      \* Capabilities().AtomicTransactions of the adapter
  overlapped   \* history: whether two requests were ever in flight at once

vars == <<addresses, last, req, atomic, overlapped>>

Address == [owner : Customers, isDefault : BOOLEAN]
Methods == {"none", "CreateAddress", "UpdateAddress", "SetDefaultAddress", "DeleteAddress"}

(* "check" is the ownership query in front of a transaction, "clear" and   *)
(* "write" are the statements of the transaction, "delete" a statement     *)
(* without one.                                                            *)
Pcs == {"idle", "check", "clear", "write", "delete"}
Request == [method : Methods, pc : Pcs, owner : Customers \cup {"nobody"},
            id : Nat, isDefault : BOOLEAN]

Idle == [method |-> "none", pc |-> "idle", owner |-> "nobody", id |-> 0,
         isDefault |-> FALSE]

Init ==
  /\ addresses = <<>>
  /\ last = 0
  /\ req = [r \in Requests |-> Idle]
  /\ atomic \in BOOLEAN
  /\ overlapped = FALSE

-----------------------------------------------------------------------------
(* The statements, on the value of the table. *)

Owned(table, id, owner) == id \in DOMAIN table /\ table[id].owner = owner

(* Mutant: the previous default keeps its mark.                            *)
ClearNothing(table, owner) == table

(* SET is_default = FALSE WHERE user_id = ?                                *)
ClearDefaults(table, owner) ==
  [i \in DOMAIN table |->
     IF table[i].owner = owner THEN [table[i] EXCEPT !.isDefault = FALSE] ELSE table[i]]

Insert(table, id, row) ==
  [i \in DOMAIN table \cup {id} |-> IF i = id THEN row ELSE table[i]]

(* SET ..., is_default = ? WHERE id = ? AND user_id = ?: no row that       *)
(* matches is an answer like any other.                                    *)
SetDefault(table, id, owner, isDefault) ==
  IF Owned(table, id, owner) THEN [table EXCEPT ![id].isDefault = isDefault] ELSE table

Remove(table, id) == [i \in DOMAIN table \ {id} |-> table[i]]

(* The last statement of q's transaction, on the table it finds.           *)
Write(table, q) ==
  IF q.method = "CreateAddress"
  THEN Insert(table, last + 1, [owner |-> q.owner, isDefault |-> q.isDefault])
  ELSE SetDefault(table, q.id, q.owner, q.isDefault)

(* Its first statement clears the default, when the request sets one.      *)
FirstStatement(isDefault) == IF isDefault THEN "clear" ELSE "write"

-----------------------------------------------------------------------------
Accept(r, method, pc, owner, id, isDefault) ==
  /\ req[r] = Idle
  /\ req' = [req EXCEPT ![r] = [method |-> method, pc |-> pc, owner |-> owner,
                                id |-> id, isDefault |-> isDefault]]
  /\ overlapped' = (overlapped \/ \E s \in Requests \ {r} : req[s] # Idle)
  /\ UNCHANGED <<addresses, last, atomic>>

CreateAddress(r) ==
  \E owner \in Customers, isDefault \in BOOLEAN :
    Accept(r, "CreateAddress", FirstStatement(isDefault), owner, 0, isDefault)

UpdateAddress(r) ==
  \E owner \in Customers, id \in 1 .. last, isDefault \in BOOLEAN :
    Accept(r, "UpdateAddress", "check", owner, id, isDefault)

SetDefaultAddress(r) ==
  \E owner \in Customers, id \in 1 .. last :
    Accept(r, "SetDefaultAddress", "check", owner, id, TRUE)

DeleteAddress(r) ==
  \E owner \in Customers, id \in 1 .. last :
    Accept(r, "DeleteAddress", "delete", owner, id, FALSE)

(* The ownership query, outside the transaction.                           *)
CheckOwner(r) ==
  LET q == req[r] IN
  /\ q.pc = "check"
  /\ req' = [req EXCEPT ![r] =
       IF Owned(addresses, q.id, q.owner)
       THEN [q EXCEPT !.pc = FirstStatement(q.isDefault)] ELSE Idle]
  /\ UNCHANGED <<addresses, last, atomic, overlapped>>

(* DeleteAddress's one statement, in scope.                                *)
DeleteStatement(r) ==
  /\ req[r].pc = "delete"
  /\ addresses' = IF Owned(addresses, req[r].id, req[r].owner)
                  THEN Remove(addresses, req[r].id) ELSE addresses
  /\ req' = [req EXCEPT ![r] = Idle]
  /\ UNCHANGED <<last, atomic, overlapped>>

(* Bound: an insert happens only below MaxAddresses.                       *)
Inserts(q) ==
  /\ q.method = "CreateAddress" => last < MaxAddresses
  /\ last' = IF q.method = "CreateAddress" THEN last + 1 ELSE last

(* SQLite: the transaction commits whole.                                  *)
Transaction(r) ==
  LET q == req[r] IN
  /\ atomic
  /\ q.pc \in {"clear", "write"}
  /\ Inserts(q)
  /\ addresses' =
       Write(IF q.pc = "clear" THEN ClearDefaults(addresses, q.owner) ELSE addresses, q)
  /\ req' = [req EXCEPT ![r] = Idle]
  /\ UNCHANGED <<atomic, overlapped>>

(* D1: each statement takes effect alone.                                  *)
ClearStatement(r) ==
  /\ ~ atomic
  /\ req[r].pc = "clear"
  /\ addresses' = ClearDefaults(addresses, req[r].owner)
  /\ req' = [req EXCEPT ![r].pc = "write"]
  /\ UNCHANGED <<last, atomic, overlapped>>

WriteStatement(r) ==
  /\ ~ atomic
  /\ req[r].pc = "write"
  /\ Inserts(req[r])
  /\ addresses' = Write(addresses, req[r])
  /\ req' = [req EXCEPT ![r] = Idle]
  /\ UNCHANGED <<atomic, overlapped>>

(* Mutant: a transaction that fails after its first statement keeps it.    *)
FailKeepsClear(r) ==
  /\ req[r] # Idle
  /\ req' = [req EXCEPT ![r] = Idle]
  /\ addresses' = IF req[r].pc = "clear" THEN ClearDefaults(addresses, req[r].owner)
                  ELSE addresses
  /\ UNCHANGED <<last, atomic, overlapped>>

(* A query or a statement fails, or the process stops: the request ends,   *)
(* and what its earlier statements did on D1 stays.                        *)
Fail(r) ==
  /\ req[r] # Idle
  /\ req' = [req EXCEPT ![r] = Idle]
  /\ UNCHANGED <<addresses, last, atomic, overlapped>>

Step(r) ==
  \/ CreateAddress(r)
  \/ UpdateAddress(r)
  \/ SetDefaultAddress(r)
  \/ DeleteAddress(r)
  \/ CheckOwner(r)
  \/ DeleteStatement(r)
  \/ Transaction(r)
  \/ ClearStatement(r)
  \/ WriteStatement(r)
  \/ Fail(r)

Next == \E r \in Requests : Step(r)

Spec == Init /\ [][Next]_vars

-----------------------------------------------------------------------------
TypeOK ==
  /\ addresses \in [DOMAIN addresses -> Address]
  /\ DOMAIN addresses \subseteq 1 .. last
  /\ last \in Nat
  /\ req \in [Requests -> Request]
  /\ \A r \in Requests : req[r] # Idle => req[r].owner \in Customers
  /\ atomic \in BOOLEAN
  /\ overlapped \in BOOLEAN

IsDefault(table, id) == table[id].isDefault
HasDefault(table, owner) ==
  \E id \in DOMAIN table : table[id].owner = owner /\ IsDefault(table, id)

(* A customer has at most one default address: always on SQLite, and on D1 *)
(* as long as no two requests of the address book ran at the same time,    *)
(* whatever failed half-way.  No constraint of the table says so; every    *)
(* writer of is_default clears the old mark first.                         *)
OneDefault ==
  atomic \/ ~ overlapped =>
    \A i, j \in DOMAIN addresses :
      /\ addresses[i].owner = addresses[j].owner
      /\ IsDefault(addresses, i) /\ IsDefault(addresses, j)
      => i = j

(* On SQLite a customer who has a default loses it only by giving it up:   *)
(* by deleting it, by updating it as not the default, or by asking for a   *)
(* default that was deleted after the ownership query found it.  Clearing  *)
(* and setting are never seen apart.                                       *)
DefaultsGivenUpOnly ==
  [][atomic => \A owner \in Customers :
       HasDefault(addresses, owner) /\ ~ HasDefault(addresses', owner)
         => \E r \in Requests :
              /\ req'[r] # req[r]
              /\ req[r].owner = owner
              /\ req[r].method # "CreateAddress"
              /\ req[r].id \in DOMAIN addresses
                   => ~ req[r].isDefault /\ IsDefault(addresses, req[r].id)]_vars

(* A row is written or removed only in a step of a request of the customer *)
(* it belongs to: neither clearing the old default, nor the write an old   *)
(* ownership answer allowed, nor a delete reaches another's address.       *)
RowsAnswerToOwner ==
  [][\A id \in DOMAIN addresses :
       (id \in DOMAIN addresses' => addresses'[id] # addresses[id])
         => \E r \in Requests :
              req'[r] # req[r] /\ req[r].owner = addresses[id].owner]_vars
=============================================================================
