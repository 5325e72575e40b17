----------------------------- MODULE MCOrdersD1 -----------------------------
(***************************************************************************)
(* TLC's instances of the D1 adapter, one of these at a time:              *)
(*   alone   one request at a time, while anything may fail                *)
(*   race    two requests that publish beside one that removes, no faults  *)
(*   status  two administrators beside one who places an order             *)
(*   values  a value on its way through the columns of both adapters       *)
(***************************************************************************)
EXTENDS OrdersD1, RowValues, TLC

CONSTANTS small, large, Mixes

VARIABLE mix

(* One basket of one line and one of two. *)
MCLineCount == [b \in Baskets |-> IF b = small THEN 1 ELSE 2]

MixOf ==
  [alone  |-> {"none", "Create", "Update", "Delete", "Cancel", "UpdateStatus"},
   race   |-> {"none", "Checkout", "Delete", "UpdateStatus"},
   status |-> {"none", "Create", "UpdateStatus"}]

MCInit ==
  /\ D1Init
  /\ CellsInit
  /\ mix \in Mixes
  /\ mix # "values" => column = "TEXT"

OrdersStep ==
  /\ mix \in DOMAIN MixOf
  /\ D1Next
  /\ \A r \in Requests : req'[r].method \in MixOf[mix]
  /\ CASE mix = "alone" ->
           /\ Cardinality({r \in Requests : req'[r] # Idle}) <= 1
           /\ \A r \in Requests : req'[r].basket # small
           /\ \A r \in Requests : req'[r].method = "UpdateStatus" => req'[r].to = "confirmed"
       [] OTHER ->
           /\ dropped' = {} /\ ~ faulted'
           /\ \A r \in Requests : req'[r].basket # large
           /\ \A r \in Requests : req'[r].method = "Create" => req'[r].to = "pending"
  /\ UNCHANGED cells

MCNext ==
  /\ \/ OrdersStep
     \/ mix = "values" /\ CellsNext /\ UNCHANGED d1vars
  /\ UNCHANGED mix

MCSpec == MCInit /\ [][MCNext]_<<d1vars, cells, mix>>

Symmetry == Permutations(Requests)
=============================================================================
