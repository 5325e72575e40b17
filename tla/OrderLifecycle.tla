--------------------------- MODULE OrderLifecycle ---------------------------
(***************************************************************************)
(* What the order module promises of one order, whatever the storage: it   *)
(* is placed once, its status moves only along the documented lifecycle    *)
(* (services/orders/types.go, "Valid order status values and their allowed *)
(* transitions", and the state diagram of docs/content/docs/events.mdx),   *)
(* a terminal status stays, and an order that was removed never comes      *)
(* back.  OrdersSQLite is shown to implement it.                           *)
(***************************************************************************)
CONSTANT
  Orders    \* the orders that may ever be placed

VARIABLE
  life      \* where each of them is in its life

Open == {"pending", "confirmed", "shipped"}
Terminal == {"delivered", "cancelled"}
Stored == Open \cup Terminal \cup {"unlisted"}

(* Each open status may be cancelled or move one step forward.             *)
Forward == [pending |-> "confirmed", confirmed |-> "shipped", shipped |-> "delivered"]

Init == life = [o \in Orders |-> "unplaced"]

(* A create may store any status the request names, a checkout "pending".  *)
Place(o, status) ==
  /\ life[o] = "unplaced"
  /\ life' = [life EXCEPT ![o] = status]

Advance(o) ==
  /\ life[o] \in Open
  /\ life' = [life EXCEPT ![o] = Forward[life[o]]]

Cancel(o) ==
  /\ life[o] \in Open
  /\ life' = [life EXCEPT ![o] = "cancelled"]

Remove(o) ==
  /\ life[o] \in Stored
  /\ life' = [life EXCEPT ![o] = "removed"]

Next ==
  \E o \in Orders :
    \/ \E status \in Stored : Place(o, status)
    \/ Advance(o)
    \/ Cancel(o)
    \/ Remove(o)

Spec == Init /\ [][Next]_life
=============================================================================
