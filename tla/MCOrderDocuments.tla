------------------------- MODULE MCOrderDocuments -------------------------
(***************************************************************************)
(* TLC's instance of the orders on SQLite.  A behaviour is of one mix of   *)
(* methods, chosen when it begins, so that each is explored to its bounds  *)
(* without the product of all of them:                                     *)
(*   lines      two requests that write the lines of two shoppers' orders  *)
(*   events     two requests that publish, on one shopper's orders, while  *)
(*              anything may fail                                          *)
(*   documents  a reader beside one writer                                 *)
(***************************************************************************)
EXTENDS OrderDocuments, TLC

CONSTANTS small, large, visitor

(* One basket of one line and one of two. *)
MCLineCount == [b \in Baskets |-> IF b = small THEN 1 ELSE 2]

VARIABLE mix

MixOf ==
  [lines     |-> {"none", "Create", "Get", "Update", "Delete"},
   events    |-> {"none", "Checkout", "Delete", "Cancel", "UpdateStatus"},
   documents |-> {"none", "Create", "Update", "Delete"}]

MCInit == DocumentsInit /\ mix \in DOMAIN MixOf

(* But in the lines mix, where shoppers place orders and everybody works   *)
(* on them, one shopper places and cancels orders (beside guests, in the   *)
(* documents mix) and the administrator does the rest.                     *)
Role(method) ==
  CASE mix = "lines" /\ method = "Create" -> Shoppers
    [] mix = "lines"               -> Actors
    [] method = "none"             -> {Guest}
    [] method = "Create"           -> {Guest} \cup (Shoppers \ {visitor})
    [] method \in {"Checkout", "Cancel"} -> Shoppers \ {visitor}
    [] OTHER                       -> {Admin}

(* The events mix has one basket; the shopper reads beside a single writer. *)
MCNext ==
  /\ UNCHANGED mix
  /\ DocumentsNext
  /\ \A r \in Requests :
       /\ req'[r].method \in MixOf[mix]
       /\ req'[r].actor \in Role(req'[r].method)
       /\ mix = "events" => req'[r].basket # large
  /\ mix # "events" => dropped' = {}
  /\ IF mix = "documents"
     THEN /\ Cardinality({r \in Requests : req'[r] # Idle}) <= 1
          /\ \A d \in Readers : doc'[d].actor \notin {visitor, Admin}
     ELSE UNCHANGED doc

MCSpec == MCInit /\ [][MCNext]_<<vars, documents, mix>>

Symmetry == Permutations(Requests)
=============================================================================
