--------------------------- MODULE MCStorefront ---------------------------
(***************************************************************************)
(* TLC's instance of Storefront.  A behaviour is of one mix, chosen when   *)
(* it begins, so that each kind of concurrency is explored to its bounds   *)
(* without the product of all of them:                                     *)
(*   book   two requests on the address books, on either adapter           *)
(*   shop   an intake request, and another after it, beside the editor and *)
(*          one address that may vanish; the products have no text         *)
(*   dump   an export beside the editor                                    *)
(***************************************************************************)
EXTENDS Storefront, TLC

VARIABLE mix

MCInit ==
  /\ StorefrontInit
  /\ mix \in {"book", "shop", "dump"}
  /\ mix # "book" => atomic

Book == mix = "book" /\ BookStep

Shop ==
  /\ mix = "shop"
  /\ BookStep \/ CatalogueStep \/ IntakeNext
  /\ \A id \in DOMAIN products' : products'[id].text = NoText
  /\ last' <= 1
  /\ \A r \in Requests :
       \/ req'[r] = Idle
       \/ req'[r].method = "CreateAddress" /\ ~ req'[r].isDefault /\ edits = 0 /\ visits = 0
       \/ req'[r].method = "DeleteAddress" /\ visits = 1
  /\ Cardinality({r \in Requests : req'[r] # Idle}) <= 1

Dumping == mix = "dump" /\ (CatalogueStep \/ ExportStep)

MCNext == (Book \/ Shop \/ Dumping) /\ UNCHANGED mix

MCSpec == MCInit /\ [][MCNext]_<<storefront, mix>>

Symmetry == Permutations(Requests) \cup Permutations(Customers)
=============================================================================
