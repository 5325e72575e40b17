----------------------------- MODULE Storefront -----------------------------
(***************************************************************************)
(* The shop: administrators edit the catalogue, shoppers keep their        *)
(* address books and order, and somebody takes a dump for development, all *)
(* at the same time and over the same database.                            *)
(***************************************************************************)
EXTENDS Intake, Dump

storefront == <<vars, catalogue, intake, export>>

StorefrontInit == Init /\ CatalogueInit /\ IntakeInit /\ DumpInit

BookStep == Next /\ UNCHANGED <<catalogue, intake, export>>

(* A write of the catalogue happens beside every basket that waits for its *)
(* prices and beside the export.                                           *)
CatalogueStep ==
  /\ \/ CreateProduct /\ UNCHANGED shrunk
     \/ UpdateProduct /\ UNCHANGED shrunk
     \/ DeleteProduct(HeldIds) /\ DeletionSeen
  /\ CatalogueSeen
  /\ UNCHANGED <<vars, cart, sales, objects, clock, visits, dump, copy, before>>

IntakeNext ==
  /\ RemoveSale \/ \E b \in Buyers : IntakeStep(b)
  /\ UNCHANGED <<vars, catalogue, export>>

ExportStep == DumpStep /\ UNCHANGED <<vars, catalogue, intake>>

StorefrontNext == BookStep \/ CatalogueStep \/ IntakeNext \/ ExportStep

StorefrontSpec == StorefrontInit /\ [][StorefrontNext]_storefront

-----------------------------------------------------------------------------
StorefrontTypeOK ==
  /\ products \in [DOMAIN products -> Product]
  /\ index \subseteq (DOMAIN products) \X Texts
  /\ \A b \in Buyers :
       /\ cart[b].pc \in CartPcs
       /\ cart[b].pc = "idle" => cart[b] = NoCart
       /\ cart[b].visit \in 0 .. visits
  /\ DOMAIN sales \subseteq 1 .. visits
  /\ \A k \in DOMAIN objects : k \in 1 .. clock /\ objects[k] \in 1 .. visits
  /\ dump.pc \in {"off", "pages", "load", "loaded", "edited"}

(* A search finds what is stored: no sequence of writes leaves the index   *)
(* behind the table or ahead of it, and neither does the load of a dump    *)
(* that was written without triggers.  To take an order writes neither the *)
(* table nor the index: TLC walks the pages while none was taken, and      *)
(* SearchAlwaysFinds has the walk in every state.                          *)
SearchFinds ==
  /\ TypeOK /\ StorefrontTypeOK
  /\ visits = 0 => SearchFindsWhatIsStored
  /\ LoadedIndexAgrees
=============================================================================
