------------------------------- MODULE Intake -------------------------------
(***************************************************************************)
(* How an order is taken in: Create and Checkout of services/orders/       *)
(* service.go, with what they ask of other modules through the adapters:   *)
(* the catalogue's prices, the storage of payment screenshots, the         *)
(* shopper's account and the shopper's address.  Each question is answered *)
(* at another instant, and the catalogue and the address book change in    *)
(* between.                                                                *)
(*                                                                         *)
(* A basket is the set of product ids its lines name; quantities and       *)
(* totals follow from the prices.  Requests that are refused before they   *)
(* ask anything (no items, too many, a quantity below one, a guest at the  *)
(* checkout) never start here.                                             *)
(***************************************************************************)
EXTENDS Catalogue, Addresses

CONSTANTS
  Buyers,      \* the intake requests that may be in flight at the same time
  MaxItemsPerOrder,  \* the longest basket the service takes
  MaxVisits    \* bound: intake requests ever accepted

ASSUME IntakeAssumption == MaxVisits \in Nat /\ MaxItemsPerOrder \in Nat \ {0}

VARIABLES
  cart,      \* what each intake request is doing
  sales,     \* the orders that exist with their lines, by visit
  objects,   \* the bucket: which visit put the object under a key
  clock,     \* the clock GenerateKey reads
  visits,    \* history: how many intake requests were accepted
  seen,      \* history: the catalogues there were while a basket was priced
  removed    \* history: the ids deleted from the catalogue since it was

intake == <<cart, sales, objects, clock, visits, seen, removed>>

(* Guests may create orders and have no addresses.                         *)
Guest == "guest"
Shoppers == Customers \cup {Guest}
CartPcs == {"idle", "price", "upload", "shopper", "address", "insert"}

Cart ==
  [pc : CartPcs, checkout : BOOLEAN, actor : Shoppers, visit : Nat,
   basket : SUBSET Nat,             \* the products asked for
   lines : UNION {[ids -> Product] : ids \in SUBSET Nat},
                                    \* what priceBasket made of them
   address : Nat, home : Shoppers,  \* the address named, and whose was read
   proof : BOOLEAN,                 \* whether a screenshot came along
   shot : Nat]                      \* the key it was stored under, 0 if none

NoCart ==
  [pc |-> "idle", checkout |-> FALSE, actor |-> Guest, visit |-> 0,
   basket |-> {}, lines |-> <<>>, address |-> 0, home |-> Guest,
   proof |-> FALSE, shot |-> 0]

IntakeInit ==
  /\ cart = [b \in Buyers |-> NoCart]
  /\ sales = <<>>
  /\ objects = <<>>
  /\ clock = 0
  /\ visits = 0
  /\ seen = [b \in Buyers |-> {}]
  /\ removed = [b \in Buyers |-> {}]

-----------------------------------------------------------------------------
(* The order of the steps: what follows each of them.                      *)
Following(q, pc) ==
  CASE pc = "start"   -> "price"
    [] pc = "price"   -> IF q.proof THEN "upload"
                         ELSE IF q.checkout THEN "shopper" ELSE "insert"
    [] pc = "upload"  -> "shopper"
    [] pc = "shopper" -> "address"
    [] pc = "address" -> "insert"

Proceed(b, q) == cart' = [cart EXCEPT ![b] = [q EXCEPT !.pc = Following(q, q.pc)]]

(* The request is over, with an answer or an error.                        *)
Leave(b) ==
  /\ cart' = [cart EXCEPT ![b] = NoCart]
  /\ seen' = [seen EXCEPT ![b] = {}]
  /\ removed' = [removed EXCEPT ![b] = {}]

Enter(b, checkout, actor, address, basket, proof) ==
  LET q == [NoCart EXCEPT !.checkout = checkout, !.actor = actor,
              !.address = address, !.basket = basket, !.proof = proof,
              !.visit = visits + 1]
  IN
  /\ cart[b] = NoCart
  /\ visits < MaxVisits
  /\ visits' = visits + 1
  /\ cart' = [cart EXCEPT ![b] = [q EXCEPT !.pc = Following(q, "start")]]
  /\ seen' = [seen EXCEPT ![b] = {products}]
  /\ UNCHANGED <<sales, objects, clock, removed>>

(* The ids a basket may name: those of the table, and one it does not have. *)
Offers == DOMAIN products \cup FreeIds(products)
Baskets == {basket \in SUBSET Offers : Cardinality(basket) \in 1 .. MaxItemsPerOrder}

CreateOrder(b) ==
  \E actor \in Shoppers, basket \in Baskets : Enter(b, FALSE, actor, 0, basket, FALSE)

Checkout(b) ==
  \E actor \in Customers, address \in 1 .. last, basket \in Baskets, proof \in BOOLEAN :
    Enter(b, TRUE, actor, address, basket, proof)

-----------------------------------------------------------------------------
(* Mutant: the catalogue is asked for one product at a time.               *)
PriceOneByOne(b) ==
  LET q == cart[b] IN
  /\ q.pc = "price"
  /\ \E id \in q.basket \ DOMAIN q.lines :
       IF id \notin DOMAIN products THEN Leave(b)
       ELSE LET priced == [q EXCEPT !.lines =
                  [i \in DOMAIN q.lines \cup {id} |->
                     IF i = id THEN products[id] ELSE q.lines[i]]] IN
            /\ IF DOMAIN priced.lines = q.basket THEN Proceed(b, priced)
               ELSE cart' = [cart EXCEPT ![b] = priced]
            /\ UNCHANGED <<seen, removed>>
  /\ UNCHANGED <<sales, objects, clock, visits>>

(* priceBasket: one query for all products of the basket (GetByIDs).  A    *)
(* product the catalogue does not have is ErrUnknownProduct.  What it      *)
(* found goes into the lines, under the ids that were asked for.           *)
PriceBasket(b) ==
  LET q == cart[b] IN
  /\ q.pc = "price"
  /\ IF q.basket \subseteq DOMAIN products
     THEN /\ Proceed(b, [q EXCEPT !.lines = [id \in q.basket |-> products[id]]])
          /\ UNCHANGED <<seen, removed>>
     ELSE Leave(b)
  /\ UNCHANGED <<sales, objects, clock, visits>>

(* GenerateKey: the nanoseconds of the clock.  Assumed: no two uploads     *)
(* read the same nanosecond.                                               *)
KeyAt(now) == now

(* Uploads.Put.  The object is stored and its URL returned, or the call    *)
(* fails, with or without the object having been stored.                   *)
Upload(b) ==
  LET q == cart[b]
      key == KeyAt(clock + 1)
      stored == [k \in DOMAIN objects \cup {key} |->
                   IF k = key THEN q.visit ELSE objects[k]]
  IN
  /\ q.pc = "upload"
  /\ clock' = clock + 1
  /\ \/ Proceed(b, [q EXCEPT !.shot = key]) /\ objects' = stored
        /\ UNCHANGED <<seen, removed>>
     \/ Leave(b) /\ objects' \in {objects, stored}
  /\ UNCHANGED <<sales, visits>>

(* Shoppers.GetUser: an account that is gone is an error (Fails).          *)
ReadShopper(b) ==
  /\ cart[b].pc = "shopper"
  /\ Proceed(b, cart[b])
  /\ UNCHANGED <<sales, objects, clock, visits, seen, removed>>

(* Addresses.AddressFor, scoped to the shopper, and the service's second   *)
(* look at whose the answer is.                                            *)
FindsAddress(q) == Owned(addresses, q.address, q.actor)

ReadAddress(b) ==
  LET q == cart[b] IN
  /\ q.pc = "address"
  /\ IF FindsAddress(q)
     THEN /\ Proceed(b, [q EXCEPT !.home = addresses[q.address].owner])
          /\ UNCHANGED <<seen, removed>>
     ELSE Leave(b)
  /\ UNCHANGED <<sales, objects, clock, visits>>

(* REFERENCES products(id) of every line, checked as it is inserted.       *)
ReferencesHold(q) == q.basket \subseteq DOMAIN products

(* Repository.Insert, one transaction on SQLite: the header and the lines, *)
(* or nothing.  A line keeps the product's id with the name and price it   *)
(* was given by priceBasket, whatever that id stands for by now; `gone`    *)
(* notes the ids that were deleted in between.                             *)
InsertSale(b) ==
  LET q == cart[b]
      sale == [actor |-> q.actor, home |-> q.home, checkout |-> q.checkout,
               lines |-> q.lines, shot |-> q.shot, gone |-> removed[b]]
  IN
  /\ q.pc = "insert"
  /\ sales' = IF ReferencesHold(q)
              THEN [v \in DOMAIN sales \cup {q.visit} |->
                      IF v = q.visit THEN sale ELSE sales[v]]
              ELSE sales
  /\ Leave(b)
  /\ UNCHANGED <<objects, clock, visits>>

(* A question or the insert fails, or the process stops.  What was         *)
(* uploaded stays: nothing calls Uploads.Delete.                           *)
IntakeFails(b) ==
  /\ cart[b] # NoCart
  /\ Leave(b)
  /\ UNCHANGED <<sales, objects, clock, visits>>

(* An administrator deletes an order with its lines; its screenshot stays. *)
RemoveSale ==
  /\ \E v \in DOMAIN sales : sales' = [w \in DOMAIN sales \ {v} |-> sales[w]]
  /\ UNCHANGED <<cart, objects, clock, visits, seen, removed>>

IntakeStep(b) ==
  \/ CreateOrder(b)
  \/ Checkout(b)
  \/ PriceBasket(b)
  \/ Upload(b)
  \/ ReadShopper(b)
  \/ ReadAddress(b)
  \/ InsertSale(b)
  \/ IntakeFails(b)

(* The ids of products that stand in a line of an order.                   *)
SoldIds == UNION {DOMAIN sales[v].lines : v \in DOMAIN sales}

(* Mutant: the connection is opened without foreign keys.                  *)
NothingHeld == {}

(* With foreign keys on, a product an order has sold cannot be deleted.    *)
HeldIds == SoldIds

(* What the intake remembers of a change of the catalogue.                 *)
CatalogueSeen ==
  /\ seen' = [b \in Buyers |->
                IF cart[b].pc = "price" THEN seen[b] \cup {products'} ELSE seen[b]]
  /\ removed' = [b \in Buyers |->
                   IF cart[b].pc \in {"idle", "price"} THEN removed[b]
                   ELSE removed[b] \cup (DOMAIN products \ DOMAIN products')]

-----------------------------------------------------------------------------
(* The lines of a new order carry the prices of one catalogue: one that    *)
(* was there, whole, at some instant between the request and its pricing.  *)
(* A basket is never priced from two versions of the catalogue, whatever   *)
(* an administrator writes meanwhile.                                      *)
SoldAtOneCatalogue ==
  [][\A b \in Buyers :
       (DOMAIN sales' # DOMAIN sales /\ cart[b].visit \in DOMAIN sales' \ DOMAIN sales)
         => \E snapshot \in seen[b] :
              /\ cart[b].basket \subseteq DOMAIN snapshot
              /\ sales'[cart[b].visit].lines
                   = [id \in cart[b].basket |-> snapshot[id]]]_<<intake, catalogue>>

(* For as long as an order exists, every product id in its lines is in the *)
(* catalogue and stands for the product the line was priced and named      *)
(* after: products are not deleted under an order, so an id given out      *)
(* again is never in one.  Except an id whose product was deleted after    *)
(* the basket was priced and before the order was stored: the insert goes  *)
(* through if the id was given out again by then, and the line then points *)
(* at a product nobody asked for.                                          *)
SoldProductsStay ==
  \A v \in DOMAIN sales : \A id \in DOMAIN sales[v].lines :
    /\ id \in DOMAIN products
    /\ id \notin sales[v].gone => products[id].serial = sales[v].lines[id].serial

(* The screenshot an order names is in storage, and it is the one its own  *)
(* shopper sent: no other upload, failed or not, has replaced it.          *)
ScreenshotsAreTheOrders ==
  \A v \in DOMAIN sales :
    sales[v].shot # 0 => sales[v].shot \in DOMAIN objects /\ objects[sales[v].shot] = v

(* A checkout delivers to an address that was its own shopper's when it    *)
(* was read, however the address book changed since the request named it.  *)
DeliversHome ==
  \A v \in DOMAIN sales : sales[v].checkout => sales[v].home = sales[v].actor

(* For as long as an order exists its products are those it was priced     *)
(* from (but for an id deleted between pricing and insert), its screenshot *)
(* is its own shopper's, and a checkout delivers to an address that was    *)
(* its shopper's: whatever editors, other uploads and the address book do  *)
(* between the steps of its intake and after it.                           *)
SalesStand == SoldProductsStay /\ ScreenshotsAreTheOrders /\ DeliversHome
=============================================================================
