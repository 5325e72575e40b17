-------------------------- MODULE MigrationScript --------------------------
(***************************************************************************)
(* The six migrations of migrations/*.sql, statement by statement, as the  *)
(* objects they create and drop, and the rows that are in their way.  A    *)
(* column is named table.column; an index needs what it is on.             *)
(***************************************************************************)

create(object, needs) == [op |-> "create", object |-> object, needs |-> needs, bars |-> {}]
ensure(object, needs) == [op |-> "ensure", object |-> object, needs |-> needs, bars |-> {}]
drop(object) == [op |-> "drop", object |-> object, needs |-> {}, bars |-> {}]
discard(object) == [op |-> "discard", object |-> object, needs |-> {}, bars |-> {}]
change(needs) == [op |-> "change", object |-> "rows", needs |-> needs, bars |-> {}]

(* A statement that rows of these objects make fail.                       *)
unless(bars, stmt) == [stmt EXCEPT !.bars = bars]

(* A table is dropped unless rows of another reference its rows: an order  *)
(* of a signed-in customer references the customer.                        *)
Init0001 ==
  [version |-> 1,
   up |-> <<ensure("products", {}), ensure("orders", {}), ensure("order_items", {}),
            create("products_fts", {}), change({"products_fts", "products"}),
            create("products_fts_ai", {"products"}),
            create("products_fts_ad", {"products"}),
            create("products_fts_au", {"products"}),
            ensure("users", {}), ensure("customer_addresses", {}),
            ensure("refresh_tokens", {})>>,
   down |-> <<discard("products_fts_au"), discard("products_fts_ad"),
              discard("products_fts_ai"), discard("products_fts"),
              discard("refresh_tokens"), discard("customer_addresses"),
              unless({"refresh_tokens", "customer_addresses", "orders"}, discard("users")),
              discard("order_items"),
              unless({"order_items"}, discard("orders")),
              unless({"order_items"}, discard("products"))>>]

ProductCardMetadata0002 ==
  [version |-> 2,
   up |-> <<create("products.rating", {"products"}),
            create("products.delivery", {"products"})>>,
   down |-> <<drop("products.delivery"), drop("products.rating")>>]

(* Accounts that came to share a Google subject while no index forbade it. *)
GoogleProviderId0003 ==
  [version |-> 3,
   up |-> <<unless({"users"}, ensure("users_google_provider_id_unique", {"users"}))>>,
   down |-> <<discard("users_google_provider_id_unique")>>]

(* The UPDATE of its Down meets the index of 0003 where an account's old   *)
(* subject is another account's by now; the index stands for such rows.    *)
GoogleAccountLinking0004 ==
  [version |-> 4,
   up |-> <<create("users.google_id", {"users"}),
            change({"users", "users.google_id"}),
            unless({"users"}, ensure("users_google_id_unique", {"users.google_id"}))>>,
   down |-> <<discard("users_google_id_unique"),
              unless({"users_google_provider_id_unique"},
                     change({"users", "users.google_id"})),
              drop("users.google_id")>>]

(* Its Down is SELECT 1.                                                   *)
LinkGuestOrders0005 ==
  [version |-> 5,
   up |-> <<change({"orders", "users"})>>,
   down |-> <<change({})>>]

IndexRefreshTokens0006 ==
  [version |-> 6,
   up |-> <<ensure("refresh_tokens_token_unique", {"refresh_tokens"})>>,
   down |-> <<discard("refresh_tokens_token_unique")>>]

Files ==
  <<Init0001, ProductCardMetadata0002, GoogleProviderId0003,
    GoogleAccountLinking0004, LinkGuestOrders0005, IndexRefreshTokens0006>>
=============================================================================
