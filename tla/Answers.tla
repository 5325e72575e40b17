------------------------------ MODULE Answers ------------------------------
(***************************************************************************)
(* What a client is told: the handlers of apis/ between the service they   *)
(* call and the status they answer.  Every handler is one of a few kinds   *)
(* of calls on a row that other calls may write meanwhile; the errors its  *)
(* service returns on the way are mapped by the switch at its end.         *)
(*                                                                         *)
(* The rows are the order, the product, the address and the refresh token  *)
(* the calls in flight name, and the account of the address they register. *)
(* How the services write them is in Orders, Catalogue, Addresses and      *)
(* Accounts; here a service is the few steps between which another call    *)
(* may come.                                                               *)
(***************************************************************************)
EXTENDS Naturals

CONSTANT Clients   \* the requests that may be in flight at the same time

Moves == {"confirmed", "shipped", "delivered", "cancelled"}
Legal == {<<"pending", "confirmed">>, <<"pending", "cancelled">>,
          <<"confirmed", "shipped">>, <<"confirmed", "cancelled">>,
          <<"shipped", "delivered">>, <<"shipped", "cancelled">>}

Rows == {"order", "product", "address", "account", "token"}

VARIABLES
  rows,    \* the state of each row: "none", "stored" or the order's status
  reply    \* what each request is doing, and what it was answered

answers == <<rows, reply>>

(* What a request has changed: the row it names, an object it uploaded, a  *)
(* refresh token it issued, or the form in which the one it presents is    *)
(* stored.                                                                 *)
NoReply == [pc |-> "idle", handler |-> "none", to |-> "none", error |-> "none",
            status |-> 0, changed |-> {}, missed |-> FALSE]

AnswersInit ==
  /\ rows \in [Rows -> {"none", "stored"}]
  /\ reply = [c \in Clients |-> NoReply]

-----------------------------------------------------------------------------
(* The handlers: what their service does with which row, and the errors it *)
(* may return before it does.  "BadRequest" is a body, form or id that     *)
(* cannot be read, "Missing" a field the handler itself asks for.          *)
Basket == {"NoItems", "UnknownProduct", "InvalidQuantity", "TooManyItems", "IntakeUnavailable"}

H(does, on, refusals) == [does |-> does, on |-> on, refusals |-> refusals]

StaffOrders ==
  [ordersCreate  |-> H("insert", "order", {"BadRequest", "FieldRequired"} \cup Basket),
   ordersGet     |-> H("read", "order", {"BadRequest"}),
   ordersList    |-> H("list", "order", {}),
   ordersUpdate  |-> H("change", "order",
                       {"BadRequest", "ImmutableFields", "FieldRequired"} \cup Basket),
   ordersDelete  |-> H("find", "order", {"BadRequest"})]

Checkout ==
  [checkout      |-> H("checkout", "order",
                       {"BadRequest", "Missing", "NotPermitted", "UploadsUnavailable"}
                         \cup Basket)]

MyOrders ==
  [listMyOrders  |-> StaffOrders.ordersList,
   getMyOrder    |-> StaffOrders.ordersGet,
   cancelMyOrder |-> H("cancel", "order", {"BadRequest"})]

AdminOrders ==
  [adminListOrders   |-> StaffOrders.ordersList,
   adminGetOrder     |-> StaffOrders.ordersGet,
   adminUpdateStatus |-> H("move", "order", {"BadRequest", "NotPermitted"}),
   adminDashboard    |-> H("list", "order", {"NotPermitted"})]

Invoices ==
  [h \in {"getCustomerInvoice", "getAdminInvoice"} |-> H("number", "order", {"BadRequest"})]

Products ==
  [productsCreate |-> H("insert", "product", {"BadRequest", "InvalidProduct"}),
   productsList  |-> H("list", "product", {"InvalidSort"}),
   productsGet   |-> H("read", "product", {"BadRequest"}),
   productsUpdate |-> H("change", "product", {"BadRequest", "InvalidProduct"}),
   productsDelete |-> H("remove", "product", {"BadRequest", "StillSold"})]

Profile ==
  [getProfile    |-> H("read", "account", {}),
   updateProfile |-> H("change", "account", {"BadRequest"})]

AddressBook ==
  [listAddresses |-> H("list", "address", {}),
   createAddress |-> H("insert", "address", {"BadRequest", "AddressIncomplete"}),
   updateAddress |-> H("edit", "address", {"BadRequest", "AddressIncomplete"}),
   deleteAddress |-> H("remove", "address", {"BadRequest"}),
   setDefaultAddress |-> H("number", "address", {"BadRequest"})]

(* A verifier that cannot reach Google calls the token a bad one.          *)
SignIns ==
  [register      |-> H("register", "account", {"BadRequest", "Missing", "InvalidPassword"}),
   login         |-> H("login", "account", {"BadRequest", "Missing", "InvalidCredentials"}),
   googleLogin   |-> H("google", "account", {"BadRequest", "Missing", "GoogleUnavailable",
                                             "LinkRequired", "InvalidGoogleToken"}),
   refresh       |-> H("rotate", "token", {"NoRefreshToken"}),
   logout        |-> H("revoke", "token", {}),
   me            |-> H("read", "account", {})]

(* The groups share no handler.                                            *)
Both(f, g) == [h \in DOMAIN f \cup DOMAIN g |-> IF h \in DOMAIN f THEN f[h] ELSE g[h]]

OrderHandlers ==
  Both(StaffOrders, Both(Checkout, Both(MyOrders, Both(AdminOrders, Invoices))))

Handler == Both(OrderHandlers, Both(Products, Both(Profile, Both(AddressBook, SignIns))))

-----------------------------------------------------------------------------
(* The switches.                                                           *)
WriteIntakeError(e) ==
  CASE e \in (Basket \ {"IntakeUnavailable"}) \cup {"ImmutableFields", "FieldRequired"} -> 422
    [] e = "IntakeUnavailable" -> 503
    [] e = "NotPermitted"      -> 403
    [] OTHER                   -> 500

WriteCheckoutError(e) ==
  CASE e \in (Basket \ {"IntakeUnavailable"})
           \cup {"AddressNotFound", "ShopperNotFound", "NotPermitted"} -> 422
    [] e \in {"UploadsUnavailable", "IntakeUnavailable"} -> 503
    [] OTHER                   -> 500

WriteProductError(e) ==
  CASE e = "NotFound"          -> 404
    [] e = "InvalidProduct"    -> 422
    [] OTHER                   -> 500

NotFoundOr500(e) == IF e = "NotFound" THEN 404 ELSE 500

(* What else a handler maps; the rest is a 500.                            *)
MyOrderStatus(handler, e) ==
  IF handler = "cancelMyOrder" /\ e = "OnlyPending" THEN 422 ELSE NotFoundOr500(e)

AdminOrderStatus(handler, e) ==
  CASE e = "NotPermitted" -> 403
    [] handler = "adminGetOrder" /\ e = "NotFound" -> 404
    [] handler = "adminUpdateStatus" /\ e \in {"InvalidTransition", "NotFound"} -> 422
    [] OTHER -> 500

CustomerStatus(handler, e) ==
  IF e = "AddressIncomplete" THEN 422
  ELSE IF handler \in {"getProfile", "deleteAddress", "setDefaultAddress"}
       THEN NotFoundOr500(e)
  ELSE 500

SignInStatus(e) ==
  CASE e \in {"EmailExists", "LinkRequired"} -> 409
    [] e = "InvalidPassword" -> 422
    [] e \in {"InvalidCredentials", "InvalidGoogleToken"} -> 401
    [] e \in {"NoRefreshToken", "InvalidRefreshToken", "RefreshExpired", "UserNotFound"} -> 401
    [] e = "GoogleUnavailable" -> 503
    [] OTHER -> 500

StatusOf(handler, e) ==
  IF e = "BadRequest" THEN 400
  ELSE IF e = "Missing" THEN 422
  ELSE CASE handler = "ordersCreate" -> WriteIntakeError(e)
         [] handler = "ordersUpdate" -> IF e = "NotFound" THEN 404 ELSE WriteIntakeError(e)
         [] handler = "checkout"     -> WriteCheckoutError(e)
         [] handler \in DOMAIN MyOrders -> MyOrderStatus(handler, e)
         [] handler \in DOMAIN AdminOrders -> AdminOrderStatus(handler, e)
         [] handler \in {"productsCreate", "productsUpdate"} -> WriteProductError(e)
         [] handler \in {"ordersList", "productsList"} -> 500
         [] handler \in DOMAIN Profile \cup DOMAIN AddressBook -> CustomerStatus(handler, e)
         [] handler \in {"register", "login", "googleLogin", "refresh"} -> SignInStatus(e)
         [] OTHER                   -> NotFoundOr500(e)

(* What a failing query is taken for: a login's for a wrong password, a    *)
(* refresh's for an account that is gone.                                  *)
ErrorOfFault(handler, pc) ==
  CASE handler = "login" /\ pc = "asked"     -> "InvalidCredentials"
    [] handler = "refresh" /\ pc = "account" -> "UserNotFound"
    [] OTHER -> "Fault"

Success(does) == CASE does \in {"insert", "checkout", "register"} -> 201
                   [] does \in {"find", "remove", "revoke"} -> 204 [] OTHER -> 200

-----------------------------------------------------------------------------
Does(c) == Handler[reply[c].handler].does
On(c) == Handler[reply[c].handler].on

Arrives(c) ==
  /\ reply[c].pc = "idle"
  /\ \E h \in DOMAIN Handler :
     \E to \in IF h = "adminUpdateStatus" THEN Moves ELSE {"cancelled"} :
       reply' = [reply EXCEPT ![c] = [NoReply EXCEPT !.pc = "asked", !.handler = h, !.to = to]]
  /\ UNCHANGED rows

Told(c, status, error, changed, missed) ==
  reply' = [reply EXCEPT ![c].pc = "told", ![c].status = status, ![c].error = error,
                         ![c].changed = changed, ![c].missed = missed]

Fails(c, e) == Told(c, StatusOf(reply[c].handler, e), e, reply[c].changed, FALSE)
Succeeds(c) == Told(c, Success(Does(c)), "none", reply[c].changed, FALSE)

Goes(c, pc, what) == reply' = [reply EXCEPT ![c].pc = pc, ![c].changed = @ \cup what]
Proceeds(c, pc) == Goes(c, pc, {})

Refused(c) ==
  /\ reply[c].pc = "asked"
  /\ \E e \in Handler[reply[c].handler].refusals : Fails(c, e)
  /\ UNCHANGED rows

Stored(c) == rows[On(c)] # "none"

(* What is done before the row is written.  A checkout uploads its         *)
(* screenshot, if it has one; a refresh brings the token it finds to the   *)
(* form the others have; and an account that a Google subject is not       *)
(* linked to yet is linked, or created.                                    *)
Reads(c) ==
  /\ reply[c].pc = "asked"
  /\ CASE Does(c) = "list"     -> Succeeds(c)
       [] Does(c) = "read"     -> IF Stored(c) THEN Succeeds(c) ELSE Fails(c, "NotFound")
       [] Does(c) = "checkout" -> \E what \in SUBSET {"object"} : Goes(c, "lookup", what)
       [] Does(c) = "register" -> IF Stored(c) THEN Fails(c, "EmailExists") ELSE Proceeds(c, "write")
       [] Does(c) = "login"    ->
            IF Stored(c) THEN Proceeds(c, "issue") ELSE Fails(c, "InvalidCredentials")
       [] Does(c) = "google"   ->
            \/ Stored(c) /\ Proceeds(c, "issue")
            \/ reply' = [reply EXCEPT ![c].pc = "write",
                                      ![c].to = IF Stored(c) THEN "link" ELSE "create"]
       [] Does(c) = "rotate"   ->
            IF ~ Stored(c) THEN Fails(c, "InvalidRefreshToken")
            ELSE \E pc \in {"expired", "account"}, what \in SUBSET {"digest"} : Goes(c, pc, what)
       [] Does(c) = "revoke"   -> Succeeds(c) \/ Proceeds(c, "write")
       [] Does(c) \in {"find", "edit", "number"} ->
            IF Stored(c) THEN Proceeds(c, "write") ELSE Fails(c, "NotFound")
       [] Does(c) = "cancel"   ->
            IF ~ Stored(c) THEN Fails(c, "NotFound")
            ELSE IF rows[On(c)] \in {"stored", "pending"} THEN Proceeds(c, "write")
            ELSE Fails(c, "OnlyPending")
       [] OTHER -> Proceeds(c, "write")
  /\ UNCHANGED rows

(* Mutant: a refresh revokes its token before it looks for the account.    *)
RevokesFirst(c) ==
  \/ /\ reply[c].pc = "lookup"
     /\ Fails(c, "AddressNotFound") \/ Fails(c, "NoAccount") \/ Proceeds(c, "write")
     /\ UNCHANGED rows
  \/ /\ reply[c].pc = "account"
     /\ rows' = [rows EXCEPT ![On(c)] = "none"]
     /\ \/ Told(c, 401, "UserNotFound", reply[c].changed \cup {"row"}, FALSE)
        \/ Goes(c, "write", {"row"})

(* The shopper and the address of a checkout; the account of a token.  An  *)
(* account that is gone is no "ShopperNotFound" by the time it gets here.  *)
LooksUp(c) ==
  /\ \/ /\ reply[c].pc = "lookup"
        /\ Fails(c, "AddressNotFound") \/ Fails(c, "NoAccount") \/ Proceeds(c, "write")
     \/ /\ reply[c].pc = "account"
        /\ Fails(c, "UserNotFound") \/ Proceeds(c, "write")
  /\ UNCHANGED rows

(* The ways to write.  A new row's id is a free one; an account that came  *)
(* since the look for it has the address; and the statement that moves or  *)
(* changes a row finds out whether the row is there.                       *)
WritesTo(c, state, pc) ==
  /\ rows' = [rows EXCEPT ![On(c)] = state]
  /\ Goes(c, pc, {"row"})

Declines(c, e) == Fails(c, e) /\ UNCHANGED rows

(* A token that has run out is removed; it is refused even if that fails.  *)
Expires(c) ==
  /\ reply[c].pc = "expired"
  /\ \/ Declines(c, "RefreshExpired")
     \/ /\ Stored(c)
        /\ rows' = [rows EXCEPT ![On(c)] = "none"]
        /\ Told(c, StatusOf(reply[c].handler, "RefreshExpired"), "RefreshExpired",
                reply[c].changed \cup {"row"}, FALSE)

Inserts(c) ==
  Does(c) \in {"insert", "checkout"} /\ ~ Stored(c) /\ WritesTo(c, "stored", "reread")

Registers(c) ==
  /\ Does(c) \in {"register", "google"}
  /\ IF Stored(c) /\ reply[c].to # "link"
     THEN Declines(c, "EmailTaken")
     ELSE WritesTo(c, "stored", "issue")

Deletes(c) ==
  /\ Does(c) \in {"find", "remove", "rotate", "revoke"}
  /\ LET next == IF Does(c) = "rotate" THEN "issue" ELSE "done" IN
     IF Stored(c) THEN WritesTo(c, "none", next)
     ELSE IF Does(c) = "remove" THEN Declines(c, "NotFound")
     ELSE Proceeds(c, next) /\ UNCHANGED rows

(* A new order is pending.                                                 *)
StatusNow(c) == IF rows[On(c)] = "stored" THEN "pending" ELSE rows[On(c)]

MovesOn(c) ==
  /\ Does(c) \in {"move", "cancel"}
  /\ IF ~ Stored(c) THEN Declines(c, "NotFound")
     ELSE IF <<StatusNow(c), reply[c].to>> \in Legal
     THEN WritesTo(c, reply[c].to, "reread")
     ELSE Declines(c, "InvalidTransition")

(* An address that is gone still costs the others the default.             *)
Changes(c) ==
  /\ Does(c) \in {"change", "edit"}
  /\ IF Stored(c) \/ Does(c) = "edit" THEN WritesTo(c, rows[On(c)], "reread")
     ELSE Declines(c, "NotFound")

Numbers(c) ==
  /\ Does(c) = "number"
  /\ IF Stored(c) \/ On(c) # "order" THEN WritesTo(c, rows[On(c)], "done")
     ELSE Declines(c, "NotFound")

(* An order that has its number keeps it.                                  *)
Numbered(c) == Does(c) = "number" /\ On(c) = "order" /\ Succeeds(c) /\ UNCHANGED rows

Writes(c) ==
  /\ reply[c].pc = "write"
  /\ \/ Inserts(c) \/ Registers(c) \/ Deletes(c) \/ MovesOn(c) \/ Changes(c) \/ Numbers(c)
     \/ Numbered(c)

(* The tokens of a session are the last thing a sign-in stores.            *)
StoresToken(c) ==
  /\ reply[c].pc = "issue"
  /\ Told(c, Success(Does(c)), "none", reply[c].changed \cup {"issued"}, FALSE)
  /\ UNCHANGED rows

(* The row is read again for the answer.                                   *)
Rereads(c) ==
  /\ reply[c].pc = "reread"
  /\ IF Stored(c) THEN Succeeds(c)
     ELSE Told(c, StatusOf(reply[c].handler, "NotFound"), "NotFound", reply[c].changed, TRUE)
  /\ UNCHANGED rows

Ends(c) == reply[c].pc = "done" /\ Succeeds(c) /\ UNCHANGED rows

(* A statement, a call or the commit fails; a logout does not mind.        *)
Breaks(c) ==
  /\ reply[c].pc \in {"asked", "lookup", "account", "write", "issue", "reread", "done"}
  /\ IF Does(c) = "revoke" THEN Succeeds(c)
     ELSE Fails(c, ErrorOfFault(reply[c].handler, reply[c].pc))
  /\ UNCHANGED rows

Leaves(c) == reply[c].pc = "told" /\ reply' = [reply EXCEPT ![c] = NoReply] /\ UNCHANGED rows

AnswerStep(c) ==
  Arrives(c) \/ Refused(c) \/ Reads(c) \/ LooksUp(c) \/ Expires(c) \/ Writes(c)
    \/ StoresToken(c) \/ Rereads(c) \/ Ends(c) \/ Breaks(c) \/ Leaves(c)

AnswersNext == \E c \in Clients : AnswerStep(c)

AnswersSpec == AnswersInit /\ [][AnswersNext]_answers

-----------------------------------------------------------------------------
(* What a 4xx may leave behind: the screenshot of a checkout, uploaded     *)
(* before the address it names is looked up; a token that has run out,     *)
(* removed; and the form in which a token is stored, changed.              *)
Left(e) ==
  {"digest"} \cup (CASE e = "AddressNotFound" -> {"object"}
                     [] e = "RefreshExpired"  -> {"row"}
                     [] OTHER                 -> {})

(* A status says what to do next: what is answered with a 4xx has changed  *)
(* nothing but what Left names, wherever among its steps it failed and     *)
(* whoever wrote the row meanwhile, so that it can be corrected and sent   *)
(* again; a refresh that is refused for a failing query still has its      *)
(* token.  Only the change of a row that another removed before it could   *)
(* be read again is answered with a 4xx although it was made.              *)
StatusesTell ==
  \A c \in Clients :
    LET q == reply[c] IN
    q.status \in 400 .. 499 => q.missed \/ q.changed \subseteq Left(q.error)
=============================================================================
