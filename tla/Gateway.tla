------------------------------ MODULE Gateway ------------------------------
(***************************************************************************)
(* Who a request is served as: the cookies the auth handlers set and clear *)
(* (apis/auth/handler.go), the access token signed into one of them        *)
(* (services/auth/jwt.go), the middleware that reads it (apis/auth/        *)
(* middleware.go) and the guards the routes are registered under.          *)
(*                                                                         *)
(* A browser sends its cookies with every request and takes the answers in *)
(* any order; a client without cookies sends a Bearer token.  What the     *)
(* auth service does with the refresh token is here two steps, in detail   *)
(* it is in Accounts.  The role of an account is a column that is changed  *)
(* in the database by hand.  A unit of the clock is a quarter of an hour,  *)
(* and no handler takes one to answer.                                     *)
(***************************************************************************)
EXTENDS Naturals, FiniteSets

CONSTANTS
  Owners,       \* the accounts
  Calls,        \* the requests that may be in flight at the same time
  Visited,      \* the routes that are asked for
  Nobody,       \* the user of a token that is not there
  AccessLife,   \* how long an access token is good for
  RefreshLife,  \* how long a refresh token is good for
  MaxIssued,    \* bound: pairs of tokens
  MaxClock      \* bound: the clock stops there

-----------------------------------------------------------------------------
(* The routes, as RegisterRoutes of the handlers and newHandler guard them. *)
Administrative ==
  {"POST /admin/products", "PUT /admin/products/{id}", "DELETE /admin/products/{id}",
   "GET /admin/orders", "GET /admin/orders/{id}", "PATCH /admin/orders/{id}/status",
   "GET /admin/dashboard", "GET /admin/invoices/{id}"}

Unguarded ==
  {"GET /products", "GET /products/{id}", "GET /health", "POST /auth/register",
   "POST /auth/login", "POST /auth/google", "POST /auth/refresh", "POST /auth/logout"}

Personal ==
  {"GET /auth/me", "GET /customers/profile", "PUT /customers/profile",
   "GET /customers/addresses", "POST /customers/addresses",
   "PUT /customers/addresses/{id}", "DELETE /customers/addresses/{id}",
   "PUT /customers/addresses/{id}/default", "GET /orders", "GET /orders/{id}",
   "PUT /orders/{id}", "DELETE /orders/{id}", "GET /orders/my", "GET /orders/my/{id}",
   "DELETE /orders/my/{id}", "POST /orders/checkout", "GET /invoices/{id}"}

Routes == Administrative \cup Unguarded \cup Personal \cup {"POST /orders"}

(* Mutant: an administrator's route is registered under WithAuth alone.    *)
GuardWithoutRole(route) ==
  CASE route \in Unguarded -> "open"
    [] route = "POST /orders" -> "optional"
    [] OTHER -> "auth"

Guard(route) ==
  CASE route \in Unguarded -> "open"
    [] route = "POST /orders" -> "optional"
    [] route \in Administrative -> "admin"
    [] OTHER -> "auth"

ASSUME GatewayAssumption ==
  /\ Visited \subseteq Routes /\ Nobody \notin Owners
  /\ AccessLife \in Nat \ {0} /\ RefreshLife \in Nat \ {0}
  /\ MaxIssued \in Nat /\ MaxClock \in Nat

VARIABLES
  clock,
  admins,    \* the accounts whose role is admin
  adminAt,   \* history: when each account was last one of them; 0 for never
  live,      \* the table refresh_tokens
  pairs,     \* how many pairs of tokens there ever were
  jar,       \* the browser's cookies
  handed,    \* the access tokens in anybody's hands
  call,      \* what each request is doing
  ended,     \* history: the sessions that were signed out
  crossed    \* history: those a sign-out or refresh of which met another

sessions == <<live, pairs, ended, crossed>>
gateway == <<clock, admins, adminAt, sessions, jar, handed, call>>

(* `session` is history: the pair a sign-in issued, which rotation hands on. *)
NoAccess == [user |-> Nobody, role |-> "none", session |-> 0, until |-> 0]
NoRefresh == [user |-> Nobody, number |-> 0, session |-> 0, until |-> 0]
NoCookies == [access |-> NoAccess, refresh |-> NoRefresh]
NoCall == [pc |-> "idle", route |-> "none", carried |-> NoCookies, role |-> "none",
           status |-> 0, set |-> NoCookies, sets |-> FALSE, at |-> 0]

GatewayInit ==
  /\ clock = 1
  /\ admins \in SUBSET Owners
  /\ adminAt = [u \in Owners |-> IF u \in admins THEN 1 ELSE 0]
  /\ live = {} /\ pairs = 0 /\ jar = NoCookies /\ handed = {}
  /\ call = [c \in Calls |-> NoCall]
  /\ ended = {} /\ crossed = {}

-----------------------------------------------------------------------------
(* The role of an account is changed, behind the program's back.           *)
ChangeRole ==
  /\ \E u \in Owners : admins' = IF u \in admins THEN admins \ {u} ELSE admins \cup {u}
  /\ adminAt' = [u \in Owners |-> IF u \in admins \cup admins' THEN clock ELSE adminAt[u]]
  /\ UNCHANGED <<clock, sessions, jar, handed, call>>

(* A browser drops a cookie when its MaxAge is over.                       *)
Kept(token, none, time) == IF token.until <= time THEN none ELSE token

Elapse ==
  /\ clock < MaxClock
  /\ \A c \in Calls : call[c].pc \in {"idle", "sent"}
  /\ clock' = clock + 1
  /\ adminAt' = [u \in Owners |-> IF u \in admins THEN clock' ELSE adminAt[u]]
  /\ jar' = [access |-> Kept(jar.access, NoAccess, clock'),
             refresh |-> Kept(jar.refresh, NoRefresh, clock')]
  /\ UNCHANGED <<admins, sessions, handed, call>>

-----------------------------------------------------------------------------
Send(c, route, carried) ==
  /\ call[c] = NoCall
  /\ call' = [call EXCEPT ![c] = [NoCall EXCEPT !.pc = "sent", !.route = route,
                                                !.carried = carried]]

(* The routes that rotate or revoke the refresh token they carry.          *)
Ending == {"POST /auth/refresh", "POST /auth/logout"}

Browse(c) ==
  /\ \E route \in Visited :
       /\ Send(c, route, jar)
       /\ crossed' = crossed \cup
            {s \in 1 .. pairs : \E d \in Calls \ {c} :
               /\ route \in Ending /\ s = jar.refresh.session
               /\ call[d].route \in Ending
               /\ s \in {call[d].carried.refresh.session, call[d].set.refresh.session}}
  /\ UNCHANGED <<clock, admins, adminAt, live, pairs, ended, jar, handed>>

(* A client with a Bearer token, however old, or with none.                *)
SendBearer(c) ==
  /\ \E route \in Visited \ Unguarded, token \in handed \cup {NoAccess} :
       Send(c, route, [NoCookies EXCEPT !.access = token])
  /\ UNCHANGED <<clock, admins, adminAt, sessions, jar, handed>>

-----------------------------------------------------------------------------
Respond(c, status) ==
  call' = [call EXCEPT ![c].pc = "answered", ![c].status = status, ![c].at = clock]

RespondWith(c, status, cookies) ==
  call' = [call EXCEPT ![c].pc = "answered", ![c].status = status, ![c].at = clock,
                       ![c].carried = NoCookies, ![c].sets = TRUE, ![c].set = cookies]

RoleOf(u) == IF u \in admins THEN "admin" ELSE "customer"

(* issueTokens, for a session that is 0 when it begins; setTokenCookies.   *)
Issues(c, user, role, session, status, kept) ==
  LET n == pairs + 1
      s == IF session = 0 THEN n ELSE session
      access == [user |-> user, role |-> role, session |-> s, until |-> clock + AccessLife]
      refresh == [user |-> user, number |-> n, session |-> s, until |-> clock + RefreshLife]
  IN
  /\ n <= MaxIssued
  /\ pairs' = n
  /\ live' = kept \cup {refresh}
  /\ handed' = handed \cup {access}
  /\ RespondWith(c, status, [access |-> access, refresh |-> refresh])

(* register, login and googleLogin, whatever the browser's cookies say.    *)
SignIn(c) ==
  /\ call[c].pc = "sent"
  /\ call[c].route \in {"POST /auth/register", "POST /auth/login", "POST /auth/google"}
  /\ \/ \E u \in Owners : Issues(c, u, RoleOf(u), 0, 200, live)
     \/ Respond(c, 401) /\ UNCHANGED <<live, pairs, handed>>
  /\ UNCHANGED <<clock, admins, adminAt, ended, crossed, jar>>

(* refresh: the token and the account are looked up, an expired token is   *)
(* deleted; without one, or with one that is gone, the cookies stay.       *)
LookUp(c) ==
  LET token == call[c].carried.refresh IN
  /\ call[c].pc = "sent" /\ call[c].route = "POST /auth/refresh"
  /\ IF token \notin live \/ token.until <= clock
     THEN Respond(c, 401) /\ live' = live \ {token}
     ELSE /\ call' = [call EXCEPT ![c].pc = "found", ![c].role = RoleOf(token.user)]
          /\ UNCHANGED live
  /\ UNCHANGED <<clock, admins, adminAt, pairs, ended, crossed, jar, handed>>

(* Mutant: the old token is left to expire.                                *)
RotateKeepsOld(c) ==
  LET token == call[c].carried.refresh IN
  /\ call[c].pc = "found"
  /\ \/ Issues(c, token.user, call[c].role, token.session, 200, live)
     \/ Respond(c, 500) /\ UNCHANGED <<live, pairs, handed>>
  /\ UNCHANGED <<clock, admins, adminAt, ended, crossed, jar>>

(* The old token is deleted, if it is still there, and a pair is issued; a *)
(* fault comes before or in between.                                       *)
Rotate(c) ==
  LET token == call[c].carried.refresh IN
  /\ call[c].pc = "found"
  /\ \/ Issues(c, token.user, call[c].role, token.session, 200, live \ {token})
     \/ Respond(c, 500) /\ live' \in {live, live \ {token}} /\ UNCHANGED <<pairs, handed>>
  /\ UNCHANGED <<clock, admins, adminAt, ended, crossed, jar>>

(* logout: the cookies are cleared, and an error of the service ignored.   *)
SignOut(c) ==
  LET token == call[c].carried.refresh IN
  /\ call[c].pc = "sent" /\ call[c].route = "POST /auth/logout"
  /\ \/ live' = live \ {token} /\ ended' = ended \cup ({token.session} \ {0})
     \/ UNCHANGED <<live, ended>>
  /\ RespondWith(c, 204, NoCookies)
  /\ UNCHANGED <<clock, admins, adminAt, pairs, crossed, jar, handed>>

(* Every other route: WithAuth, WithAdmin and WithOptionalAuth.  A cookie  *)
(* that is no good hides a Bearer token; what the handler answers, once it *)
(* is reached, is 200 here.                                                *)
Valid(token) == token # NoAccess /\ clock < token.until

Handle(c) ==
  LET token == call[c].carried.access
      guard == Guard(call[c].route)
  IN
  /\ call[c].pc = "sent"
  /\ call[c].route \notin Unguarded \/ call[c].route \in {"GET /products", "GET /products/{id}", "GET /health"}
  /\ Respond(c,
       CASE guard \in {"auth", "admin"} /\ ~ Valid(token) -> 401
         [] guard = "admin" /\ Valid(token) /\ token.role # "admin" -> 403
         [] OTHER -> 200)
  /\ UNCHANGED <<clock, admins, adminAt, sessions, jar, handed>>

-----------------------------------------------------------------------------
(* Mutant: a refresh cookie that is still good is kept.                    *)
ReceiveKeeping(c) ==
  LET q == call[c] IN
  /\ q.pc = "answered"
  /\ jar' = CASE q.sets /\ jar.refresh # NoRefresh /\ q.set # NoCookies ->
                   [jar EXCEPT !.access = q.set.access]
              [] q.sets -> q.set
              [] OTHER  -> jar
  /\ call' = [call EXCEPT ![c] = NoCall]
  /\ UNCHANGED <<clock, admins, adminAt, sessions, handed>>

(* The browser takes an answer, in any order.                              *)
Receive(c) ==
  /\ call[c].pc = "answered"
  /\ jar' = IF call[c].sets THEN call[c].set ELSE jar
  /\ call' = [call EXCEPT ![c] = NoCall]
  /\ UNCHANGED <<clock, admins, adminAt, sessions, handed>>

(* An answer is lost: the session of a rotated token goes on unknown.      *)
LoseAnswer(c) ==
  /\ call[c].pc = "answered"
  /\ crossed' = crossed \cup ({call[c].set.refresh.session} \ {0})
  /\ call' = [call EXCEPT ![c] = NoCall]
  /\ UNCHANGED <<clock, admins, adminAt, live, pairs, ended, jar, handed>>

CallStep(c) ==
  \/ Browse(c) \/ SendBearer(c) \/ SignIn(c) \/ LookUp(c) \/ Rotate(c) \/ SignOut(c)
  \/ Handle(c) \/ Receive(c) \/ LoseAnswer(c)

GatewayNext == ChangeRole \/ Elapse \/ \E c \in Calls : CallStep(c)

GatewaySpec == GatewayInit /\ [][GatewayNext]_gateway

-----------------------------------------------------------------------------
(* An administrator's route is only ever served to an account that was an  *)
(* administrator in the life of an access token before: a role that was    *)
(* withdrawn does not outlive its token, though the role is in the token,  *)
(* tokens are replayed, and a refresh may have read the role just before.  *)
AdminsOnly ==
  \A c \in Calls :
    LET token == call[c].carried.access IN
    (call[c].status = 200 /\ call[c].route \in Administrative)
      => token.user \in Owners /\ call[c].at < adminAt[token.user] + AccessLife

(* Whatever order the answers of two sign-ins, refreshes and sign-outs     *)
(* come in, the two cookies of a browser are of one session: the account   *)
(* a request is served as is the one a refresh would renew.                *)
CookiesOfOneSession ==
  (jar.access # NoAccess /\ jar.refresh # NoRefresh)
    => jar.access.session = jar.refresh.session /\ jar.access.user = jar.refresh.user

(* Signing out ends the session: none of its refresh tokens is left, and   *)
(* its last access token expires, unless a refresh of it or another        *)
(* sign-out met the sign-out, an answer was lost, or the delete failed.    *)
SignedOutIsOver ==
  \A s \in ended \ crossed : \A token \in live : token.session # s
=============================================================================
