------------------------------ MODULE Accounts ------------------------------
(***************************************************************************)
(* Accounts and their sessions (services/auth): registering, signing in    *)
(* with a password or with Google, rotating a refresh token, signing out.  *)
(*                                                                         *)
(* No method uses a transaction: every repository call is one statement,   *)
(* and requests interleave between them in the same way on SQLite and D1.  *)
(* Accounts are never deleted, so the re-reads by id (GetByID) find what   *)
(* the statement before them wrote and are part of its step.  Access       *)
(* tokens, profiles and roles change none of the state here.               *)
(***************************************************************************)
EXTENDS Integers, Sequences, FiniteSets, Functions

CONSTANTS
  Emails,        \* the addresses accounts are registered under
  Identities,    \* <<subject, email>>: what Google may vouch for
  NoSubject,     \* google_id of an account that is not linked
  Requests,      \* the requests that may be in flight at the same time
  LegacyEmail,   \* the address of an account of an earlier build
  MaxTokens      \* bound: refresh tokens ever issued

Subjects == {identity[1] : identity \in Identities}

ASSUME AccountsAssumption ==
  /\ \A identity \in Identities : identity[2] \in Emails
  /\ NoSubject \notin Subjects
  /\ LegacyEmail \in Emails
  /\ MaxTokens \in Nat

VARIABLES
  users,        \* the table users, by id: AUTOINCREMENT and never deleted
  tokens,       \* the table refresh_tokens: the live tokens
  issued,       \* how many tokens there ever were; a token is its number
  req,          \* what each request is doing
  session,      \* history: the token each token goes back to by rotation
  doubled,      \* history: the sessions a token of which two refreshes had found
  revoked,      \* history: the tokens a delete was made for
  reached,      \* history: the accounts each Google subject got a session of
  overwritten   \* history: the accounts whose subject gave way to another

history == <<session, doubled, revoked, reached, overwritten>>
vars == <<users, tokens, issued, req, history>>

Account == [email : Emails, password : BOOLEAN, subject : Subjects \cup {NoSubject}]
TokenRow == [user : Nat, verbatim : BOOLEAN]

Methods == {"none", "Register", "Login", "LoginWithGoogle", "Refresh", "Logout"}
(* `met` is history: whether another Google sign-in was in flight with it. *)
Pcs == {"idle", "subject", "email", "create", "link", "find", "judge", "expire", "revoke", "issue"}

NoToken == -1
Idle == [method |-> "none", pc |-> "idle", email |-> "none", subject |-> NoSubject,
         user |-> 0, token |-> NoToken, met |-> FALSE]

(* A new database, or one of an earlier build: an account with a password  *)
(* and a session whose token, number 0, is stored as it is rather than as  *)
(* a digest.                                                               *)
Init ==
  /\ \/ users = <<>> /\ tokens = <<>> /\ session = <<>>
     \/ /\ users = <<[email |-> LegacyEmail, password |-> TRUE, subject |-> NoSubject]>>
        /\ tokens = [t \in {0} |-> [user |-> 1, verbatim |-> TRUE]]
        /\ session = [t \in {0} |-> 0]
  /\ issued = 0
  /\ req = [r \in Requests |-> Idle]
  /\ doubled = {} /\ revoked = {} /\ overwritten = {}
  /\ reached = [s \in Subjects |-> {}]

-----------------------------------------------------------------------------
(* What the queries find. *)

WithEmail(email) == {id \in DOMAIN users : users[id].email = email}
WithSubject(subject) == {id \in DOMAIN users : users[id].subject = subject}

(* Mutant: google_id has no unique index.                                  *)
AnySubjectFree(subject, id) == TRUE

(* users_google_id_unique: no other account has this subject.              *)
SubjectFree(subject, id) == subject = NoSubject \/ WithSubject(subject) \subseteq {id}

Accept(r, method, pc, email, subject, token) ==
  /\ req[r] = Idle
  /\ LET others == {s \in Requests : {req[s].method, method} = {"LoginWithGoogle"}}
         new == [method |-> method, pc |-> pc, email |-> email, subject |-> subject,
                 user |-> 0, token |-> token, met |-> others # {}]
     IN req' = [s \in Requests |->
                  IF s = r THEN new
                  ELSE IF s \in others THEN [req[s] EXCEPT !.met = TRUE] ELSE req[s]]
  /\ UNCHANGED <<users, tokens, issued, history>>

Register(r) == \E email \in Emails : Accept(r, "Register", "email", email, NoSubject, NoToken)
Login(r) == \E email \in Emails : Accept(r, "Login", "email", email, NoSubject, NoToken)

LoginWithGoogle(r) ==
  \E identity \in Identities :
    Accept(r, "LoginWithGoogle", "subject", identity[2], identity[1], NoToken)

(* A client presents a token it was given, be it live, used or revoked.    *)
Refresh(r) == \E token \in DOMAIN session : Accept(r, "Refresh", "find", "none", NoSubject, token)
Logout(r) == \E token \in DOMAIN session : Accept(r, "Logout", "revoke", "none", NoSubject, token)

Start(r) == Register(r) \/ Login(r) \/ LoginWithGoogle(r) \/ Refresh(r) \/ Logout(r)

-----------------------------------------------------------------------------
(* Steps of the methods, one statement each. *)

(* Once the account is known the address is not needed any more.           *)
GoTo(r, pc, user) ==
  req' = [req EXCEPT ![r].pc = pc, ![r].user = user,
                     ![r].email = IF user = 0 THEN @ ELSE "none"]
End(r) == req' = [req EXCEPT ![r] = Idle]

FindSubject(r) ==
  /\ req[r].pc = "subject"
  /\ \/ \E id \in WithSubject(req[r].subject) : GoTo(r, "issue", id)
     \/ WithSubject(req[r].subject) = {} /\ GoTo(r, "email", 0)
  /\ UNCHANGED <<users, tokens, issued, history>>

(* Mutant: whatever subject the account has gives way.                     *)
MayLinkAny(id, subject) == TRUE

(* linkGoogle refuses an account that is linked to another subject.        *)
MayLink(id, subject) == users[id].subject \in {NoSubject, subject}

(* Register refuses an address that is taken, Login one that is not or     *)
(* whose account has no password; a Google sign-in creates the account or  *)
(* links it.                                                               *)
FindEmail(r) ==
  LET q == req[r]
      found == WithEmail(q.email)
  IN
  /\ q.pc = "email"
  /\ \/ found = {} /\ q.method # "Login" /\ GoTo(r, "create", 0)
     \/ found = {} /\ q.method = "Login" /\ End(r)
     \/ \E id \in found :
          CASE q.method = "Register" -> End(r)
            [] q.method = "Login" -> IF users[id].password THEN GoTo(r, "issue", id) ELSE End(r)
            [] OTHER -> IF MayLink(id, q.subject) THEN GoTo(r, "link", id) ELSE End(r)
  /\ UNCHANGED <<users, tokens, issued, history>>

(* The INSERT, which the unique columns may refuse.                        *)
CreateAccount(r) ==
  LET q == req[r]
      id == Len(users) + 1
  IN
  /\ q.pc = "create"
  /\ IF WithEmail(q.email) = {} /\ SubjectFree(q.subject, id)
     THEN /\ users' = Append(users, [email |-> q.email, password |-> q.method = "Register",
                                     subject |-> q.subject])
          /\ GoTo(r, "issue", id)
     ELSE End(r) /\ UNCHANGED users
  /\ UNCHANGED <<tokens, issued, history>>

(* LinkGoogleID updates by id alone: the check is FindEmail's.             *)
Link(r) ==
  LET q == req[r] IN
  /\ q.pc = "link"
  /\ IF SubjectFree(q.subject, q.user)
     THEN /\ users' = [users EXCEPT ![q.user].subject = q.subject]
          /\ overwritten' = IF users[q.user].subject \in {NoSubject, q.subject}
                            THEN overwritten ELSE overwritten \cup {q.user}
          /\ GoTo(r, "issue", q.user)
     ELSE End(r) /\ UNCHANGED <<users, overwritten>>
  /\ UNCHANGED <<tokens, issued, session, doubled, revoked, reached>>

(* Another refresh has found the token and not yet deleted it.             *)
FoundByAnother(r) ==
  \E s \in Requests \ {r} :
    /\ req[s].method = "Refresh" /\ req[s].pc \in {"judge", "revoke"}
    /\ req[s].token = req[r].token

(* GetRefreshToken's query, for the digest and for the token itself.       *)
FindToken(r) ==
  LET q == req[r] IN
  /\ q.pc = "find"
  /\ IF q.token \in DOMAIN tokens
     THEN /\ GoTo(r, "judge", tokens[q.token].user)
          /\ doubled' = IF FoundByAnother(r) THEN doubled \cup {session[q.token]} ELSE doubled
     ELSE End(r) /\ UNCHANGED doubled
  /\ UNCHANGED <<users, tokens, issued, session, revoked, reached, overwritten>>

(* Mutant: the digest is stored by an insert that replaces.                *)
UpgradedByInsert(token, user) ==
  [t \in DOMAIN tokens \cup {token} |->
     IF t = token THEN [user |-> user, verbatim |-> FALSE] ELSE tokens[t]]

(* UPDATE refresh_tokens SET token = <digest> WHERE id = ?                 *)
Upgraded(token, user) ==
  [t \in DOMAIN tokens |->
     IF t = token THEN [tokens[t] EXCEPT !.verbatim = FALSE] ELSE tokens[t]]

(* The row is upgraded if it was stored as it is, an error of that being   *)
(* ignored, and the expiry judged: any token may be past its seven days.   *)
Judge(r) ==
  LET q == req[r] IN
  /\ q.pc = "judge"
  /\ tokens' \in {tokens, Upgraded(q.token, q.user)}
  /\ \E pc \in {"expire", "revoke"} : GoTo(r, pc, q.user)
  /\ UNCHANGED <<users, issued, history>>

Expire(r) ==
  /\ req[r].pc = "expire"
  /\ tokens' = Restrict(tokens, DOMAIN tokens \ {req[r].token})
  /\ revoked' = revoked \cup {req[r].token}
  /\ End(r)
  /\ UNCHANGED <<users, issued, session, doubled, reached, overwritten>>

(* Mutant: the old token is left to expire.                                *)
RevokeOnLogoutOnly(r) ==
  LET q == req[r] IN
  /\ q.pc = "revoke"
  /\ IF q.method = "Refresh" THEN UNCHANGED <<tokens, revoked>> /\ GoTo(r, "issue", q.user)
     ELSE /\ tokens' = Restrict(tokens, DOMAIN tokens \ {q.token})
          /\ revoked' = revoked \cup {q.token}
          /\ End(r)
  /\ UNCHANGED <<users, issued, session, doubled, reached, overwritten>>

(* DeleteRefreshToken: that nothing was deleted is not an error, and a     *)
(* refresh whose token is gone by then issues a pair all the same.         *)
Revoke(r) ==
  LET q == req[r] IN
  /\ q.pc = "revoke"
  /\ tokens' = Restrict(tokens, DOMAIN tokens \ {q.token})
  /\ revoked' = revoked \cup {q.token}
  /\ req' = [req EXCEPT ![r] = IF q.method = "Logout" THEN Idle ELSE [q EXCEPT !.pc = "issue"]]
  /\ UNCHANGED <<users, issued, session, doubled, reached, overwritten>>

(* issueTokens: the new token is stored and the request answered.          *)
(* Bound: a token is issued only below MaxTokens.                          *)
Issue(r) ==
  LET q == req[r]
      token == issued + 1
  IN
  /\ q.pc = "issue"
  /\ issued < MaxTokens
  /\ issued' = token
  /\ tokens' = [t \in DOMAIN tokens \cup {token} |->
                  IF t = token THEN [user |-> q.user, verbatim |-> FALSE] ELSE tokens[t]]
  /\ session' = [t \in DOMAIN session \cup {token} |->
                   IF t # token THEN session[t]
                   ELSE IF q.token = NoToken THEN token ELSE session[q.token]]
  /\ reached' = IF q.method = "LoginWithGoogle"
                THEN [reached EXCEPT ![q.subject] = @ \cup {q.user}] ELSE reached
  /\ End(r)
  /\ UNCHANGED <<users, doubled, revoked, overwritten>>

(* A statement fails, its reply is lost, or the process stops.             *)
Fail(r) ==
  /\ req[r] # Idle
  /\ End(r)
  /\ UNCHANGED <<users, tokens, issued, history>>

Step(r) ==
  \/ Start(r) \/ FindSubject(r) \/ FindEmail(r) \/ CreateAccount(r) \/ Link(r)
  \/ FindToken(r) \/ Judge(r) \/ Expire(r) \/ Revoke(r) \/ Issue(r) \/ Fail(r)

Next == \E r \in Requests : Step(r)

Spec == Init /\ [][Next]_vars

-----------------------------------------------------------------------------
(* Besides the types: a token belongs to an account that exists.           *)
TypeOK ==
  /\ users \in Seq(Account)
  /\ issued \in Nat
  /\ DOMAIN tokens \subseteq DOMAIN session
  /\ tokens \in [DOMAIN tokens -> TokenRow]
  /\ \A t \in DOMAIN tokens : tokens[t].user \in DOMAIN users
  /\ DOMAIN session \in {1 .. issued, 0 .. issued}
  /\ \A t \in DOMAIN session : session[t] \in DOMAIN session
  /\ revoked \subseteq DOMAIN session /\ doubled \subseteq DOMAIN session
  /\ \A r \in Requests :
       /\ req[r].method \in Methods /\ req[r].pc \in Pcs
       /\ req[r].user \in 0 .. Len(users) /\ req[r].token \in {NoToken} \cup DOMAIN session
       /\ req[r].pc = "issue" => req[r].user # 0

(* A token that was rotated, signed out or found expired never comes back, *)
(* not even by a refresh that read its row before and upgrades it after.   *)
RevokedStaysRevoked == revoked \cap DOMAIN tokens = {}

(* A session has at most one live token, wherever its refreshes fail and   *)
(* whatever else runs beside them, unless two of them had found one token  *)
(* of it before either deleted it: Refresh does not ask whether its delete *)
(* deleted anything.                                                       *)
OneTokenPerSession ==
  \A t, u \in DOMAIN tokens :
    session[t] = session[u] /\ session[t] \notin doubled => t = u

(* All sign-ins of a Google subject reach one account, be they first ones  *)
(* that race under two addresses, unless its link was overwritten.         *)
OneAccountPerSubject ==
  /\ TypeOK
  /\ \A s \in Subjects : Cardinality(reached[s] \ overwritten) <= 1

(* "Silently reassigning it would let one Google identity take over the    *)
(* other": an account's link gives way to another subject only at the hand *)
(* of a sign-in that had another Google sign-in beside it.                 *)
LinksStay ==
  [][\A id \in DOMAIN users :
       users[id].subject \notin {NoSubject, users'[id].subject}
         => \E r \in Requests : req'[r] # req[r] /\ req[r].user = id /\ req[r].met]_vars
=============================================================================
