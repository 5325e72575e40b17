--------------------------- MODULE AccountsProofs ---------------------------
(***************************************************************************)
(* Theorems about the auth service and the gateway before it, for any      *)
(* number of accounts, tokens, requests and browsers' calls.               *)
(*                                                                         *)
(* Accounts: a refresh token that was given up never comes back, a session *)
(* has at most one live token unless two refreshes had found one of its    *)
(* tokens, a Google subject reaches one account, and a link gives way in   *)
(* races only.  OneTokenPerSession is not inductive: a refresh that has    *)
(* found a token and not yet stored the next one holds the session's       *)
(* place; Spent says that no other refresh and no other live token shares  *)
(* that session, and none at all once it has revoked.  The links need what *)
(* a sign-in was told of its account (Vouched) and whom it met on the way  *)
(* (Together).                                                             *)
(*                                                                         *)
(* Gateway: who is served as an administrator, which cookies a browser     *)
(* has, and what is left of a session that was signed out.  The last needs *)
(* for every session who has its last token: the table, the browser, the   *)
(* request that carries it or the answer that brings it (Watched).         *)
(*                                                                         *)
(* Answers: what a call may have changed at each of its steps, and what it *)
(* may still be told there.                                                *)
(***************************************************************************)
EXTENDS Accounts, Gateway, Answers, SequenceTheorems, FiniteSetTheorems, TLAPS

Request ==
  [method : Methods, pc : Pcs, email : Emails \cup {"none"},
   subject : Subjects \cup {NoSubject}, user : Nat, token : Int, met : BOOLEAN]

(* What a request that has come to a pc knows, with n accounts and the     *)
(* tokens S given out so far.                                              *)
Sound(q, n, S) ==
  /\ q.user \in 0 .. n
  /\ q.token \in {NoToken} \cup S
  /\ q.pc \in {"link", "judge", "expire", "issue"} => q.user # 0
  /\ q.pc = "revoke" /\ q.method # "Logout" => q.user # 0
  /\ q.pc \in {"subject", "email", "create", "link"} => q.token = NoToken
  /\ q.pc \in {"find", "judge", "expire", "revoke"} => q.token # NoToken
  /\ q.pc \in {"subject", "email", "create"} => q.email \in Emails
  /\ q.pc \in {"find", "judge", "revoke"} => q.method \in {"Refresh", "Logout"}

RequestsSound ==
  /\ req \in [Requests -> Request]
  /\ \A r \in Requests : Sound(req[r], Len(users), DOMAIN session)

(* The tables, and what was written into them before.                      *)
TablesOK ==
  /\ users \in Seq(Account)
  /\ issued \in Nat
  /\ DOMAIN session \in {1 .. issued, 0 .. issued}
  /\ \A t \in DOMAIN session : session[t] \in DOMAIN session
  /\ DOMAIN tokens \subseteq DOMAIN session
  /\ tokens \in [DOMAIN tokens -> TokenRow]
  /\ \A t \in DOMAIN tokens : tokens[t].user \in DOMAIN users
  /\ revoked \subseteq DOMAIN session /\ doubled \subseteq DOMAIN session

(* Request r has found the token it rotates, and not yet stored the next.  *)
Holds(r) ==
  /\ req[r].token # NoToken
  /\ \/ req[r].pc = "issue"
     \/ req[r].method = "Refresh" /\ req[r].pc \in {"judge", "revoke"}
HeldSession(r) == session[req[r].token]

Spent ==
  \A r \in Requests : Holds(r) /\ HeldSession(r) \notin doubled =>
    /\ \A t \in DOMAIN tokens :
         session[t] = HeldSession(r) => req[r].pc # "issue" /\ t = req[r].token
    /\ \A s \in Requests : Holds(s) /\ HeldSession(s) = HeldSession(r) => s = r

(* The two halves of the inductive invariant: the types, and the sessions. *)
TInv == TablesOK /\ RequestsSound
SInv == RevokedStaysRevoked /\ OneTokenPerSession /\ Spent

AInv == TInv /\ SInv

-----------------------------------------------------------------------------
LEMMA IdleIsRequest == Idle \in Request /\ \A n \in Nat : \A S : Sound(Idle, n, S)
BY DEF Idle, Request, Sound, Methods, Pcs, NoToken

LEMMA AccountsLen ==
  ASSUME TablesOK
  PROVE  Len(users) \in Nat /\ DOMAIN users = 1 .. Len(users)
BY LenProperties DEF TablesOK

(* A request that changes alone, to one that is sound in the tables as     *)
(* they become, with no account and no token forgotten.                    *)
LEMMA RequestUpdate ==
  ASSUME TInv, NEW r \in Requests, NEW q \in Request,
         req' = [req EXCEPT ![r] = q],
         Len(users) <= Len(users'), Len(users) \in Nat, Len(users') \in Nat,
         DOMAIN session \subseteq DOMAIN session',
         Sound(q, Len(users'), DOMAIN session')
  PROVE  RequestsSound' /\ req'[r] = q /\ \A s \in Requests \ {r} : req'[s] = req[s]
<1>1. /\ req' \in [Requests -> Request] /\ req'[r] = q
      /\ \A s \in Requests \ {r} : req'[s] = req[s]
  BY DEF TInv, RequestsSound
<1>2. ASSUME NEW s \in Requests \ {r}
      PROVE  Sound(req'[s], Len(users'), DOMAIN session')
  <2>1. Sound(req[s], Len(users), DOMAIN session) /\ req'[s] = req[s]
    BY <1>1 DEF TInv, RequestsSound
  <2> QED
    BY <2>1 DEF Sound
<1>3. Sound(req'[r], Len(users'), DOMAIN session')
  BY <1>1
<1> QED
  BY <1>1, <1>2, <1>3 DEF RequestsSound

LEMMA EndKeeps ==
  ASSUME TInv, NEW r \in Requests, End(r),
         Len(users) <= Len(users'), Len(users) \in Nat, Len(users') \in Nat,
         DOMAIN session \subseteq DOMAIN session'
  PROVE  RequestsSound' /\ req'[r] = Idle /\ \A s \in Requests \ {r} : req'[s] = req[s]
BY RequestUpdate, IdleIsRequest DEF End

LEMMA GoToKeeps ==
  ASSUME TInv, NEW r \in Requests, NEW pc \in Pcs, NEW user \in Nat, GoTo(r, pc, user),
         Len(users) <= Len(users'), Len(users) \in Nat, Len(users') \in Nat,
         DOMAIN session \subseteq DOMAIN session',
         \A q \in Request :
           /\ q.pc = pc /\ q.user = user
           /\ q.token = req[r].token /\ q.method = req[r].method
           /\ user = 0 => q.email = req[r].email
           => Sound(q, Len(users'), DOMAIN session')
  PROVE  /\ RequestsSound'
         /\ req'[r].pc = pc /\ req'[r].token = req[r].token
         /\ req'[r].method = req[r].method
         /\ \A s \in Requests \ {r} : req'[s] = req[s]
<1> DEFINE q == [req[r] EXCEPT !.pc = pc, !.user = user,
                               !.email = IF user = 0 THEN req[r].email ELSE "none"]
<1>0. req[r] \in Request /\ req \in [Requests -> Request]
  BY DEF TInv, RequestsSound
<1>1. /\ q \in Request /\ q.pc = pc /\ q.user = user
      /\ q.token = req[r].token /\ q.method = req[r].method
      /\ user = 0 => q.email = req[r].email
  BY <1>0 DEF Request
<1>2. req' = [req EXCEPT ![r] = q]
  BY <1>0 DEF GoTo
<1>3. Sound(q, Len(users'), DOMAIN session')
  BY <1>1
<1> HIDE DEF q
<1> QED
  BY <1>1, <1>2, <1>3, RequestUpdate

(* A step that leaves the sessions as they are, adds no token and brings   *)
(* no request into possession of a session keeps the session half.         *)
LEMMA SessionsRest ==
  ASSUME SInv, UNCHANGED <<session, doubled>>, DOMAIN tokens' \subseteq DOMAIN tokens,
         revoked' \cap DOMAIN tokens' = {},
         \A s \in Requests : Holds(s)' =>
           /\ Holds(s) /\ req'[s].token = req[s].token
           /\ req'[s].pc = "issue" => req[s].pc = "issue"
  PROVE  SInv'
<1>1. RevokedStaysRevoked' /\ OneTokenPerSession'
  BY DEF SInv, RevokedStaysRevoked, OneTokenPerSession
<1>2. \A s \in Requests : Holds(s)' => Holds(s) /\ HeldSession(s)' = HeldSession(s)
  BY DEF HeldSession
<1>3. Spent'
  BY <1>2 DEF SInv, Spent
<1> QED
  BY <1>1, <1>3 DEF SInv

-----------------------------------------------------------------------------
(* The steps, one at a time. *)

(* Where a method starts, and with what.                                   *)
Entry(method, pc, email, token) ==
  \/ pc \in {"subject", "email"} /\ token = NoToken /\ email \in Emails
  \/ pc = "find" /\ method = "Refresh" /\ token # NoToken
  \/ pc = "revoke" /\ method = "Logout" /\ token # NoToken

LEMMA AcceptKeeps ==
  ASSUME AInv, NEW r \in Requests, NEW method \in Methods, NEW pc \in Pcs,
         NEW email \in Emails \cup {"none"}, NEW subject \in Subjects \cup {NoSubject},
         NEW token \in {NoToken} \cup DOMAIN session,
         Entry(method, pc, email, token),
         Accept(r, method, pc, email, subject, token)
  PROVE  AInv'
<1> DEFINE met == {s \in Requests : {req[s].method, method} = {"LoginWithGoogle"}} # {}
           q == [method |-> method, pc |-> pc, email |-> email, subject |-> subject,
                 user |-> 0, token |-> token, met |-> met]
<1>0. /\ TablesOK /\ req \in [Requests -> Request]
      /\ UNCHANGED <<users, tokens, issued, session, doubled, revoked>>
      /\ Len(users) \in Nat /\ NoToken = -1
      /\ DOMAIN session \subseteq Nat
  BY AccountsLen DEF AInv, TInv, TablesOK, RequestsSound, Accept, history, NoToken
<1>1. q \in Request /\ q.pc = pc /\ Sound(q, Len(users), DOMAIN session)
  BY <1>0 DEF Request, Sound, Entry
<1>2. req'[r] = q /\ DOMAIN req' = Requests
  BY DEF Accept
<1>3. ASSUME NEW s \in Requests, s # r
      PROVE  /\ req'[s] \in Request
             /\ req'[s].pc = req[s].pc /\ req'[s].token = req[s].token
             /\ req'[s].user = req[s].user /\ req'[s].method = req[s].method
             /\ req'[s].email = req[s].email
  <2>1. req'[s] = req[s] \/ req'[s] = [req[s] EXCEPT !.met = TRUE]
    BY <1>3 DEF Accept
  <2>2. req[s] \in Request
    BY <1>0
  <2> QED
    BY <2>1, <2>2 DEF Request
<1>4. req' = [s \in Requests |-> req'[s]]
  BY DEF Accept
<1> HIDE DEF q
<1>5. RequestsSound'
  <2>1. ASSUME NEW s \in Requests
        PROVE  req'[s] \in Request /\ Sound(req'[s], Len(users), DOMAIN session)
    <3>1. CASE s = r
      BY <1>1, <1>2, <3>1
    <3>2. CASE s # r
      <4>1. Sound(req[s], Len(users), DOMAIN session)
        BY DEF AInv, TInv, RequestsSound
      <4> QED
        BY <1>3, <3>2, <4>1 DEF Sound
    <3> QED
      BY <3>1, <3>2
  <2> QED
    BY <1>0, <1>4, <2>1 DEF RequestsSound
<1>6. TablesOK'
  BY <1>0 DEF TablesOK
<1>7. \A s \in Requests : Holds(s)' =>
        /\ Holds(s) /\ req'[s].token = req[s].token
        /\ req'[s].pc = "issue" => req[s].pc = "issue"
  <2>1. ~ Holds(r)'
    BY <1>2 DEF Holds, Entry, q
  <2> QED
    BY <1>3, <2>1 DEF Holds
<1>8. SInv'
  BY <1>0, <1>7, SessionsRest DEF AInv, SInv, RevokedStaysRevoked
<1> QED
  BY <1>5, <1>6, <1>8 DEF AInv, TInv

LEMMA StartKeeps ==
  ASSUME AInv, NEW r \in Requests, Start(r)
  PROVE  AInv'
<1>1. /\ {"Register", "Login", "LoginWithGoogle", "Refresh", "Logout"} \subseteq Methods
      /\ {"subject", "email", "find", "revoke"} \subseteq Pcs
      /\ \A t \in DOMAIN session : t # NoToken /\ t \in {NoToken} \cup DOMAIN session
      /\ \A identity \in Identities :
           identity[2] \in Emails /\ identity[1] \in Subjects \cup {NoSubject}
      /\ \A email \in Emails : email \in Emails \cup {"none"}
      /\ "none" \in Emails \cup {"none"}
      /\ NoSubject \in Subjects \cup {NoSubject}
      /\ NoToken \in {NoToken} \cup DOMAIN session
  BY AccountsAssumption DEF Methods, Pcs, AInv, TInv, TablesOK, NoToken, Subjects
<1>2. ASSUME NEW method \in {"Register", "Login"}, NEW email \in Emails,
             Accept(r, method, "email", email, NoSubject, NoToken)
      PROVE  AInv'
  <2>1. "email" \in Pcs /\ method \in Methods /\ email \in Emails \cup {"none"}
    BY <1>1
  <2>2. Entry(method, "email", email, NoToken)
    BY DEF Entry
  <2> QED
    BY <1>1, <1>2, <2>1, <2>2, AcceptKeeps
<1>3. ASSUME NEW identity \in Identities,
             Accept(r, "LoginWithGoogle", "subject", identity[2], identity[1], NoToken)
      PROVE  AInv'
  <2>1. "subject" \in Pcs /\ "LoginWithGoogle" \in Methods /\ identity[2] \in Emails
        /\ identity[2] \in Emails \cup {"none"} /\ identity[1] \in Subjects \cup {NoSubject}
    BY <1>1
  <2>2. Entry("LoginWithGoogle", "subject", identity[2], NoToken)
    BY <2>1 DEF Entry
  <2> QED
    BY <1>1, <1>3, <2>1, <2>2, AcceptKeeps
<1>4. ASSUME NEW token \in DOMAIN session,
             \/ Accept(r, "Refresh", "find", "none", NoSubject, token)
             \/ Accept(r, "Logout", "revoke", "none", NoSubject, token)
      PROVE  AInv'
  <2>1. /\ {"find", "revoke"} \subseteq Pcs /\ {"Refresh", "Logout"} \subseteq Methods
        /\ token # NoToken /\ token \in {NoToken} \cup DOMAIN session
    BY <1>1
  <2>2. CASE Accept(r, "Refresh", "find", "none", NoSubject, token)
    BY <1>1, <2>1, <2>2, AcceptKeeps DEF Entry
  <2>3. CASE Accept(r, "Logout", "revoke", "none", NoSubject, token)
    BY <1>1, <2>1, <2>3, AcceptKeeps DEF Entry
  <2> QED
    BY <1>4, <2>2, <2>3
<1> QED
  BY <1>2, <1>3, <1>4 DEF Start, Register, Login, LoginWithGoogle, Refresh, Logout

(* A step that ends request r or moves it on by GoTo, and writes no token. *)
LEMMA MoveOnKeeps ==
  ASSUME AInv, NEW r \in Requests, TablesOK',
         Len(users) <= Len(users'), UNCHANGED <<session, doubled, revoked>>,
         DOMAIN tokens' \subseteq DOMAIN tokens,
         \/ End(r)
         \/ \E pc \in Pcs, user \in 1 .. Len(users') :
              /\ GoTo(r, pc, user)
              /\ \/ req[r].pc \in {"subject", "email", "create", "link"}
                      /\ pc \in {"link", "issue"}
                 \/ req[r].pc = "judge" /\ pc \in {"expire", "revoke"}
         \/ \E pc \in {"email", "create"} :
              GoTo(r, pc, 0) /\ req[r].pc \in {"subject", "email"}
  PROVE  AInv'
<1>0. /\ Len(users) \in Nat /\ Len(users') \in Nat
      /\ TInv /\ Sound(req[r], Len(users), DOMAIN session)
      /\ DOMAIN session' = DOMAIN session
      /\ Len(users)' = Len(users')
  BY AccountsLen, LenProperties DEF AInv, TInv, RequestsSound, TablesOK
<1>1. CASE End(r)
  <2>1. RequestsSound' /\ req'[r] = Idle /\ \A s \in Requests \ {r} : req'[s] = req[s]
    BY <1>0, <1>1, EndKeeps
  <2>2. \A s \in Requests : Holds(s)' => Holds(s) /\ req'[s] = req[s]
    BY <2>1 DEF Holds, Idle
  <2> QED
    BY <2>1, <2>2, SessionsRest DEF AInv, TInv, SInv, RevokedStaysRevoked
<1>2. ASSUME NEW pc \in Pcs, NEW user \in 0 .. Len(users'), GoTo(r, pc, user),
             \/ /\ req[r].pc \in {"subject", "email", "create", "link"}
                /\ pc \in {"link", "issue"} /\ user # 0
             \/ /\ req[r].pc \in {"subject", "email"}
                /\ pc \in {"email", "create"} /\ user = 0
             \/ req[r].pc = "judge" /\ pc \in {"expire", "revoke"} /\ user # 0
      PROVE  AInv'
  <2>1. ASSUME NEW q \in Request, q.pc = pc, q.user = user,
               q.token = req[r].token, q.method = req[r].method,
               user = 0 => q.email = req[r].email
        PROVE  Sound(q, Len(users'), DOMAIN session')
    BY <1>0, <1>2, <2>1 DEF Sound
  <2>2. /\ RequestsSound'
        /\ req'[r].pc = pc /\ req'[r].token = req[r].token
        /\ req'[r].method = req[r].method
        /\ \A s \in Requests \ {r} : req'[s] = req[s]
    BY <1>0, <1>2, <2>1, GoToKeeps
  <2>3. pc = "issue" => req[r].token = NoToken
    BY <1>0, <1>2 DEF Sound
  <2>4. \A s \in Requests : Holds(s)' =>
          /\ Holds(s) /\ req'[s].token = req[s].token
          /\ req'[s].pc = "issue" => req[s].pc = "issue"
    BY <1>2, <2>2, <2>3 DEF Holds
  <2> QED
    BY <2>2, <2>4, SessionsRest DEF AInv, TInv, SInv, RevokedStaysRevoked
<1>3. "email" \in Pcs /\ "create" \in Pcs
  BY DEF Pcs
<1>4. ASSUME NEW pc \in Pcs, NEW user \in 1 .. Len(users'), GoTo(r, pc, user),
             \/ req[r].pc \in {"subject", "email", "create", "link"}
                  /\ pc \in {"link", "issue"}
             \/ req[r].pc = "judge" /\ pc \in {"expire", "revoke"}
      PROVE  AInv'
  <2>1. user \in 0 .. Len(users') /\ user # 0
    BY <1>0
  <2> QED
    BY <1>2, <1>4, <2>1
<1>5. ASSUME NEW pc \in {"email", "create"}, GoTo(r, pc, 0),
             req[r].pc \in {"subject", "email"}
      PROVE  AInv'
  <2>1. 0 \in 0 .. Len(users') /\ pc \in Pcs
    BY <1>0, <1>3
  <2> QED
    BY <1>2, <1>5, <2>1
<1> QED
  BY <1>1, <1>4, <1>5

LEMMA FindSubjectKeeps ==
  ASSUME AInv, NEW r \in Requests, FindSubject(r)
  PROVE  AInv'
<1>1. /\ UNCHANGED <<users, tokens, session, doubled, revoked>> /\ TablesOK'
      /\ Len(users) <= Len(users') /\ req[r].pc = "subject"
      /\ DOMAIN users = 1 .. Len(users')
  BY AccountsLen DEF FindSubject, history, AInv, TInv, TablesOK
<1>2. \/ \E id \in 1 .. Len(users') : GoTo(r, "issue", id)
      \/ GoTo(r, "email", 0)
  BY <1>1 DEF FindSubject, WithSubject
<1>3. "issue" \in Pcs
  BY DEF Pcs
<1> QED
  BY <1>1, <1>2, <1>3, MoveOnKeeps

LEMMA FindEmailKeeps ==
  ASSUME AInv, NEW r \in Requests, FindEmail(r)
  PROVE  AInv'
<1>1. /\ UNCHANGED <<users, tokens, session, doubled, revoked>> /\ TablesOK'
      /\ Len(users) <= Len(users') /\ req[r].pc = "email"
      /\ DOMAIN users = 1 .. Len(users')
  BY AccountsLen DEF FindEmail, history, AInv, TInv, TablesOK
<1>2. \/ End(r)
      \/ \E id \in 1 .. Len(users') : GoTo(r, "issue", id) \/ GoTo(r, "link", id)
      \/ GoTo(r, "create", 0)
  <2>1. WithEmail(req[r].email) \subseteq 1 .. Len(users')
    BY <1>1 DEF WithEmail
  <2> QED
    BY <2>1 DEF FindEmail
<1>3. "issue" \in Pcs /\ "link" \in Pcs
  BY DEF Pcs
<1> QED
  BY <1>1, <1>2, <1>3, MoveOnKeeps

LEMMA CreateAccountKeeps ==
  ASSUME AInv, NEW r \in Requests, CreateAccount(r)
  PROVE  AInv'
<1> DEFINE q == req[r]
           row == [email |-> q.email, password |-> q.method = "Register",
                   subject |-> q.subject]
<1>0. UNCHANGED <<tokens, issued, session, doubled, revoked>> /\ q.pc = "create"
  BY DEF CreateAccount, history
<1>1. CASE UNCHANGED users /\ End(r)
  <2>1. TablesOK' /\ Len(users) <= Len(users')
    BY <1>0, <1>1, AccountsLen DEF AInv, TInv, TablesOK
  <2> QED
    BY <1>0, <1>1, <2>1, MoveOnKeeps
<1>2. CASE ~ (UNCHANGED users /\ End(r))
  <2>1. users' = Append(users, row) /\ GoTo(r, "issue", Len(users) + 1)
    BY <1>2 DEF CreateAccount
  <2>2. row \in Account
    <3>1. q \in Request /\ q.email \in Emails
      BY <1>0 DEF AInv, TInv, RequestsSound, Sound
    <3> QED
      BY <3>1 DEF Account, Request
  <2> HIDE DEF row
  <2>3. /\ users' \in Seq(Account) /\ Len(users') = Len(users) + 1
        /\ DOMAIN users' = 1 .. Len(users') /\ DOMAIN users = 1 .. Len(users)
        /\ Len(users) \in Nat
    BY <2>1, <2>2, AppendProperties, LenProperties, AccountsLen DEF AInv, TInv, TablesOK
  <2>4. TablesOK'
    BY <1>0, <2>3 DEF AInv, TInv, TablesOK
  <2>5. Len(users) <= Len(users') /\ Len(users) + 1 \in 1 .. Len(users') /\ "issue" \in Pcs
    BY <2>3 DEF Pcs
  <2> QED
    BY <1>0, <2>1, <2>4, <2>5, MoveOnKeeps
<1> QED
  BY <1>1, <1>2 DEF CreateAccount

LEMMA LinkKeeps ==
  ASSUME AInv, NEW r \in Requests, Link(r)
  PROVE  AInv'
<1> DEFINE q == req[r]
<1>0. /\ UNCHANGED <<tokens, issued, session, doubled, revoked>> /\ q.pc = "link"
      /\ TablesOK
  BY DEF Link, AInv, TInv
<1>1. CASE UNCHANGED users /\ End(r)
  <2>1. TablesOK' /\ Len(users) <= Len(users')
    BY <1>0, <1>1, AccountsLen DEF TablesOK
  <2> QED
    BY <1>0, <1>1, <2>1, MoveOnKeeps
<1>2. CASE ~ (UNCHANGED users /\ End(r))
  <2> DEFINE row == [users[q.user] EXCEPT !.subject = q.subject]
  <2>1. users' = [users EXCEPT ![q.user].subject = q.subject] /\ GoTo(r, "issue", q.user)
    BY <1>2 DEF Link
  <2>2. /\ q \in Request /\ q.user \in 1 .. Len(users)
        /\ Len(users) \in Nat /\ DOMAIN users = 1 .. Len(users)
    BY <1>0, AccountsLen DEF AInv, TInv, RequestsSound, Sound
  <2>3. users[q.user] \in Account
    BY <1>0, <2>2, ElementOfSeq DEF TablesOK
  <2>4. row \in Account
    BY <2>2, <2>3 DEF Account, Request
  <2>5. users' = [users EXCEPT ![q.user] = row]
    BY <2>1, <2>2
  <2> HIDE DEF row, q
  <2>6. users' \in Seq(Account) /\ Len(users') = Len(users)
    BY <1>0, <2>2, <2>4, <2>5, ExceptSeq DEF TablesOK
  <2>7. DOMAIN users' = DOMAIN users
    BY <2>5
  <2>8. TablesOK'
    BY <1>0, <2>6, <2>7 DEF TablesOK
  <2>9. Len(users) <= Len(users') /\ q.user \in 1 .. Len(users') /\ "issue" \in Pcs
    BY <2>2, <2>6 DEF Pcs
  <2> QED
    BY <1>0, <2>1, <2>8, <2>9, MoveOnKeeps DEF q
<1> QED
  BY <1>1, <1>2 DEF Link

LEMMA FindTokenKeeps ==
  ASSUME AInv, NEW r \in Requests, FindToken(r)
  PROVE  AInv'
<1> DEFINE token == req[r].token
           user == tokens[token].user
<1>1. /\ UNCHANGED <<users, tokens, issued, session, revoked>> /\ req[r].pc = "find"
      /\ Len(users) <= Len(users') /\ Len(users) \in Nat /\ Len(users') \in Nat
      /\ DOMAIN users = 1 .. Len(users') /\ TInv /\ TablesOK /\ SInv
      /\ Sound(req[r], Len(users), DOMAIN session)
  BY AccountsLen DEF FindToken, AInv, TInv, RequestsSound
<1>2. CASE token \notin DOMAIN tokens
  <2>1. End(r) /\ UNCHANGED doubled
    BY <1>2 DEF FindToken
  <2>2. TablesOK'
    BY <1>1, <2>1 DEF TablesOK
  <2> QED
    BY <1>1, <2>1, <2>2, MoveOnKeeps
<1>3. CASE token \in DOMAIN tokens
  <2>1. /\ GoTo(r, "judge", user)
        /\ doubled' = IF FoundByAnother(r) THEN doubled \cup {session[token]} ELSE doubled
    BY <1>3 DEF FindToken
  <2>2. /\ user \in 1 .. Len(users') /\ user \in Nat /\ user # 0 /\ "judge" \in Pcs
        /\ token \in DOMAIN session /\ session[token] \in DOMAIN session
    BY <1>1, <1>3 DEF TablesOK, Pcs
  <2>3. TablesOK'
    BY <1>1, <2>1, <2>2 DEF TablesOK
  <2>4. ASSUME NEW q \in Request, q.pc = "judge", q.user = user,
               q.token = token, q.method = req[r].method
        PROVE  Sound(q, Len(users'), DOMAIN session')
    BY <1>1, <2>2, <2>4 DEF Sound
  <2>5. /\ RequestsSound'
        /\ req'[r].pc = "judge" /\ req'[r].token = token
        /\ \A s \in Requests \ {r} : req'[s] = req[s]
    BY <1>1, <2>1, <2>2, <2>4, GoToKeeps
  <2>6. /\ HeldSession(r)' = session[token] /\ ~ Holds(r)
        /\ \A s \in Requests \ {r} :
             /\ Holds(s)' <=> Holds(s)
             /\ HeldSession(s)' = HeldSession(s) /\ req'[s] = req[s]
    BY <1>1, <2>5 DEF Holds, HeldSession
  <2>7. /\ doubled \subseteq doubled'
        /\ FoundByAnother(r) => session[token] \in doubled'
    BY <2>1
  <2>8. ASSUME NEW s \in Requests \ {r}, Holds(s), HeldSession(s) = session[token]
        PROVE  session[token] \in doubled'
    <3>1. CASE session[token] \notin doubled
      <4>1. req[s].pc # "issue" /\ req[s].token = token
        BY <1>1, <1>3, <2>8, <3>1 DEF SInv, Spent
      <4>2. FoundByAnother(r)
        BY <2>8, <4>1 DEF Holds, FoundByAnother
      <4> QED
        BY <2>7, <4>2
    <3> QED
      BY <2>7, <3>1
  <2>9. ASSUME NEW s \in Requests, Holds(s)', HeldSession(s)' \notin doubled'
        PROVE  /\ \A t \in DOMAIN tokens :
                    session[t] = HeldSession(s)' => req'[s].pc # "issue" /\ t = req'[s].token
               /\ \A v \in Requests : Holds(v)' /\ HeldSession(v)' = HeldSession(s)' => v = s
    <3>1. CASE s = r
      <4>1. ASSUME NEW t \in DOMAIN tokens, session[t] = session[token]
            PROVE  t = token
        BY <1>1, <1>3, <2>6, <2>7, <2>9, <3>1, <4>1 DEF SInv, OneTokenPerSession
      <4>2. ASSUME NEW v \in Requests \ {r}, Holds(v)', HeldSession(v)' = HeldSession(s)'
            PROVE  FALSE
        BY <2>6, <2>8, <2>9, <3>1, <4>2
      <4> QED
        BY <2>5, <2>6, <3>1, <4>1, <4>2
    <3>2. CASE s # r
      <4>1. Holds(s) /\ HeldSession(s) = HeldSession(s)' /\ HeldSession(s) \notin doubled
        BY <2>6, <2>7, <2>9, <3>2
      <4>2. HeldSession(s) # session[token]
        BY <2>8, <2>9, <3>2, <4>1
      <4> QED
        BY <1>1, <2>6, <3>2, <4>1, <4>2 DEF SInv, Spent
    <3> QED
      BY <3>1, <3>2
  <2>10. Spent'
    BY <1>1, <2>9 DEF Spent
  <2>11. RevokedStaysRevoked' /\ OneTokenPerSession'
    BY <1>1, <2>7 DEF SInv, RevokedStaysRevoked, OneTokenPerSession
  <2> QED
    BY <2>3, <2>5, <2>10, <2>11 DEF AInv, TInv, SInv
<1> QED
  BY <1>2, <1>3

LEMMA JudgeKeeps ==
  ASSUME AInv, NEW r \in Requests, Judge(r)
  PROVE  AInv'
<1> DEFINE q == req[r]
<1>1. /\ UNCHANGED <<users, issued, session, doubled, revoked>> /\ q.pc = "judge"
      /\ tokens' \in {tokens, Upgraded(q.token, q.user)}
      /\ \E pc \in {"expire", "revoke"} : GoTo(r, pc, q.user)
      /\ TablesOK
  BY DEF Judge, history, AInv, TInv
<1>2. /\ DOMAIN tokens' = DOMAIN tokens
      /\ tokens' \in [DOMAIN tokens -> TokenRow]
      /\ \A t \in DOMAIN tokens : tokens'[t].user = tokens[t].user
  <2>1. CASE tokens' = tokens
    BY <1>1, <2>1 DEF TablesOK
  <2>2. CASE tokens' = Upgraded(q.token, q.user)
    <3>1. \A t \in DOMAIN tokens :
            /\ tokens[t] \in TokenRow
            /\ [tokens[t] EXCEPT !.verbatim = FALSE] \in TokenRow
            /\ [tokens[t] EXCEPT !.verbatim = FALSE].user = tokens[t].user
      BY <1>1 DEF TablesOK, TokenRow
    <3> QED
      BY <2>2, <3>1 DEF Upgraded
  <2> QED
    BY <1>1, <2>1, <2>2
<1>3. TablesOK'
  BY <1>1, <1>2 DEF TablesOK
<1>4. /\ Len(users) <= Len(users') /\ q.user \in 1 .. Len(users')
      /\ {"expire", "revoke"} \subseteq Pcs
  BY <1>1, AccountsLen DEF AInv, TInv, RequestsSound, Sound, Pcs
<1> QED
  BY <1>1, <1>2, <1>3, <1>4, MoveOnKeeps

LEMMA FailKeeps ==
  ASSUME AInv, NEW r \in Requests, Fail(r)
  PROVE  AInv'
<1>1. /\ UNCHANGED <<users, tokens, session, doubled, revoked>> /\ TablesOK' /\ End(r)
      /\ Len(users) <= Len(users')
  BY AccountsLen DEF Fail, history, AInv, TInv, TablesOK
<1> QED
  BY <1>1, MoveOnKeeps

(* The two deletes take the token out of the table for good.               *)
LEMMA DeleteShape ==
  ASSUME TablesOK, NEW token \in DOMAIN session,
         UNCHANGED <<users, issued, session, doubled>>,
         tokens' = Restrict(tokens, DOMAIN tokens \ {token}),
         revoked' = revoked \cup {token}
  PROVE  TablesOK' /\ DOMAIN tokens' = DOMAIN tokens \ {token}
BY DEF TablesOK, Restrict

LEMMA ExpireKeeps ==
  ASSUME AInv, NEW r \in Requests, Expire(r)
  PROVE  AInv'
<1>0. /\ TInv /\ TablesOK /\ Sound(req[r], Len(users), DOMAIN session)
      /\ req[r].pc = "expire" /\ End(r) /\ UNCHANGED <<users, issued, session, doubled>>
      /\ tokens' = Restrict(tokens, DOMAIN tokens \ {req[r].token})
      /\ revoked' = revoked \cup {req[r].token}
      /\ Len(users) \in Nat
  BY AccountsLen DEF Expire, AInv, TInv, RequestsSound
<1>1. req[r].token \in DOMAIN session
  BY <1>0 DEF Sound
<1>2. TablesOK' /\ DOMAIN tokens' = DOMAIN tokens \ {req[r].token}
  BY <1>0, <1>1, DeleteShape
<1>3. RequestsSound' /\ req'[r] = Idle /\ \A s \in Requests \ {r} : req'[s] = req[s]
  BY <1>0, EndKeeps
<1>4. \A s \in Requests : Holds(s)' => Holds(s) /\ req'[s] = req[s]
  BY <1>3 DEF Holds, Idle
<1>5. SInv'
  BY <1>0, <1>2, <1>4, SessionsRest DEF AInv, SInv, RevokedStaysRevoked
<1> QED
  BY <1>2, <1>3, <1>5 DEF AInv, TInv

LEMMA RevokeKeeps ==
  ASSUME AInv, NEW r \in Requests, Revoke(r)
  PROVE  AInv'
<1> DEFINE q == req[r]
           new == IF q.method = "Logout" THEN Idle ELSE [q EXCEPT !.pc = "issue"]
<1>0. /\ TInv /\ TablesOK /\ Sound(q, Len(users), DOMAIN session)
      /\ q \in Request /\ req \in [Requests -> Request]
      /\ q.pc = "revoke" /\ UNCHANGED <<users, issued, session, doubled>>
      /\ tokens' = Restrict(tokens, DOMAIN tokens \ {q.token})
      /\ revoked' = revoked \cup {q.token}
      /\ Len(users) \in Nat
      /\ SInv
  BY AccountsLen DEF Revoke, AInv, TInv, RequestsSound
<1>1. /\ q.token \in DOMAIN session /\ q.token # NoToken
      /\ q.method \in {"Refresh", "Logout"}
  BY <1>0 DEF Sound
<1>2. TablesOK' /\ DOMAIN tokens' = DOMAIN tokens \ {q.token}
  BY <1>0, <1>1, DeleteShape
<1>3. req' = [req EXCEPT ![r] = new]
  BY <1>0 DEF Revoke
<1>4. /\ new \in Request /\ Sound(new, Len(users), DOMAIN session)
      /\ \/ new = Idle
         \/ q.method = "Refresh" /\ new.pc = "issue" /\ new.token = q.token
  <2>1. CASE q.method = "Logout"
    BY <1>0, <2>1, IdleIsRequest
  <2>2. CASE q.method # "Logout"
    <3>1. /\ new \in Request /\ new.pc = "issue" /\ new.user = q.user
          /\ new.token = q.token
      BY <1>0, <2>2 DEF Request, Pcs
    <3> QED
      BY <1>0, <1>1, <2>2, <3>1 DEF Sound
  <2> QED
    BY <2>1, <2>2
<1> HIDE DEF new
<1>5. RequestsSound' /\ req'[r] = new /\ \A s \in Requests \ {r} : req'[s] = req[s]
  <2>1. /\ Len(users') = Len(users) /\ DOMAIN session' = DOMAIN session
        /\ Len(users) <= Len(users') /\ DOMAIN session \subseteq DOMAIN session'
    BY <1>0
  <2>2. Sound(new, Len(users'), DOMAIN session')
    BY <1>4, <2>1
  <2> QED
    BY <1>0, <1>3, <1>4, <2>1, <2>2, RequestUpdate
<1>6. ASSUME NEW s \in Requests, Holds(s)'
      PROVE  /\ Holds(s) /\ HeldSession(s)' = HeldSession(s) /\ req'[s].token = req[s].token
             /\ s # r => req'[s] = req[s]
  <2>1. CASE s = r
    <3>1. q.method = "Refresh" /\ new.token = q.token
      BY <1>4, <1>5, <1>6, <2>1 DEF Holds, Idle
    <3> QED
      BY <1>0, <1>1, <1>5, <2>1, <3>1 DEF Holds, HeldSession
  <2>2. CASE s # r
    BY <1>0, <1>5, <1>6, <2>2 DEF Holds, HeldSession
  <2> QED
    BY <2>1, <2>2
<1>7. RevokedStaysRevoked' /\ OneTokenPerSession'
  BY <1>0, <1>2 DEF SInv, RevokedStaysRevoked, OneTokenPerSession
<1>8. Spent'
  <2>1. ASSUME NEW s \in Requests, Holds(s)', HeldSession(s)' \notin doubled'
        PROVE  /\ \A t \in DOMAIN tokens' :
                    session'[t] = HeldSession(s)' => req'[s].pc # "issue" /\ t = req'[s].token
               /\ \A v \in Requests : Holds(v)' /\ HeldSession(v)' = HeldSession(s)' => v = s
    <3>1. Holds(s) /\ HeldSession(s) \notin doubled
      BY <1>0, <1>6, <2>1
    <3>2. ASSUME NEW t \in DOMAIN tokens', session'[t] = HeldSession(s)'
          PROVE  req'[s].pc # "issue" /\ t = req'[s].token
      <4>1. t \in DOMAIN tokens /\ t # q.token /\ session[t] = HeldSession(s)
        BY <1>0, <1>2, <1>6, <2>1, <3>2
      <4>2. req[s].pc # "issue" /\ t = req[s].token
        BY <1>0, <3>1, <4>1 DEF SInv, Spent
      <4> QED
        BY <1>6, <2>1, <4>1, <4>2
    <3>3. \A v \in Requests : Holds(v)' /\ HeldSession(v)' = HeldSession(s)' => v = s
      BY <1>0, <1>6, <2>1, <3>1 DEF SInv, Spent
    <3> QED
      BY <3>2, <3>3
  <2> QED
    BY <2>1 DEF Spent
<1> QED
  BY <1>2, <1>5, <1>7, <1>8 DEF AInv, TInv, SInv

LEMMA IssueKeeps ==
  ASSUME AInv, NEW r \in Requests, Issue(r)
  PROVE  AInv'
<1> DEFINE q == req[r]
           token == issued + 1
           place == IF q.token = NoToken THEN token ELSE session[q.token]
<1>0. /\ TInv /\ TablesOK /\ SInv /\ Sound(q, Len(users), DOMAIN session)
      /\ q \in Request
      /\ q.pc = "issue" /\ UNCHANGED <<users, doubled, revoked>> /\ End(r)
      /\ issued' = token
      /\ tokens' = [t \in DOMAIN tokens \cup {token} |->
                      IF t = token THEN [user |-> q.user, verbatim |-> FALSE] ELSE tokens[t]]
      /\ session' = [t \in DOMAIN session \cup {token} |->
                       IF t # token THEN session[t] ELSE place]
      /\ Len(users) \in Nat /\ DOMAIN users = 1 .. Len(users) /\ issued \in Nat
  BY AccountsLen DEF Issue, AInv, TInv, RequestsSound, TablesOK
<1>1. /\ token \in Nat /\ token \notin DOMAIN session
      /\ DOMAIN session \cup {token} \in {1 .. token, 0 .. token}
      /\ DOMAIN tokens \subseteq DOMAIN session /\ token # NoToken
      /\ revoked \subseteq DOMAIN session /\ doubled \subseteq DOMAIN session
      /\ \A t \in DOMAIN session : session[t] \in DOMAIN session
  <2>1. DOMAIN session \in {1 .. issued, 0 .. issued} /\ issued \in Nat
    BY <1>0 DEF TablesOK
  <2>2. 1 .. issued \cup {token} = 1 .. token /\ 0 .. issued \cup {token} = 0 .. token
    BY <2>1
  <2>3. /\ DOMAIN tokens \subseteq DOMAIN session /\ revoked \subseteq DOMAIN session
        /\ doubled \subseteq DOMAIN session
        /\ \A t \in DOMAIN session : session[t] \in DOMAIN session
    BY <1>0 DEF TablesOK
  <2> QED
    BY <2>1, <2>2, <2>3 DEF NoToken
<1>2. /\ place \in DOMAIN session \cup {token}
      /\ q.token = NoToken => place = token
      /\ q.token # NoToken => q.token \in DOMAIN session /\ place = session[q.token]
      /\ q.user \in 1 .. Len(users)
  BY <1>0, <1>1 DEF Sound
<1> HIDE DEF place
<1>3. /\ DOMAIN session' = DOMAIN session \cup {token}
      /\ session'[token] = place
      /\ \A t \in DOMAIN session : session'[t] = session[t]
      /\ DOMAIN tokens' = DOMAIN tokens \cup {token}
      /\ \A t \in DOMAIN tokens : tokens'[t] = tokens[t]
      /\ tokens'[token] = [user |-> q.user, verbatim |-> FALSE]
  BY <1>0, <1>1
<1>4. TablesOK'
  <2>1. [user |-> q.user, verbatim |-> FALSE] \in TokenRow
    BY <1>0, <1>2 DEF TokenRow
  <2>2. tokens' \in [DOMAIN tokens' -> TokenRow]
    <3>1. \A t \in DOMAIN tokens' : tokens'[t] \in TokenRow
      BY <1>0, <1>3, <2>1 DEF TablesOK
    <3> QED
      BY <1>0, <1>3, <3>1
  <2>3. \A t \in DOMAIN tokens' : tokens'[t].user \in DOMAIN users'
    BY <1>0, <1>2, <1>3 DEF TablesOK
  <2>4. \A t \in DOMAIN session' : session'[t] \in DOMAIN session'
    BY <1>1, <1>2, <1>3
  <2> QED
    BY <1>0, <1>1, <1>3, <2>2, <2>3, <2>4 DEF TablesOK
<1>5. RequestsSound' /\ req'[r] = Idle /\ \A s \in Requests \ {r} : req'[s] = req[s]
  BY <1>0, <1>3, EndKeeps
<1>6. ASSUME NEW s \in Requests, Holds(s)'
      PROVE  /\ s # r /\ Holds(s) /\ req[s].token \in DOMAIN session
             /\ HeldSession(s)' = HeldSession(s) /\ req'[s] = req[s]
  <2>1. s # r
    BY <1>5, <1>6 DEF Holds, Idle
  <2>2. req'[s] = req[s] /\ Sound(req[s], Len(users), DOMAIN session)
    BY <1>0, <1>5, <2>1 DEF TInv, RequestsSound
  <2>3. Holds(s) /\ req[s].token \in DOMAIN session
    BY <1>6, <2>2 DEF Holds, Sound
  <2> QED
    BY <1>3, <2>1, <2>2, <2>3 DEF HeldSession
<1>7. RevokedStaysRevoked'
  BY <1>0, <1>1, <1>3 DEF SInv, RevokedStaysRevoked
<1>8. q.token # NoToken => Holds(r) /\ HeldSession(r) = place
  BY <1>0, <1>2 DEF Holds, HeldSession
<1>9. OneTokenPerSession'
  <2>1. ASSUME NEW t \in DOMAIN tokens, session[t] = place, place \notin doubled
        PROVE  FALSE
    <3>1. CASE q.token = NoToken
      BY <1>1, <1>2, <2>1, <3>1
    <3>2. CASE q.token # NoToken
      BY <1>0, <1>8, <2>1, <3>2 DEF SInv, Spent
    <3> QED
      BY <3>1, <3>2
  <2> QED
    BY <1>0, <1>1, <1>3, <2>1 DEF SInv, OneTokenPerSession
<1>10. Spent'
  <2>1. ASSUME NEW s \in Requests, Holds(s)', HeldSession(s)' \notin doubled'
        PROVE  /\ \A t \in DOMAIN tokens' :
                    session'[t] = HeldSession(s)' => req'[s].pc # "issue" /\ t = req'[s].token
               /\ \A v \in Requests : Holds(v)' /\ HeldSession(v)' = HeldSession(s)' => v = s
    <3>1. /\ s # r /\ Holds(s) /\ HeldSession(s) \notin doubled /\ HeldSession(s)' = HeldSession(s)
          /\ req'[s] = req[s] /\ HeldSession(s) \in DOMAIN session
      BY <1>0, <1>1, <1>6, <2>1 DEF HeldSession
    <3>2. HeldSession(s) # place
      <4>1. CASE q.token = NoToken
        BY <1>1, <1>2, <3>1, <4>1
      <4>2. CASE q.token # NoToken
        BY <1>0, <1>8, <3>1, <4>2 DEF SInv, Spent
      <4> QED
        BY <4>1, <4>2
    <3>3. ASSUME NEW t \in DOMAIN tokens', session'[t] = HeldSession(s)'
          PROVE  req'[s].pc # "issue" /\ t = req'[s].token
      <4>1. t \in DOMAIN tokens /\ session[t] = HeldSession(s)
        BY <1>1, <1>3, <3>1, <3>2, <3>3
      <4> QED
        BY <1>0, <3>1, <4>1 DEF SInv, Spent
    <3>4. \A v \in Requests : Holds(v)' /\ HeldSession(v)' = HeldSession(s)' => v = s
      BY <1>0, <1>6, <3>1 DEF SInv, Spent
    <3> QED
      BY <3>3, <3>4
  <2> QED
    BY <2>1 DEF Spent
<1> QED
  BY <1>4, <1>5, <1>7, <1>9, <1>10 DEF AInv, TInv, SInv

-----------------------------------------------------------------------------
LEMMA Initially == Init => AInv
<1> SUFFICES ASSUME Init
             PROVE  AInv
  OBVIOUS
<1> DEFINE legacy == [email |-> LegacyEmail, password |-> TRUE, subject |-> NoSubject]
<1>1. /\ issued = 0 /\ revoked = {} /\ doubled = {} /\ req = [r \in Requests |-> Idle]
      /\ \/ users = <<>> /\ tokens = <<>> /\ session = <<>>
         \/ /\ users = <<legacy>>
            /\ tokens = [t \in {0} |-> [user |-> 1, verbatim |-> TRUE]]
            /\ session = [t \in {0} |-> 0]
  BY DEF Init
<1>2. legacy \in Account
  BY AccountsAssumption DEF Account
<1> HIDE DEF legacy
<1>3. TablesOK
  <2>1. CASE users = <<>> /\ tokens = <<>> /\ session = <<>>
    BY <1>1, <2>1 DEF TablesOK
  <2>2. CASE /\ users = <<legacy>>
             /\ tokens = [t \in {0} |-> [user |-> 1, verbatim |-> TRUE]]
             /\ session = [t \in {0} |-> 0]
    <3>1. users \in Seq(Account) /\ DOMAIN users = {1}
      BY <1>2, <2>2
    <3> QED
      BY <1>1, <2>2, <3>1 DEF TablesOK, TokenRow
  <2> QED
    BY <1>1, <2>1, <2>2
<1>4. RequestsSound
  BY <1>1, <1>3, IdleIsRequest, AccountsLen DEF RequestsSound
<1>5. RevokedStaysRevoked /\ OneTokenPerSession
  BY <1>1 DEF RevokedStaysRevoked, OneTokenPerSession
<1>6. Spent
  BY <1>1 DEF Spent, Holds, Idle
<1> QED
  BY <1>3, <1>4, <1>5, <1>6 DEF AInv, TInv, SInv

LEMMA Inductive == AInv /\ [Next]_vars => AInv'
<1> SUFFICES ASSUME AInv, [Next]_vars
             PROVE  AInv'
  OBVIOUS
<1>1. CASE UNCHANGED vars
  BY <1>1 DEF vars, history, AInv, TInv, SInv, TablesOK, RequestsSound,
              RevokedStaysRevoked, OneTokenPerSession, Spent, Holds, HeldSession
<1>2. ASSUME NEW r \in Requests, Step(r)
      PROVE  AInv'
  BY <1>2, StartKeeps, FindSubjectKeeps, FindEmailKeeps, CreateAccountKeeps, LinkKeeps,
     FindTokenKeeps, JudgeKeeps, ExpireKeeps, RevokeKeeps, IssueKeeps, FailKeeps DEF Step
<1> QED
  BY <1>1, <1>2 DEF Next

(* A refresh token that was rotated, signed out or found expired is never  *)
(* live again (DeleteRefreshToken is final), whatever refresh had read its *)
(* row before and upgrades it after.                                       *)
THEOREM RevokedForGood == Spec => []RevokedStaysRevoked
<1>1. AInv => RevokedStaysRevoked
  BY DEF AInv, SInv
<1> QED
  BY Initially, Inductive, <1>1, PTL DEF Spec

(* A session has at most one live token, wherever its refreshes fail and   *)
(* however many of them there are, unless two had found one token before   *)
(* either deleted it: then Refresh issues a pair to each.                  *)
THEOREM OneToken == Spec => []OneTokenPerSession
<1>1. AInv => OneTokenPerSession
  BY DEF AInv, SInv
<1> QED
  BY Initially, Inductive, <1>1, PTL DEF Spec

-----------------------------------------------------------------------------
(* Whose account a Google identity reaches. *)

Google(q) == q.method = "LoginWithGoogle"

(* users_google_id_unique.                                                 *)
UniqueSubjects ==
  \A i, j \in DOMAIN users :
    users[i].subject = users[j].subject /\ users[i].subject # NoSubject => i = j

(* An account that was reached is linked yet, unless its link gave way.    *)
ReachedKept ==
  /\ reached \in [Subjects -> SUBSET DOMAIN users]
  /\ \A s \in Subjects : \A id \in reached[s] : users[id].subject = s \/ id \in overwritten

(* What a request was told of its account, with the accounts in table and  *)
(* the links in gone overwritten: a sign-in that is about to link saw the  *)
(* account free or its own, and another has been beside it if it is not.   *)
Vouched(q, table, gone) ==
  /\ Google(q) => q.subject \in Subjects
  /\ q.pc \in {"subject", "link"} => Google(q)
  /\ q.pc = "email" => q.method \in {"Register", "Login", "LoginWithGoogle"}
  /\ q.pc \in {"find", "judge", "expire", "revoke"} => ~ Google(q)
  /\ Google(q) /\ q.pc = "issue" => table[q.user].subject = q.subject \/ q.user \in gone
  /\ q.pc = "link" => table[q.user].subject \in {NoSubject, q.subject} \/ q.met

AllVouched == \A r \in Requests : Vouched(req[r], users, overwritten)

Together ==
  \A r, s \in Requests : r # s /\ Google(req[r]) /\ Google(req[s]) => req[r].met

PInv == UniqueSubjects /\ ReachedKept /\ AllVouched /\ Together

LEMMA IdleVouched == ASSUME NEW table, NEW gone PROVE Vouched(Idle, table, gone) /\ ~ Google(Idle)
BY DEF Idle, Vouched, Google

(* Request r alone moves on, to q, and what it does to the accounts keeps  *)
(* them in order and the others vouched for.                               *)
LEMMA OneMoves ==
  ASSUME AInv, PInv, NEW r \in Requests, NEW q \in Request,
         req' = [req EXCEPT ![r] = q],
         Google(q) => Google(req[r]) /\ q.met = req[r].met,
         UniqueSubjects', ReachedKept',
         Vouched(q, users', overwritten'),
         \A s \in Requests \ {r} : Vouched(req[s], users', overwritten')
  PROVE  PInv'
<1>1. req'[r] = q /\ \A s \in Requests \ {r} : req'[s] = req[s]
  BY DEF AInv, TInv, RequestsSound
<1>2. AllVouched'
  BY <1>1 DEF AllVouched
<1>3. Together'
  BY <1>1 DEF PInv, Together
<1> QED
  BY <1>2, <1>3 DEF PInv

LEMMA PassOn ==
  ASSUME AInv, PInv, NEW r \in Requests, NEW q \in Request,
         req' = [req EXCEPT ![r] = q],
         UNCHANGED <<users, reached, overwritten>>,
         Google(q) => Google(req[r]) /\ q.met = req[r].met,
         Vouched(q, users, overwritten)
  PROVE  PInv'
<1>1. UniqueSubjects' /\ ReachedKept'
  BY DEF PInv, UniqueSubjects, ReachedKept
<1>2. \A s \in Requests \ {r} : Vouched(req[s], users', overwritten')
  BY DEF PInv, AllVouched
<1>3. Vouched(q, users', overwritten')
  OBVIOUS
<1> QED
  BY <1>1, <1>2, <1>3, OneMoves

LEMMA PassEnd ==
  ASSUME AInv, PInv, NEW r \in Requests, End(r), UNCHANGED <<users, reached, overwritten>>
  PROVE  PInv'
BY PassOn, IdleIsRequest, IdleVouched DEF End

LEMMA GoToShape ==
  ASSUME AInv, NEW r \in Requests, NEW pc \in Pcs, NEW user \in Nat, GoTo(r, pc, user)
  PROVE  \E q \in Request :
           /\ req' = [req EXCEPT ![r] = q]
           /\ q.pc = pc /\ q.user = user /\ q.method = req[r].method
           /\ q.subject = req[r].subject /\ q.met = req[r].met
           /\ Google(q) <=> Google(req[r])
<1> DEFINE q == [req[r] EXCEPT !.pc = pc, !.user = user,
                               !.email = IF user = 0 THEN req[r].email ELSE "none"]
<1>0. req[r] \in Request /\ req \in [Requests -> Request]
  BY DEF AInv, TInv, RequestsSound
<1>1. /\ q \in Request /\ q.pc = pc /\ q.user = user /\ q.method = req[r].method
      /\ q.subject = req[r].subject /\ q.met = req[r].met
  BY <1>0 DEF Request
<1>2. req' = [req EXCEPT ![r] = q]
  BY <1>0 DEF GoTo
<1> HIDE DEF q
<1> QED
  BY <1>1, <1>2 DEF Google

(* A request that goes on without touching the accounts.                   *)
LEMMA PassGoTo ==
  ASSUME AInv, PInv, NEW r \in Requests, NEW pc \in Pcs, NEW user \in Nat, GoTo(r, pc, user),
         UNCHANGED <<users, reached, overwritten>>,
         pc \in {"email", "create", "issue", "link", "judge", "expire", "revoke"},
         pc = "email" => Google(req[r]),
         pc \in {"judge", "expire", "revoke"} => ~ Google(req[r]),
         pc = "issue" /\ Google(req[r]) => users[user].subject = req[r].subject,
         pc = "link" => Google(req[r]) /\ MayLink(user, req[r].subject)
  PROVE  PInv'
<1>1. PICK q \in Request :
           /\ req' = [req EXCEPT ![r] = q]
           /\ q.pc = pc /\ q.user = user /\ q.method = req[r].method
           /\ q.subject = req[r].subject /\ q.met = req[r].met
           /\ Google(q) <=> Google(req[r])
  BY GoToShape
<1>2. Vouched(req[r], users, overwritten)
  BY DEF PInv, AllVouched
<1>3. Vouched(q, users, overwritten)
  BY <1>1, <1>2 DEF Vouched, MayLink, Google
<1> QED
  BY <1>1, <1>3, PassOn

LEMMA AcceptVouched ==
  ASSUME AInv, PInv, NEW r \in Requests, NEW method \in Methods,
         NEW pc \in Pcs, NEW email, NEW subject, NEW token,
         Accept(r, method, pc, email, subject, token),
         \/ method = "LoginWithGoogle" /\ pc = "subject" /\ subject \in Subjects
         \/ method \in {"Register", "Login"} /\ pc = "email"
         \/ method \in {"Refresh", "Logout"} /\ pc \in {"find", "revoke"}
  PROVE  PInv'
<1> DEFINE others == {s \in Requests : {req[s].method, method} = {"LoginWithGoogle"}}
           q == [method |-> method, pc |-> pc, email |-> email, subject |-> subject,
                 user |-> 0, token |-> token, met |-> others # {}]
<1>0. /\ req \in [Requests -> Request] /\ UNCHANGED <<users, reached, overwritten>>
      /\ req[r] = Idle
  BY DEF AInv, TInv, RequestsSound, Accept, history
<1>1. req'[r] = q
  BY DEF Accept
<1>2. /\ q.method = method /\ q.pc = pc /\ q.subject = subject
      /\ q.met <=> others # {}
      /\ Google(q) <=> method = "LoginWithGoogle"
  BY DEF Google
<1> HIDE DEF q
<1>3. ASSUME NEW s \in Requests, s # r
      PROVE  /\ req'[s].pc = req[s].pc /\ req'[s].method = req[s].method
             /\ req'[s].subject = req[s].subject /\ req'[s].user = req[s].user
             /\ req[s].met => req'[s].met
             /\ Google(req[s]) /\ Google(q) => req'[s].met /\ q.met
             /\ Google(req'[s]) <=> Google(req[s])
  <2>1. req'[s] = IF s \in others THEN [req[s] EXCEPT !.met = TRUE] ELSE req[s]
    BY <1>3 DEF Accept
  <2>2. req[s] \in Request
    BY <1>0
  <2>3. Google(req[s]) /\ Google(q) => s \in others
    BY <1>2 DEF Google
  <2>4. CASE s \in others
    BY <1>2, <2>1, <2>2, <2>4 DEF Request, Google
  <2>5. CASE s \notin others
    BY <2>1, <2>3, <2>5
  <2> QED
    BY <2>4, <2>5
<1>4. AllVouched'
  <2>1. ASSUME NEW s \in Requests
        PROVE  Vouched(req'[s], users', overwritten')
    <3>1. CASE s = r
      BY <1>1, <1>2, <3>1 DEF Vouched
    <3>2. CASE s # r
      <4>1. Vouched(req[s], users, overwritten)
        BY DEF PInv, AllVouched
      <4> QED
        BY <1>0, <1>3, <3>2, <4>1 DEF Vouched
    <3> QED
      BY <3>1, <3>2
  <2> QED
    BY <2>1 DEF AllVouched
<1>5. Together'
  <2>1. ASSUME NEW s \in Requests, NEW t \in Requests, s # t,
               Google(req'[s]), Google(req'[t])
        PROVE  req'[s].met
    <3>1. CASE s = r
      BY <1>1, <1>3, <2>1, <3>1
    <3>2. CASE t = r
      BY <1>1, <1>3, <2>1, <3>2
    <3>3. CASE s # r /\ t # r
      BY <1>3, <2>1, <3>3 DEF PInv, Together
    <3> QED
      BY <3>1, <3>2, <3>3
  <2> QED
    BY <2>1 DEF Together
<1>6. UniqueSubjects' /\ ReachedKept'
  BY <1>0 DEF PInv, UniqueSubjects, ReachedKept
<1> QED
  BY <1>4, <1>5, <1>6 DEF PInv

LEMMA StartVouched ==
  ASSUME AInv, PInv, NEW r \in Requests, Start(r)
  PROVE  PInv'
<1>1. /\ {"Register", "Login", "LoginWithGoogle", "Refresh", "Logout"} \subseteq Methods
      /\ {"subject", "email", "find", "revoke"} \subseteq Pcs
  BY DEF Methods, Pcs
<1>2. ASSUME NEW email \in Emails, NEW method \in {"Register", "Login"},
             Accept(r, method, "email", email, NoSubject, NoToken)
      PROVE  PInv'
  BY <1>1, <1>2, AcceptVouched
<1>3. ASSUME NEW identity \in Identities,
             Accept(r, "LoginWithGoogle", "subject", identity[2], identity[1], NoToken)
      PROVE  PInv'
  <2>1. identity[1] \in Subjects
    BY DEF Subjects
  <2> QED
    BY <1>1, <1>3, <2>1, AcceptVouched
<1>4. ASSUME NEW token \in DOMAIN session,
             \/ Accept(r, "Refresh", "find", "none", NoSubject, token)
             \/ Accept(r, "Logout", "revoke", "none", NoSubject, token)
      PROVE  PInv'
  <2>1. CASE Accept(r, "Refresh", "find", "none", NoSubject, token)
    BY <1>1, <2>1, AcceptVouched
  <2>2. CASE Accept(r, "Logout", "revoke", "none", NoSubject, token)
    BY <1>1, <2>2, AcceptVouched
  <2> QED
    BY <1>4, <2>1, <2>2
<1> QED
  BY <1>2, <1>3, <1>4 DEF Start, Register, Login, LoginWithGoogle, Refresh, Logout

LEMMA FindSubjectVouched ==
  ASSUME AInv, PInv, NEW r \in Requests, FindSubject(r)
  PROVE  PInv'
<1>1. /\ req[r].pc = "subject" /\ UNCHANGED <<users, reached, overwritten>>
      /\ "issue" \in Pcs /\ "email" \in Pcs /\ 0 \in Nat
      /\ DOMAIN users \subseteq Nat
  BY AccountsLen DEF FindSubject, history, Pcs, AInv, TInv
<1>2. Google(req[r])
  BY <1>1 DEF PInv, AllVouched, Vouched
<1>3. ASSUME NEW id \in WithSubject(req[r].subject), GoTo(r, "issue", id)
      PROVE  PInv'
  <2>1. id \in Nat /\ users[id].subject = req[r].subject
    BY <1>1 DEF WithSubject
  <2> QED
    BY <1>1, <1>3, <2>1, PassGoTo
<1>4. CASE GoTo(r, "email", 0)
  BY <1>1, <1>2, <1>4, PassGoTo
<1> QED
  BY <1>3, <1>4 DEF FindSubject

LEMMA FindEmailVouched ==
  ASSUME AInv, PInv, NEW r \in Requests, FindEmail(r)
  PROVE  PInv'
<1>1. /\ req[r].pc = "email" /\ UNCHANGED <<users, reached, overwritten>>
      /\ {"issue", "create", "link"} \subseteq Pcs /\ 0 \in Nat
      /\ DOMAIN users \subseteq Nat
  BY AccountsLen DEF FindEmail, history, Pcs, AInv, TInv
<1>2. req[r].method \in {"Register", "Login", "LoginWithGoogle"}
  BY <1>1 DEF PInv, AllVouched, Vouched
<1>3. CASE GoTo(r, "create", 0)
  BY <1>1, <1>3, PassGoTo
<1>4. CASE End(r)
  BY <1>1, <1>4, PassEnd
<1>5. ASSUME NEW id \in WithEmail(req[r].email), req[r].method = "Login", GoTo(r, "issue", id)
      PROVE  PInv'
  <2>1. id \in Nat /\ ~ Google(req[r])
    BY <1>1, <1>5 DEF WithEmail, Google
  <2> QED
    BY <1>1, <1>5, <2>1, PassGoTo
<1>6. ASSUME NEW id \in WithEmail(req[r].email), req[r].method \notin {"Register", "Login"},
             MayLink(id, req[r].subject), GoTo(r, "link", id)
      PROVE  PInv'
  <2>1. id \in Nat /\ Google(req[r])
    BY <1>1, <1>2, <1>6 DEF WithEmail, Google
  <2> QED
    BY <1>1, <1>6, <2>1, PassGoTo
<1> QED
  BY <1>3, <1>4, <1>5, <1>6 DEF FindEmail

LEMMA CreateAccountVouched ==
  ASSUME AInv, PInv, NEW r \in Requests, CreateAccount(r)
  PROVE  PInv'
<1> DEFINE id == Len(users) + 1
           made == [email |-> req[r].email, password |-> req[r].method = "Register",
                    subject |-> req[r].subject]
<1>0. UNCHANGED <<reached, overwritten>> /\ req[r].pc = "create"
  BY DEF CreateAccount, history
<1>1. CASE UNCHANGED users /\ End(r)
  BY <1>0, <1>1, PassEnd
<1>2. CASE ~ (UNCHANGED users /\ End(r))
  <2>1. /\ users' = Append(users, made) /\ GoTo(r, "issue", id)
        /\ SubjectFree(req[r].subject, id)
    BY <1>2 DEF CreateAccount
  <2>2. made.subject = req[r].subject
    OBVIOUS
  <2> HIDE DEF made
  <2>3. /\ users \in Seq(Account) /\ DOMAIN users = 1 .. Len(users) /\ Len(users) \in Nat
        /\ "issue" \in Pcs /\ id \in Nat
    BY AccountsLen DEF AInv, TInv, TablesOK, Pcs
  <2>4. /\ DOMAIN users' = DOMAIN users \cup {id} /\ users'[id] = made
        /\ id \notin DOMAIN users
        /\ \A i \in DOMAIN users : users'[i] = users[i]
    BY <2>1, <2>3
  <2>5. PICK q \in Request :
           /\ req' = [req EXCEPT ![r] = q]
           /\ q.pc = "issue" /\ q.user = id /\ q.method = req[r].method
           /\ q.subject = req[r].subject /\ q.met = req[r].met
           /\ Google(q) <=> Google(req[r])
    BY <2>1, <2>3, GoToShape
  <2> HIDE DEF id
  <2>6. UniqueSubjects'
    <3>1. ASSUME NEW i \in DOMAIN users, users[i].subject = made.subject,
                 made.subject # NoSubject
          PROVE  FALSE
      BY <2>1, <2>2, <2>4, <3>1 DEF SubjectFree, WithSubject
    <3>2. ASSUME NEW i \in DOMAIN users', NEW j \in DOMAIN users',
                 users'[i].subject = users'[j].subject, users'[i].subject # NoSubject
          PROVE  i = j
      BY <2>4, <3>1, <3>2 DEF PInv, UniqueSubjects
    <3> QED
      BY <3>2 DEF UniqueSubjects
  <2>7. ReachedKept'
    <3>1. reached' = reached /\ reached \in [Subjects -> SUBSET DOMAIN users]
      BY <1>0 DEF PInv, ReachedKept
    <3>2. reached' \in [Subjects -> SUBSET DOMAIN users']
      BY <2>4, <3>1
    <3> QED
      BY <1>0, <2>4, <3>1, <3>2 DEF PInv, ReachedKept
  <2>8. Vouched(req[r], users, overwritten)
    BY DEF PInv, AllVouched
  <2>9. Vouched(q, users', overwritten')
    BY <2>2, <2>4, <2>5, <2>8 DEF Vouched, Google
  <2>10. ASSUME NEW s \in Requests \ {r}
         PROVE  Vouched(req[s], users', overwritten')
    <3>1. Vouched(req[s], users, overwritten) /\ Sound(req[s], Len(users), DOMAIN session)
      BY DEF PInv, AllVouched, AInv, TInv, RequestsSound
    <3>2. req[s].pc \in {"issue", "link"} => users'[req[s].user] = users[req[s].user]
      BY <2>3, <2>4, <3>1 DEF Sound
    <3> QED
      BY <1>0, <3>1, <3>2 DEF Vouched
  <2> QED
    BY <2>5, <2>6, <2>7, <2>9, <2>10, OneMoves
<1> QED
  BY <1>1, <1>2

(* A link that gives way to another sets every other sign-in on the way to *)
(* the account apart: it has been met, or its account is overwritten.      *)
LEMMA LinkVouched ==
  ASSUME AInv, PInv, NEW r \in Requests, Link(r)
  PROVE  PInv'
<1> DEFINE id == req[r].user
           linked == [users[id] EXCEPT !.subject = req[r].subject]
<1>0. UNCHANGED reached /\ req[r].pc = "link"
  BY DEF Link
<1>1. CASE UNCHANGED <<users, overwritten>> /\ End(r)
  BY <1>0, <1>1, PassEnd
<1>2. CASE ~ (UNCHANGED <<users, overwritten>> /\ End(r))
  <2>1. /\ users' = [users EXCEPT ![id].subject = req[r].subject]
        /\ GoTo(r, "issue", id) /\ SubjectFree(req[r].subject, id)
        /\ overwritten' = IF users[id].subject \in {NoSubject, req[r].subject}
                          THEN overwritten ELSE overwritten \cup {id}
    BY <1>2 DEF Link
  <2>2. /\ req[r] \in Request /\ id \in 1 .. Len(users) /\ id \in Nat
        /\ users \in Seq(Account)
        /\ Len(users) \in Nat /\ DOMAIN users = 1 .. Len(users) /\ "issue" \in Pcs
    BY <1>0, AccountsLen DEF AInv, TInv, RequestsSound, Sound, TablesOK, Pcs
  <2>3. users[id] \in Account
    BY <2>2, ElementOfSeq
  <2>4. linked.subject = req[r].subject
    BY <2>3 DEF Account
  <2>5. /\ DOMAIN users' = DOMAIN users /\ users'[id] = linked
        /\ \A i \in DOMAIN users \ {id} : users'[i] = users[i]
    BY <2>1, <2>2
  <2>6. Vouched(req[r], users, overwritten) /\ Google(req[r]) /\ req[r].subject \in Subjects
    BY <1>0 DEF PInv, AllVouched, Vouched
  <2>7. PICK q \in Request :
           /\ req' = [req EXCEPT ![r] = q]
           /\ q.pc = "issue" /\ q.user = id /\ q.method = req[r].method
           /\ q.subject = req[r].subject /\ q.met = req[r].met
           /\ Google(q) <=> Google(req[r])
    BY <2>1, <2>2, GoToShape
  <2> HIDE DEF linked
  <2>8. UniqueSubjects'
    <3>1. ASSUME NEW i \in DOMAIN users, users[i].subject = req[r].subject
          PROVE  i = id
      BY <2>1, <2>6, <3>1, AccountsAssumption DEF SubjectFree, WithSubject
    <3>2. ASSUME NEW i \in DOMAIN users', NEW j \in DOMAIN users',
                 users'[i].subject = users'[j].subject, users'[i].subject # NoSubject
          PROVE  i = j
      BY <2>4, <2>5, <3>1, <3>2 DEF PInv, UniqueSubjects
    <3> QED
      BY <3>2 DEF UniqueSubjects
  <2>9. /\ overwritten \subseteq overwritten'
        /\ users[id].subject \in {NoSubject, req[r].subject} \/ id \in overwritten'
    BY <2>1
  <2>10. ReachedKept'
    <3>1. reached' = reached /\ reached' \in [Subjects -> SUBSET DOMAIN users']
      BY <1>0, <2>5 DEF PInv, ReachedKept
    <3>2. ASSUME NEW s \in Subjects, NEW i \in reached[s]
          PROVE  users'[i].subject = s \/ i \in overwritten'
      <4>1. i \in DOMAIN users /\ (users[i].subject = s \/ i \in overwritten)
        BY DEF PInv, ReachedKept
      <4>2. CASE i # id
        BY <2>5, <2>9, <4>1, <4>2
      <4>3. CASE i = id
        BY <2>4, <2>5, <2>9, <4>1, <4>3, AccountsAssumption
      <4> QED
        BY <4>2, <4>3
    <3> QED
      BY <3>1, <3>2 DEF ReachedKept
  <2>11. Vouched(q, users', overwritten')
    BY <2>4, <2>5, <2>6, <2>7 DEF Vouched, Google
  <2>12. ASSUME NEW s \in Requests \ {r}
         PROVE  Vouched(req[s], users', overwritten')
    <3>1. Vouched(req[s], users, overwritten) /\ Sound(req[s], Len(users), DOMAIN session)
      BY DEF PInv, AllVouched, AInv, TInv, RequestsSound
    <3>2. req[s].pc = "link" => req[s].met
      BY <2>6, <3>1 DEF Vouched, PInv, Together
    <3>3. ASSUME Google(req[s]), req[s].pc = "issue"
          PROVE  users'[req[s].user].subject = req[s].subject \/ req[s].user \in overwritten'
      <4>1. /\ req[s].user \in DOMAIN users /\ req[s].subject \in Subjects
            /\ users[req[s].user].subject = req[s].subject \/ req[s].user \in overwritten
        BY <2>2, <3>1, <3>3 DEF Sound, Vouched
      <4>2. CASE req[s].user # id
        BY <2>5, <2>9, <4>1, <4>2
      <4>3. CASE req[s].user = id
        BY <2>4, <2>5, <2>9, <4>1, <4>3, AccountsAssumption
      <4> QED
        BY <4>2, <4>3
    <3> QED
      BY <3>1, <3>2, <3>3 DEF Vouched
  <2> QED
    BY <2>7, <2>8, <2>10, <2>11, <2>12, OneMoves
<1> QED
  BY <1>1, <1>2

(* The steps of a refresh or a sign-out, which no Google sign-in takes.    *)
LEMMA TokenStepsVouched ==
  ASSUME AInv, PInv, NEW r \in Requests,
         FindToken(r) \/ Judge(r) \/ Expire(r) \/ Revoke(r)
  PROVE  PInv'
<1>1. /\ req[r].pc \in {"find", "judge", "expire", "revoke"}
      /\ UNCHANGED <<users, reached, overwritten>>
      /\ {"judge", "expire", "revoke"} \subseteq Pcs
      /\ TablesOK /\ Sound(req[r], Len(users), DOMAIN session)
      /\ req[r] \in Request /\ req \in [Requests -> Request]
  BY DEF FindToken, Judge, Expire, Revoke, history, Pcs, AInv, TInv, RequestsSound
<1>2. ~ Google(req[r])
  BY <1>1 DEF PInv, AllVouched, Vouched
<1>3. ASSUME NEW pc \in {"judge", "expire", "revoke"}, NEW user \in Nat, GoTo(r, pc, user)
      PROVE  PInv'
  BY <1>1, <1>2, <1>3, PassGoTo
<1>4. CASE End(r)
  BY <1>1, <1>4, PassEnd
<1>5. CASE FindToken(r)
  <2>1. req[r].token \in DOMAIN tokens => tokens[req[r].token].user \in Nat
    BY <1>1 DEF TablesOK, TokenRow
  <2> QED
    BY <1>3, <1>4, <1>5, <2>1 DEF FindToken
<1>6. CASE Judge(r)
  <2>1. req[r].user \in Nat
    BY <1>1 DEF Request
  <2> QED
    BY <1>3, <1>6, <2>1 DEF Judge
<1>7. CASE Expire(r)
  BY <1>4, <1>7 DEF Expire
<1>8. CASE Revoke(r)
  <2> DEFINE new == IF req[r].method = "Logout" THEN Idle
                    ELSE [req[r] EXCEPT !.pc = "issue"]
  <2>1. req' = [req EXCEPT ![r] = new]
    BY <1>8 DEF Revoke
  <2>2. /\ new \in Request /\ new.pc \in {"idle", "issue"}
        /\ new.method \in {"none", req[r].method}
    <3>1. "issue" \in Pcs
      BY DEF Pcs
    <3>2. CASE req[r].method = "Logout"
      BY <3>2, IdleIsRequest DEF Idle
    <3>3. CASE req[r].method # "Logout"
      BY <1>1, <3>1, <3>3 DEF Request
    <3> QED
      BY <3>2, <3>3
  <2> HIDE DEF new
  <2>3. ~ Google(new)
    BY <1>2, <2>2 DEF Google
  <2>4. Vouched(new, users, overwritten)
    BY <2>2, <2>3 DEF Vouched
  <2> QED
    BY <1>1, <2>1, <2>2, <2>3, <2>4, PassOn
<1> QED
  BY <1>5, <1>6, <1>7, <1>8

LEMMA IssueVouched ==
  ASSUME AInv, PInv, NEW r \in Requests, Issue(r)
  PROVE  PInv'
<1>1. /\ UNCHANGED <<users, overwritten>> /\ End(r) /\ req[r].pc = "issue"
      /\ reached' = IF Google(req[r])
                    THEN [reached EXCEPT ![req[r].subject] = @ \cup {req[r].user}]
                    ELSE reached
      /\ DOMAIN users = 1 .. Len(users) /\ Len(users) \in Nat
  BY AccountsLen DEF Issue, Google, AInv, TInv
<1>2. Vouched(req[r], users, overwritten) /\ req[r].user \in DOMAIN users
  BY <1>1 DEF PInv, AllVouched, AInv, TInv, RequestsSound, Sound
<1>3. ReachedKept'
  <2>1. reached' \in [Subjects -> SUBSET DOMAIN users]
    BY <1>1, <1>2 DEF PInv, ReachedKept, Vouched
  <2>2. ASSUME NEW s \in Subjects, NEW i \in reached'[s]
        PROVE  users[i].subject = s \/ i \in overwritten
    <3>1. i \in reached[s] \/ (Google(req[r]) /\ s = req[r].subject /\ i = req[r].user)
      BY <1>1, <1>2, <2>2 DEF PInv, ReachedKept, Vouched
    <3> QED
      BY <1>1, <1>2, <3>1 DEF PInv, ReachedKept, Vouched
  <2> QED
    BY <1>1, <2>1, <2>2 DEF ReachedKept
<1>4. UniqueSubjects'
  BY <1>1 DEF PInv, UniqueSubjects
<1>5. \A s \in Requests \ {r} : Vouched(req[s], users', overwritten')
  BY <1>1 DEF PInv, AllVouched
<1> QED
  BY <1>1, <1>3, <1>4, <1>5, IdleIsRequest, IdleVouched, OneMoves DEF End

LEMMA VouchedInitially == Init => PInv
<1> SUFFICES ASSUME Init
             PROVE  PInv
  OBVIOUS
<1>1. /\ req = [r \in Requests |-> Idle] /\ reached = [s \in Subjects |-> {}]
      /\ users = <<>> \/ users = <<[email |-> LegacyEmail, password |-> TRUE,
                                    subject |-> NoSubject]>>
  BY DEF Init
<1>2. AllVouched /\ Together
  BY <1>1, IdleVouched DEF AllVouched, Together
<1>3. UniqueSubjects /\ ReachedKept
  BY <1>1 DEF UniqueSubjects, ReachedKept
<1> QED
  BY <1>2, <1>3 DEF PInv

LEMMA VouchedInductive == AInv /\ PInv /\ [Next]_vars => PInv'
<1> SUFFICES ASSUME AInv, PInv, [Next]_vars
             PROVE  PInv'
  OBVIOUS
<1>1. CASE UNCHANGED vars
  BY <1>1 DEF vars, history, PInv, UniqueSubjects, ReachedKept, AllVouched, Together
<1>2. ASSUME NEW r \in Requests, Step(r)
      PROVE  PInv'
  <2>1. CASE Fail(r)
    BY <2>1, PassEnd DEF Fail, history
  <2> QED
    BY <1>2, <2>1, StartVouched, FindSubjectVouched, FindEmailVouched, CreateAccountVouched,
       LinkVouched, TokenStepsVouched, IssueVouched DEF Step
<1> QED
  BY <1>1, <1>2 DEF Next

LEMMA OneReached == AInv /\ PInv => OneAccountPerSubject
<1> SUFFICES ASSUME AInv, PInv
             PROVE  OneAccountPerSubject
  OBVIOUS
<1>1. TypeOK
  <2>1. ASSUME NEW r \in Requests
        PROVE  /\ req[r].method \in Methods /\ req[r].pc \in Pcs
               /\ req[r].user \in 0 .. Len(users) /\ req[r].token \in {NoToken} \cup DOMAIN session
               /\ req[r].pc = "issue" => req[r].user # 0
    <3>1. req[r] \in Request /\ Sound(req[r], Len(users), DOMAIN session)
      BY DEF AInv, TInv, RequestsSound
    <3> QED
      BY <3>1 DEF Request, Sound
  <2> QED
    BY <2>1 DEF AInv, TInv, TablesOK, TypeOK
<1>2. ASSUME NEW s \in Subjects
      PROVE  Cardinality(reached[s] \ overwritten) <= 1
  <2> DEFINE S == reached[s] \ overwritten
  <2>1. \A i, j \in S : i = j
    <3>1. s # NoSubject
      BY AccountsAssumption
    <3>2. \A i \in S : i \in DOMAIN users /\ users[i].subject = s
      BY DEF PInv, ReachedKept
    <3> QED
      BY <3>1, <3>2 DEF PInv, UniqueSubjects
  <2>2. CASE S = {}
    BY <2>2, FS_EmptySet
  <2>3. CASE S # {}
    <3>1. PICK i : S = {i}
      BY <2>1, <2>3
    <3>2. Cardinality({i}) = 1
      BY FS_Singleton
    <3> QED
      BY <3>1, <3>2
  <2> QED
    BY <2>2, <2>3
<1> QED
  BY <1>1, <1>2 DEF OneAccountPerSubject

(* What LinksStay says of a step. *)
LinkStays ==
  \A id \in DOMAIN users :
    users[id].subject \notin {NoSubject, users'[id].subject}
      => \E r \in Requests : req'[r] # req[r] /\ req[r].user = id /\ req[r].met

LEMMA OnlyLinkMoves == AInv /\ PInv /\ Next => LinkStays
<1> SUFFICES ASSUME AInv, PInv, Next, NEW id \in DOMAIN users,
                    users[id].subject \notin {NoSubject, users'[id].subject}
             PROVE  \E r \in Requests : req'[r] # req[r] /\ req[r].user = id /\ req[r].met
  BY DEF LinkStays
<1>1. PICK r \in Requests : Step(r)
  BY DEF Next
<1>2. ~ UNCHANGED users
  OBVIOUS
<1>3. CreateAccount(r) \/ Link(r)
  BY <1>1, <1>2 DEF Step, Start, Register, Login, LoginWithGoogle, Refresh, Logout, Accept,
                    FindSubject, FindEmail, FindToken, Judge, Expire, Revoke, Issue, Fail
<1>4. ~ CreateAccount(r)
  <2>1. users \in Seq(Account)
    BY DEF AInv, TInv, TablesOK
  <2> QED
    BY <1>2, <2>1 DEF CreateAccount
<1>5. /\ req[r].pc = "link" /\ GoTo(r, "issue", req[r].user)
      /\ users' = [users EXCEPT ![req[r].user].subject = req[r].subject]
  BY <1>2, <1>3, <1>4 DEF Link
<1>6. id = req[r].user
  BY <1>5
<1>7. users'[id].subject = req[r].subject
  <2>1. users[id] \in Account
    BY ElementOfSeq, AccountsLen DEF AInv, TInv, TablesOK
  <2> QED
    BY <1>5, <1>6, <2>1 DEF Account
<1>8. req[r].met
  BY <1>5, <1>6, <1>7 DEF PInv, AllVouched, Vouched
<1>9. req'[r] # req[r]
  <2>1. PICK q \in Request : req' = [req EXCEPT ![r] = q] /\ q.pc = "issue"
    <3>1. "issue" \in Pcs /\ req[r].user \in Nat
      BY DEF Pcs, AInv, TInv, RequestsSound, Request
    <3> QED
      BY <1>5, <3>1, GoToShape
  <2> QED
    BY <1>5, <2>1 DEF AInv, TInv, RequestsSound
<1> QED
  BY <1>6, <1>8, <1>9

(* However many sign-ins of a Google subject race, under whatever          *)
(* addresses, they reach one account: the unique google_id and the check   *)
(* before it hold off every other, short of a link that is overwritten.    *)
THEOREM OneAccountForOneSubject == Spec => []OneAccountPerSubject
<1>1. Init => AInv /\ PInv
  BY Initially, VouchedInitially
<1>2. AInv /\ PInv /\ [Next]_vars => (AInv /\ PInv)'
  BY Inductive, VouchedInductive
<1> QED
  BY <1>1, <1>2, OneReached, PTL DEF Spec

(* linkGoogle's check and LinkGoogleID's statement are two steps; between  *)
(* them only another Google sign-in can link the account, so a link gives  *)
(* way only to a sign-in that had one beside it.                           *)
THEOREM LinksGiveWayInRacesOnly == Spec => LinksStay
<1>1. Init => AInv /\ PInv
  BY Initially, VouchedInitially
<1>2. AInv /\ PInv /\ [Next]_vars => (AInv /\ PInv)'
  BY Inductive, VouchedInductive
<1>3. AInv /\ PInv /\ [Next]_vars => [LinkStays]_vars
  BY OnlyLinkMoves
<1>4. LinksStay <=> [][LinkStays]_vars
  BY DEF LinksStay, LinkStays
<1> QED
  BY <1>1, <1>2, <1>3, <1>4, PTL DEF Spec

-----------------------------------------------------------------------------
(* Who a request is served as (Gateway). *)

Roles == {"none", "admin", "customer"}
AccessToken == [user : Owners \cup {Nobody}, role : Roles, session : Nat, until : Nat]
RefreshToken == [user : Owners \cup {Nobody}, number : Nat, session : Nat, until : Nat]
CookieSet == [access : AccessToken, refresh : RefreshToken]
CallRecord ==
  [pc : {"idle", "sent", "found", "answered"}, route : Routes \cup {"none"},
   carried : CookieSet, role : Roles, status : Nat, set : CookieSet,
   sets : BOOLEAN, at : Nat]

GatewayTypes ==
  /\ clock \in Nat /\ pairs \in Nat /\ admins \subseteq Owners
  /\ adminAt \in [Owners -> Nat]
  /\ live \subseteq RefreshToken /\ handed \subseteq AccessToken
  /\ jar \in CookieSet /\ call \in [Calls -> CallRecord]
  /\ ended \subseteq 1 .. pairs

RolesDated ==
  \A u \in Owners : adminAt[u] <= clock /\ (u \in admins => adminAt[u] = clock)

(* An access token that says admin does not outlive the role by more than  *)
(* its own life.                                                           *)
Fair(a, dates) ==
  \/ a = NoAccess
  \/ a.user \in Owners /\ (a.role = "admin" => a.until <= dates[a.user] + AccessLife)

Known(t, n) == t = NoRefresh \/ (t.user \in Owners /\ t.session \in 1 .. n)

OfOneSession(k) ==
  (k.access # NoAccess /\ k.refresh # NoRefresh)
    => k.access.session = k.refresh.session /\ k.access.user = k.refresh.user

TokensFair ==
  /\ \A a \in handed : Fair(a, adminAt)
  /\ \A t \in live : Known(t, pairs) /\ t # NoRefresh
  /\ Fair(jar.access, adminAt) /\ Known(jar.refresh, pairs) /\ OfOneSession(jar)

ServedFairly(q, dates) ==
  (q.status = 200 /\ q.route \in Administrative)
    => /\ q.carried.access.user \in Owners
       /\ q.at < dates[q.carried.access.user] + AccessLife

(* The role a refresh has found is of this unit of the clock.              *)
CallFair(q, dates, n, time) ==
  /\ Fair(q.carried.access, dates) /\ Known(q.carried.refresh, n)
  /\ Fair(q.set.access, dates) /\ Known(q.set.refresh, n) /\ OfOneSession(q.set)
  /\ q.pc = "found" =>
       /\ q.route = "POST /auth/refresh" /\ q.carried.refresh # NoRefresh
       /\ q.role = "admin" => dates[q.carried.refresh.user] = time
  /\ ~ q.sets => q.set = NoCookies
  /\ q.pc # "answered" => q.status = 0 /\ ~ q.sets
  /\ ServedFairly(q, dates)

CallsFair == \A c \in Calls : CallFair(call[c], adminAt, pairs, clock)

GInv == GatewayTypes /\ RolesDated /\ TokensFair /\ CallsFair

LEMMA NothingIsTyped ==
  /\ NoAccess \in AccessToken /\ NoRefresh \in RefreshToken
  /\ NoCookies \in CookieSet /\ NoCall \in CallRecord
  /\ NoCookies.access = NoAccess /\ NoCookies.refresh = NoRefresh
  /\ NoRefresh.session = 0 /\ OfOneSession(NoCookies)
  /\ NoCall.carried = NoCookies /\ NoCall.set = NoCookies /\ NoCall.status = 0
  /\ NoCall.pc = "idle" /\ NoCall.route = "none" /\ ~ NoCall.sets
<1>1. NoAccess \in AccessToken /\ NoRefresh \in RefreshToken /\ NoRefresh.session = 0
  BY DEF NoAccess, NoRefresh, AccessToken, RefreshToken, Roles
<1>2. NoCookies \in CookieSet
  BY <1>1 DEF NoCookies, CookieSet
<1>3. NoCall \in CallRecord
  BY <1>2 DEF NoCall, CallRecord, Roles
<1>4. NoCookies.access = NoAccess /\ NoCookies.refresh = NoRefresh
  BY DEF NoCookies
<1>5. /\ NoCall.carried = NoCookies /\ NoCall.set = NoCookies /\ NoCall.status = 0
      /\ NoCall.pc = "idle" /\ NoCall.route = "none" /\ ~ NoCall.sets
  BY DEF NoCall
<1> QED
  BY <1>1, <1>2, <1>3, <1>4, <1>5 DEF OfOneSession

LEMMA RoutesApart ==
  /\ Ending \subseteq Routes /\ "none" \notin Ending
  /\ "POST /auth/refresh" \notin Administrative /\ "POST /auth/logout" \notin Administrative
  /\ "POST /auth/register" \notin Administrative \cup Ending
  /\ "POST /auth/login" \notin Administrative \cup Ending
  /\ "POST /auth/google" \notin Administrative \cup Ending
  /\ "none" \notin Administrative
  /\ Ending \subseteq Unguarded /\ Administrative \cap Ending = {}
BY DEF Ending, Routes, Unguarded, Administrative

LEMMA NoCallFair == \A dates, n, time : CallFair(NoCall, dates, n, time)
BY NothingIsTyped, RoutesApart DEF CallFair, Fair, Known, ServedFairly

(* While the clock and the roles rest, what is fair stays so.              *)
LEMMA FairStays ==
  ASSUME NEW dates, NEW time, NEW n \in Nat, NEW m \in Nat, n <= m
  PROVE  /\ \A t : Known(t, n) => Known(t, m)
         /\ \A q : CallFair(q, dates, n, time) => CallFair(q, dates, m, time)
<1>1. \A t : Known(t, n) => Known(t, m)
  BY DEF Known
<1> QED
  BY <1>1 DEF CallFair

(* One call becomes q; the clock and the roles rest.                       *)
LEMMA CallMoves ==
  ASSUME GInv, NEW c \in Calls, NEW q \in CallRecord,
         call' = [call EXCEPT ![c] = q],
         UNCHANGED <<clock, admins, adminAt>>,
         pairs' \in Nat, pairs <= pairs',
         CallFair(q, adminAt, pairs', clock),
         live' \subseteq RefreshToken,
         \A t \in live' \ live : Known(t, pairs') /\ t # NoRefresh,
         handed' \subseteq AccessToken, \A a \in handed' \ handed : Fair(a, adminAt),
         jar' \in {jar, call[c].set}, ended' \subseteq 1 .. pairs
  PROVE  /\ GInv' /\ call'[c] = q
         /\ \A d \in Calls \ {c} : call'[d] = call[d]
<1>0. pairs \in Nat /\ call \in [Calls -> CallRecord] /\ jar \in CookieSet
  BY DEF GInv, GatewayTypes
<1>1. /\ call' \in [Calls -> CallRecord] /\ call'[c] = q
      /\ \A d \in Calls \ {c} : call'[d] = call[d]
  BY <1>0
<1>2. /\ \A t : Known(t, pairs) => Known(t, pairs')
      /\ \A p : CallFair(p, adminAt, pairs, clock) => CallFair(p, adminAt, pairs', clock)
  BY <1>0, FairStays
<1>3. CallsFair'
  BY <1>1, <1>2 DEF GInv, CallsFair
<1>4. /\ jar' \in CookieSet
      /\ Fair(jar'.access, adminAt) /\ Known(jar'.refresh, pairs') /\ OfOneSession(jar')
  <2>1. /\ call[c].set \in CookieSet
        /\ Fair(call[c].set.access, adminAt) /\ Known(call[c].set.refresh, pairs)
        /\ OfOneSession(call[c].set)
    BY <1>0 DEF GInv, CallsFair, CallFair, CallRecord
  <2>2. Fair(jar.access, adminAt) /\ Known(jar.refresh, pairs) /\ OfOneSession(jar)
    BY DEF GInv, TokensFair
  <2> QED
    BY <1>0, <1>2, <2>1, <2>2
<1>5. TokensFair'
  <2>1. \A a \in handed' : Fair(a, adminAt')
    BY DEF GInv, TokensFair
  <2>2. \A t \in live' : Known(t, pairs') /\ t # NoRefresh
    BY <1>2 DEF GInv, TokensFair
  <2>3. Fair(jar'.access, adminAt')
    BY <1>4
  <2> QED
    BY <1>4, <2>1, <2>2, <2>3 DEF TokensFair
<1>6. GatewayTypes' /\ RolesDated'
  <2>1. ended' \subseteq 1 .. pairs'
    BY <1>0
  <2> QED
    BY <1>1, <1>4, <2>1 DEF GInv, GatewayTypes, RolesDated
<1> QED
  BY <1>1, <1>3, <1>5, <1>6 DEF GInv

-----------------------------------------------------------------------------
(* What the steps make of a call. *)

LEMMA SendShape ==
  ASSUME GInv, NEW c \in Calls, NEW route \in Visited, NEW carried \in CookieSet,
         Send(c, route, carried)
  PROVE  \E q \in CallRecord :
           /\ call' = [call EXCEPT ![c] = q]
           /\ q.pc = "sent" /\ q.route = route /\ q.carried = carried
           /\ q.set = NoCookies /\ q.status = 0 /\ ~ q.sets
<1> DEFINE q == [NoCall EXCEPT !.pc = "sent", !.route = route, !.carried = carried]
<1>1. route \in Routes
  BY GatewayAssumption
<1>2. /\ q \in CallRecord
      /\ q.pc = "sent" /\ q.route = route /\ q.carried = carried
      /\ q.set = NoCookies /\ q.status = 0 /\ ~ q.sets
  BY <1>1, NothingIsTyped DEF CallRecord
<1>3. call' = [call EXCEPT ![c] = q]
  BY DEF Send
<1> HIDE DEF q
<1> QED
  BY <1>2, <1>3

LEMMA RespondShape ==
  ASSUME GInv, NEW c \in Calls, NEW status \in Nat, Respond(c, status)
  PROVE  \E q \in CallRecord :
           /\ call' = [call EXCEPT ![c] = q]
           /\ q.pc = "answered" /\ q.route = call[c].route /\ q.carried = call[c].carried
           /\ q.set = call[c].set /\ q.sets = call[c].sets
           /\ q.status = status /\ q.at = clock
<1> DEFINE q == [call[c] EXCEPT !.pc = "answered", !.status = status, !.at = clock]
<1>1. call[c] \in CallRecord /\ clock \in Nat /\ call \in [Calls -> CallRecord]
  BY DEF GInv, GatewayTypes
<1>2. /\ q \in CallRecord
      /\ q.pc = "answered" /\ q.route = call[c].route /\ q.carried = call[c].carried
      /\ q.set = call[c].set /\ q.sets = call[c].sets
      /\ q.status = status /\ q.at = clock
  BY <1>1 DEF CallRecord
<1>3. call' = [call EXCEPT ![c] = q]
  BY <1>1 DEF Respond
<1> HIDE DEF q
<1> QED
  BY <1>2, <1>3

LEMMA RespondWithShape ==
  ASSUME GInv, NEW c \in Calls, NEW status \in Nat, NEW cookies \in CookieSet,
         RespondWith(c, status, cookies)
  PROVE  \E q \in CallRecord :
           /\ call' = [call EXCEPT ![c] = q]
           /\ q.pc = "answered" /\ q.route = call[c].route /\ q.carried = NoCookies
           /\ q.set = cookies /\ q.sets
           /\ q.status = status /\ q.at = clock
<1> DEFINE q == [call[c] EXCEPT !.pc = "answered", !.status = status, !.at = clock,
                                !.carried = NoCookies, !.sets = TRUE, !.set = cookies]
<1>1. call[c] \in CallRecord /\ clock \in Nat /\ call \in [Calls -> CallRecord]
  BY DEF GInv, GatewayTypes
<1>2. /\ q \in CallRecord
      /\ q.pc = "answered" /\ q.route = call[c].route /\ q.carried = NoCookies
      /\ q.set = cookies /\ q.sets
      /\ q.status = status /\ q.at = clock
  BY <1>1, NothingIsTyped DEF CallRecord
<1>3. call' = [call EXCEPT ![c] = q]
  BY <1>1 DEF RespondWith
<1> HIDE DEF q
<1> QED
  BY <1>2, <1>3

(* The pair that is issued, of the session of origin, or of a new one.     *)
LEMMA IssuesShape ==
  ASSUME GInv, NEW c \in Calls, NEW user \in Owners, NEW role \in Roles,
         NEW origin \in 0 .. pairs, NEW kept, kept \subseteq live,
         role = "admin" => adminAt[user] = clock,
         call[c].route \notin Administrative,
         Issues(c, user, role, origin, 200, kept),
         UNCHANGED <<clock, admins, adminAt, ended, jar>>
  PROVE  /\ GInv' /\ pairs' = pairs + 1
         /\ \E q \in CallRecord :
              /\ call' = [call EXCEPT ![c] = q]
              /\ q.pc = "answered" /\ q.route = call[c].route /\ q.carried = NoCookies
              /\ q.set.refresh.session = IF origin = 0 THEN pairs + 1 ELSE origin
              /\ live' = kept \cup {q.set.refresh}
<1> DEFINE n == pairs + 1
           s == IF origin = 0 THEN n ELSE origin
           access == [user |-> user, role |-> role, session |-> s, until |-> clock + AccessLife]
           refresh == [user |-> user, number |-> n, session |-> s, until |-> clock + RefreshLife]
           cookies == [access |-> access, refresh |-> refresh]
<1>0. /\ pairs \in Nat /\ clock \in Nat /\ AccessLife \in Nat /\ RefreshLife \in Nat
      /\ Nobody \notin Owners /\ live \subseteq RefreshToken /\ handed \subseteq AccessToken
      /\ ended \subseteq 1 .. pairs /\ pairs <= n /\ n \in Nat
  BY GatewayAssumption DEF GInv, GatewayTypes
<1>1. /\ pairs' = n /\ live' = kept \cup {refresh} /\ handed' = handed \cup {access}
      /\ RespondWith(c, 200, cookies)
  BY DEF Issues
<1>2. s \in 1 .. n /\ s \in Nat
  BY <1>0
<1> HIDE DEF s, n
<1>3. /\ access \in AccessToken /\ refresh \in RefreshToken
      /\ access.user = user /\ access.role = role /\ access.session = s
      /\ access.until = clock + AccessLife
      /\ refresh.user = user /\ refresh.session = s
  BY <1>0, <1>2 DEF AccessToken, RefreshToken, Roles
<1>4. refresh # NoRefresh
  BY <1>0, <1>3 DEF NoRefresh
<1> HIDE DEF access, refresh
<1>5. cookies \in CookieSet /\ cookies.access = access /\ cookies.refresh = refresh
  BY <1>3 DEF CookieSet
<1> HIDE DEF cookies
<1>6. PICK q \in CallRecord :
           /\ call' = [call EXCEPT ![c] = q]
           /\ q.pc = "answered" /\ q.route = call[c].route /\ q.carried = NoCookies
           /\ q.set = cookies /\ q.sets
           /\ q.status = 200 /\ q.at = clock
  BY <1>1, <1>5, RespondWithShape
<1>7. Fair(access, adminAt) /\ Known(refresh, n)
  BY <1>0, <1>1, <1>2, <1>3 DEF Fair, Known
<1>8. OfOneSession(cookies)
  BY <1>3, <1>5 DEF OfOneSession
<1>9. CallFair(q, adminAt, n, clock)
  BY <1>5, <1>6, <1>7, <1>8, NothingIsTyped DEF CallFair, ServedFairly, Fair, Known
<1>10. GInv'
  <2>1. /\ \A t \in live' \ live : Known(t, n) /\ t # NoRefresh
        /\ \A a \in handed' \ handed : Fair(a, adminAt)
    BY <1>1, <1>4, <1>7
  <2>2. live' \subseteq RefreshToken /\ handed' \subseteq AccessToken
    BY <1>0, <1>1, <1>3
  <2>3. pairs' \in Nat /\ pairs <= pairs' /\ jar' \in {jar, call[c].set}
        /\ ended' \subseteq 1 .. pairs
    BY <1>0, <1>1
  <2>4. CallFair(q, adminAt, pairs', clock) /\ UNCHANGED <<clock, admins, adminAt>>
    BY <1>1, <1>9
  <2>5. \A t \in live' \ live : Known(t, pairs') /\ t # NoRefresh
    BY <1>1, <2>1
  <2> QED
    BY <1>6, <2>1, <2>2, <2>3, <2>4, <2>5, CallMoves
<1> QED
  BY <1>1, <1>3, <1>5, <1>6, <1>10 DEF n, s

-----------------------------------------------------------------------------
(* The refresh tokens of a session, and who has one of them. *)

LiveOf(s) == {t \in live : t.session = s}
Carries(q, s) == q.route \in Ending /\ q.carried.refresh.session = s
Gives(q, s) == q.set.refresh.session = s
Bears(q, s) == q.route \in Ending /\ (Carries(q, s) \/ Gives(q, s))

(* A sign-out or refresh on its way carries the session's last token.      *)
CarriedIsLast(s) ==
  \A c \in Calls : Carries(call[c], s) =>
    /\ LiveOf(s) \subseteq {call[c].carried.refresh}
    /\ jar.refresh.session = s => jar.refresh = call[c].carried.refresh

KeptIsLast(s) ==
  jar.refresh.session = s
    => LiveOf(s) \subseteq {jar.refresh} \/ \E c \in Calls : Bears(call[c], s)

GivenIsLast(s) ==
  \A c \in Calls : Gives(call[c], s) => LiveOf(s) \subseteq {call[c].set.refresh}

OneBearer(s) ==
  \A c, d \in Calls : Bears(call[c], s) /\ Bears(call[d], s) => c = d

(* Nobody has heard of a session whose first tokens are on their way.      *)
NewIsAlone(s) ==
  \A c \in Calls : Gives(call[c], s) /\ call[c].route \notin Ending =>
    /\ jar.refresh.session # s
    /\ \A d \in Calls \ {c} : ~ Bears(call[d], s) /\ ~ Gives(call[d], s)

OverIsOver(s) ==
  s \in ended =>
    /\ LiveOf(s) = {}
    /\ \A c \in Calls : Carries(call[c], s) => call[c].pc # "found"

Watched(s) ==
  /\ CarriedIsLast(s) /\ KeptIsLast(s) /\ GivenIsLast(s)
  /\ OneBearer(s) /\ NewIsAlone(s) /\ OverIsOver(s)

Sessions == \A s \in (1 .. pairs) \ crossed : Watched(s)

(* A call goes on without a token of s, or with the one it had.            *)
LEMMA QuietKeeps ==
  ASSUME GInv, NEW s, Watched(s), NEW c \in Calls, NEW q \in CallRecord,
         call' = [call EXCEPT ![c] = q], jar' = jar, LiveOf(s)' \subseteq LiveOf(s),
         s \in ended' => \/ s \in ended
                         \/ LiveOf(s)' = {} /\ Carries(call[c], s) /\ q.pc # "found",
         Carries(q, s) => /\ Carries(call[c], s)
                          /\ q.carried.refresh = call[c].carried.refresh
                          /\ q.pc = "found" => call[c].pc = "found" \/ LiveOf(s) # {},
         Gives(q, s) => /\ Gives(call[c], s) /\ q.set.refresh = call[c].set.refresh
                        /\ q.route = call[c].route,
         Gives(call[c], s) /\ call[c].route \in Ending => Gives(q, s)
  PROVE  Watched(s)'
<1>0. call'[c] = q /\ \A d \in Calls \ {c} : call'[d] = call[d]
  BY DEF GInv, GatewayTypes
<1> HIDE DEF LiveOf
<1>1. \A d \in Calls :
        /\ Carries(call'[d], s) => /\ Carries(call[d], s)
                                   /\ call'[d].carried.refresh = call[d].carried.refresh
        /\ Gives(call'[d], s) => /\ Gives(call[d], s) /\ call'[d].route = call[d].route
                                 /\ call'[d].set.refresh = call[d].set.refresh
        /\ Bears(call'[d], s) => Bears(call[d], s)
  BY <1>0 DEF Bears, Carries
<1>2. CarriedIsLast(s)'
  BY <1>1 DEF Watched, CarriedIsLast
<1>3. GivenIsLast(s)'
  BY <1>1 DEF Watched, GivenIsLast
<1>4. OneBearer(s)'
  BY <1>1 DEF Watched, OneBearer
<1>5. NewIsAlone(s)'
  BY <1>1 DEF Watched, NewIsAlone
<1>6. KeptIsLast(s)'
  <2> SUFFICES ASSUME jar.refresh.session = s, ~ LiveOf(s) \subseteq {jar.refresh}
               PROVE  \E d \in Calls : Bears(call'[d], s)
    BY DEF KeptIsLast
  <2>1. PICK d \in Calls : Bears(call[d], s)
    BY DEF Watched, KeptIsLast
  <2>2. ~ Carries(call[d], s)
    BY DEF Watched, CarriedIsLast
  <2> QED
    BY <1>0, <2>1, <2>2 DEF Bears
<1>7. OverIsOver(s)'
  <2> SUFFICES ASSUME s \in ended'
               PROVE  /\ LiveOf(s)' = {}
                      /\ \A d \in Calls : Carries(call'[d], s) => call'[d].pc # "found"
    BY DEF OverIsOver
  <2>1. CASE s \in ended
    BY <1>0, <1>1, <2>1 DEF Watched, OverIsOver
  <2>2. CASE LiveOf(s)' = {} /\ Carries(call[c], s) /\ q.pc # "found"
    <3>1. ASSUME NEW d \in Calls, Carries(call'[d], s)
          PROVE  d = c
      BY <1>1, <2>2, <3>1 DEF Watched, OneBearer, Bears, Carries
    <3> QED
      BY <1>0, <2>2, <3>1
  <2> QED
    BY <2>1, <2>2
<1> QED
  BY <1>2, <1>3, <1>4, <1>5, <1>6, <1>7 DEF Watched

(* A call that leaves every session that is watched yet as it was.         *)
LEMMA QuietSessions ==
  ASSUME GInv, Sessions, NEW c \in Calls, NEW q \in CallRecord,
         call' = [call EXCEPT ![c] = q], jar' = jar, pairs' = pairs, crossed \subseteq crossed',
         live' \subseteq live,
         \A s \in (1 .. pairs) \ crossed' :
           /\ s \in ended' => \/ s \in ended
                              \/ LiveOf(s)' = {} /\ Carries(call[c], s) /\ q.pc # "found"
           /\ Carries(q, s) => /\ Carries(call[c], s)
                               /\ q.carried.refresh = call[c].carried.refresh
                               /\ q.pc = "found" => call[c].pc = "found" \/ LiveOf(s) # {}
           /\ Gives(q, s) => /\ Gives(call[c], s) /\ q.set.refresh = call[c].set.refresh
                             /\ q.route = call[c].route
           /\ Gives(call[c], s) /\ call[c].route \in Ending => Gives(q, s)
  PROVE  Sessions'
<1>1. ASSUME NEW s \in (1 .. pairs) \ crossed'
      PROVE  Watched(s)'
  <2>1. Watched(s)
    BY DEF Sessions
  <2>2. LiveOf(s)' \subseteq LiveOf(s)
    BY DEF LiveOf
  <2> QED
    BY <2>1, <2>2, QuietKeeps
<1> QED
  BY <1>1 DEF Sessions

LEMMA CallFacts ==
  ASSUME GInv, NEW c \in Calls
  PROVE  /\ call[c] \in CallRecord /\ CallFair(call[c], adminAt, pairs, clock)
         /\ call[c].carried \in CookieSet /\ call[c].set \in CookieSet
         /\ call[c].carried.refresh \in RefreshToken /\ call[c].carried.access \in AccessToken
         /\ call[c].set.refresh \in RefreshToken
         /\ jar \in CookieSet /\ pairs \in Nat /\ clock \in Nat /\ pairs <= pairs
         /\ live \subseteq RefreshToken /\ handed \subseteq AccessToken
         /\ ended \subseteq 1 .. pairs
         /\ call \in [Calls -> CallRecord] /\ adminAt \in [Owners -> Nat]
<1>1. call[c] \in CallRecord
  BY DEF GInv, GatewayTypes
<1> QED
  BY <1>1 DEF GInv, GatewayTypes, CallsFair, CallRecord, CookieSet

-----------------------------------------------------------------------------
(* The steps of the gateway. *)

LEMMA DatesGrow ==
  ASSUME NEW dates \in [Owners -> Nat], NEW later \in [Owners -> Nat],
         \A u \in Owners : dates[u] <= later[u]
  PROVE  /\ \A a \in AccessToken : Fair(a, dates) => Fair(a, later)
         /\ \A q \in CallRecord : ServedFairly(q, dates) => ServedFairly(q, later)
<1>0. AccessLife \in Nat
  BY GatewayAssumption
<1>1. ASSUME NEW a \in AccessToken, Fair(a, dates)
      PROVE  Fair(a, later)
  <2>1. a.until \in Nat
    BY DEF AccessToken
  <2>2. a.user \in Owners => dates[a.user] \in Nat /\ later[a.user] \in Nat
    OBVIOUS
  <2> QED
    BY <1>0, <1>1, <2>1, <2>2 DEF Fair
<1>2. ASSUME NEW q \in CallRecord, ServedFairly(q, dates)
      PROVE  ServedFairly(q, later)
  <2>1. q.at \in Nat
    BY DEF CallRecord
  <2> DEFINE u == q.carried.access.user
  <2>2. u \in Owners => dates[u] \in Nat /\ later[u] \in Nat /\ dates[u] <= later[u]
    OBVIOUS
  <2> HIDE DEF u
  <2>3. (q.status = 200 /\ q.route \in Administrative)
          => u \in Owners /\ q.at < dates[u] + AccessLife
    BY <1>2 DEF ServedFairly, u
  <2>4. (q.status = 200 /\ q.route \in Administrative)
          => u \in Owners /\ q.at < later[u] + AccessLife
    BY <1>0, <2>1, <2>2, <2>3
  <2> QED
    BY <2>4 DEF ServedFairly, u
<1> QED
  BY <1>1, <1>2

LEMMA TypedTokens ==
  ASSUME GInv, NEW c \in Calls
  PROVE  /\ call[c].carried.access \in AccessToken /\ call[c].set.access \in AccessToken
         /\ jar.access \in AccessToken /\ jar.refresh \in RefreshToken
BY CallFacts DEF CookieSet

(* The two steps outside the handlers: nothing comes to anybody's hands.   *)
LEMMA ClockKeeps ==
  ASSUME GInv, Sessions, ChangeRole \/ Elapse
  PROVE  GInv' /\ Sessions'
<1>0. /\ clock \in Nat /\ clock' \in Nat /\ clock <= clock'
      /\ UNCHANGED <<live, pairs, ended, crossed, handed, call>>
      /\ jar' = jar \/ jar' = [access |-> Kept(jar.access, NoAccess, clock'),
                               refresh |-> Kept(jar.refresh, NoRefresh, clock')]
      /\ jar \in CookieSet /\ adminAt \in [Owners -> Nat]
      /\ clock' = clock \/ \A c \in Calls : call[c].pc \in {"idle", "sent"}
  BY DEF GInv, GatewayTypes, ChangeRole, Elapse, sessions
<1>1. /\ adminAt' \in [Owners -> Nat] /\ admins' \subseteq Owners
      /\ \A u \in Owners :
           /\ adminAt[u] <= adminAt'[u] /\ adminAt'[u] <= clock'
           /\ u \in admins' => adminAt'[u] = clock'
           /\ clock' = clock /\ adminAt[u] = clock => adminAt'[u] = clock
  <2>1. \A u \in Owners : adminAt[u] \in Nat /\ adminAt[u] <= clock
    BY DEF GInv, GatewayTypes, RolesDated
  <2>2. CASE ChangeRole
    <3>1. admins' \subseteq Owners
      BY <2>2 DEF ChangeRole, GInv, GatewayTypes
    <3>2. adminAt' = [u \in Owners |-> IF u \in admins \cup admins' THEN clock ELSE adminAt[u]]
          /\ clock' = clock
      BY <2>2 DEF ChangeRole
    <3> QED
      BY <1>0, <2>1, <3>1, <3>2
  <2>3. CASE Elapse
    <3>1. adminAt' = [u \in Owners |-> IF u \in admins THEN clock' ELSE adminAt[u]]
          /\ clock' = clock + 1 /\ admins' = admins
      BY <2>3 DEF Elapse
    <3>2. admins \subseteq Owners
      BY DEF GInv, GatewayTypes
    <3> QED
      BY <1>0, <2>1, <3>1, <3>2
  <2> QED
    BY <2>2, <2>3
<1>2. jar' \in CookieSet /\ jar'.access \in {jar.access, NoAccess}
      /\ jar'.refresh \in {jar.refresh, NoRefresh}
  BY <1>0, NothingIsTyped DEF CookieSet, Kept
<1>3. /\ \A a \in AccessToken : Fair(a, adminAt) => Fair(a, adminAt')
      /\ \A q \in CallRecord : ServedFairly(q, adminAt) => ServedFairly(q, adminAt')
  BY <1>0, <1>1, DatesGrow
<1>4. GatewayTypes' /\ RolesDated'
  <2>1. /\ pairs \in Nat /\ live \subseteq RefreshToken /\ handed \subseteq AccessToken
        /\ call \in [Calls -> CallRecord] /\ ended \subseteq 1 .. pairs
    BY DEF GInv, GatewayTypes
  <2> QED
    BY <1>0, <1>1, <1>2, <2>1 DEF GatewayTypes, RolesDated
<1>5. TokensFair'
  <2>1. /\ handed \subseteq AccessToken /\ jar.access \in AccessToken
        /\ \A a \in handed : Fair(a, adminAt)
        /\ \A t \in live : Known(t, pairs) /\ t # NoRefresh
        /\ Fair(jar.access, adminAt) /\ Known(jar.refresh, pairs) /\ OfOneSession(jar)
    BY <1>0 DEF GInv, TokensFair, GatewayTypes, CookieSet
  <2>2. Fair(jar'.access, adminAt')
    BY <1>2, <1>3, <2>1 DEF Fair
  <2>3. Known(jar'.refresh, pairs')
    BY <1>0, <1>2, <2>1 DEF Known
  <2>4. OfOneSession(jar')
    BY <1>2, <2>1 DEF OfOneSession
  <2> QED
    BY <1>0, <1>3, <2>1, <2>2, <2>3, <2>4 DEF TokensFair
<1>6. CallsFair'
  <2>1. ASSUME NEW c \in Calls
        PROVE  CallFair(call[c], adminAt', pairs, clock')
    <3> DEFINE q == call[c]
               u == q.carried.refresh.user
    <3>1. /\ q \in CallRecord /\ CallFair(q, adminAt, pairs, clock)
          /\ q.carried.access \in AccessToken /\ q.set.access \in AccessToken
      BY CallFacts, TypedTokens
    <3>2. /\ Fair(q.carried.access, adminAt') /\ Fair(q.set.access, adminAt')
          /\ ServedFairly(q, adminAt')
      BY <1>3, <3>1 DEF CallFair
    <3>3. q.pc = "found" /\ q.role = "admin" => adminAt'[u] = clock'
      <4>1. q.pc = "found" => clock' = clock
        BY <1>0
      <4>2. q.pc = "found" => u \in Owners
        BY <3>1 DEF CallFair, Known
      <4> QED
        BY <1>1, <3>1, <4>1, <4>2 DEF CallFair
    <3> QED
      BY <3>1, <3>2, <3>3 DEF CallFair
  <2> QED
    BY <1>0, <2>1 DEF CallsFair
<1>7. Sessions'
  <2>1. ASSUME NEW s \in (1 .. pairs) \ crossed
        PROVE  Watched(s)'
    <3>1. Watched(s)
      BY DEF Sessions
    <3>2. jar'.refresh.session = s => jar'.refresh = jar.refresh
      BY <1>2, NothingIsTyped
    <3>3. LiveOf(s)' = LiveOf(s)
      BY <1>0 DEF LiveOf
    <3>4. KeptIsLast(s)' /\ CarriedIsLast(s)' /\ NewIsAlone(s)'
      BY <1>0, <3>1, <3>2, <3>3 DEF Watched, KeptIsLast, CarriedIsLast, NewIsAlone
    <3>5. GivenIsLast(s)' /\ OneBearer(s)' /\ OverIsOver(s)'
      BY <1>0, <3>1, <3>3 DEF Watched, GivenIsLast, OneBearer, OverIsOver
    <3> QED
      BY <3>4, <3>5 DEF Watched
  <2> QED
    BY <1>0, <2>1 DEF Sessions
<1> QED
  BY <1>4, <1>5, <1>6, <1>7 DEF GInv

(* A call that is sent, without a token that its route would end.          *)
LEMMA SendKeeps ==
  ASSUME GInv, NEW c \in Calls, NEW route \in Visited, NEW carried \in CookieSet,
         Send(c, route, carried),
         Fair(carried.access, adminAt), Known(carried.refresh, pairs),
         UNCHANGED <<clock, admins, adminAt, live, pairs, ended, jar, handed>>
  PROVE  /\ GInv'
         /\ \E q \in CallRecord :
              /\ call' = [call EXCEPT ![c] = q] /\ call'[c] = q
              /\ \A d \in Calls \ {c} : call'[d] = call[d]
              /\ q.route = route /\ q.carried = carried /\ q.set = NoCookies
              /\ q.pc = "sent"
<1>1. PICK q \in CallRecord :
           /\ call' = [call EXCEPT ![c] = q]
           /\ q.pc = "sent" /\ q.route = route /\ q.carried = carried
           /\ q.set = NoCookies /\ q.status = 0 /\ ~ q.sets
  BY SendShape
<1>2. CallFair(q, adminAt, pairs, clock)
  BY <1>1, NothingIsTyped DEF CallFair, Fair, Known, ServedFairly
<1>3. /\ pairs' \in Nat /\ pairs <= pairs' /\ pairs' = pairs
      /\ live' \subseteq RefreshToken /\ handed' \subseteq AccessToken
      /\ ended' \subseteq 1 .. pairs
  BY CallFacts
<1>4. GInv' /\ call'[c] = q /\ \A d \in Calls \ {c} : call'[d] = call[d]
  <2>1. CallFair(q, adminAt, pairs', clock) /\ jar' \in {jar, call[c].set}
    BY <1>2, <1>3
  <2>2. /\ \A t \in live' \ live : Known(t, pairs') /\ t # NoRefresh
        /\ \A a \in handed' \ handed : Fair(a, adminAt)
        /\ UNCHANGED <<clock, admins, adminAt>>
    OBVIOUS
  <2> QED
    BY <1>1, <1>3, <2>1, <2>2, CallMoves
<1> QED
  BY <1>1, <1>4

LEMMA SendBearerKeeps ==
  ASSUME GInv, Sessions, NEW c \in Calls, SendBearer(c)
  PROVE  GInv' /\ Sessions'
<1>1. PICK route \in Visited \ Unguarded, token \in handed \cup {NoAccess} :
        Send(c, route, [NoCookies EXCEPT !.access = token])
  BY DEF SendBearer
<1> DEFINE carried == [NoCookies EXCEPT !.access = token]
<1>2. token \in AccessToken /\ Fair(token, adminAt)
  BY NothingIsTyped DEF GInv, GatewayTypes, TokensFair, Fair
<1>3. carried \in CookieSet /\ carried.access = token /\ carried.refresh = NoRefresh
  BY <1>2, NothingIsTyped DEF CookieSet
<1> HIDE DEF carried
<1>4. UNCHANGED <<clock, admins, adminAt, live, pairs, ended, crossed, jar, handed>>
  BY DEF SendBearer, sessions
<1>5. Known(carried.refresh, pairs)
  BY <1>3 DEF Known
<1>6. Send(c, route, carried)
  BY <1>1 DEF carried
<1>7. /\ GInv'
      /\ \E q \in CallRecord :
              /\ call' = [call EXCEPT ![c] = q] /\ call'[c] = q
              /\ \A d \in Calls \ {c} : call'[d] = call[d]
              /\ q.route = route /\ q.carried = carried /\ q.set = NoCookies
              /\ q.pc = "sent"
  BY <1>2, <1>3, <1>4, <1>5, <1>6, SendKeeps
<1>8. call[c] = NoCall
  BY <1>1 DEF Send
<1>9. \A s \in 1 .. pairs : s # 0
  BY CallFacts
<1>10. PICK q \in CallRecord :
              /\ call' = [call EXCEPT ![c] = q]
              /\ q.route = route /\ q.carried = carried /\ q.set = NoCookies
  BY <1>7
<1>11. ASSUME NEW s \in (1 .. pairs) \ crossed'
      PROVE  ~ Carries(q, s) /\ ~ Gives(q, s) /\ ~ Gives(call[c], s)
  BY <1>3, <1>8, <1>9, <1>10, NothingIsTyped DEF Carries, Gives
<1>12. jar' = jar /\ pairs' = pairs /\ crossed \subseteq crossed' /\ live' \subseteq live
       /\ ended' = ended
  BY <1>4
<1>13. Sessions'
  BY <1>10, <1>11, <1>12, QuietSessions
<1> QED
  BY <1>7, <1>13

(* The browser sends what it keeps: a sign-out or a refresh that meets     *)
(* another of its session is crossed, and else has its last token.         *)
LEMMA BrowseKeeps ==
  ASSUME GInv, Sessions, NEW c \in Calls, Browse(c)
  PROVE  GInv' /\ Sessions'
<1>1. PICK route \in Visited :
        /\ Send(c, route, jar)
        /\ crossed' = crossed \cup
             {s \in 1 .. pairs : \E d \in Calls \ {c} :
                /\ route \in Ending /\ s = jar.refresh.session
                /\ call[d].route \in Ending
                /\ s \in {call[d].carried.refresh.session, call[d].set.refresh.session}}
  BY DEF Browse
<1>2. /\ UNCHANGED <<clock, admins, adminAt, live, pairs, ended, jar, handed>>
      /\ call[c] = NoCall
  BY <1>1 DEF Browse, Send
<1>3. jar \in CookieSet /\ Fair(jar.access, adminAt) /\ Known(jar.refresh, pairs)
  BY DEF GInv, GatewayTypes, TokensFair
<1>4. /\ GInv'
      /\ \E q \in CallRecord :
              /\ call' = [call EXCEPT ![c] = q] /\ call'[c] = q
              /\ \A d \in Calls \ {c} : call'[d] = call[d]
              /\ q.route = route /\ q.carried = jar /\ q.set = NoCookies
              /\ q.pc = "sent"
  BY <1>1, <1>2, <1>3, SendKeeps
<1>5. PICK q \in CallRecord :
              /\ call' = [call EXCEPT ![c] = q] /\ call'[c] = q
              /\ \A d \in Calls \ {c} : call'[d] = call[d]
              /\ q.route = route /\ q.carried = jar /\ q.set = NoCookies
              /\ q.pc = "sent"
  BY <1>4
<1>6. ASSUME NEW s \in (1 .. pairs) \ crossed'
      PROVE  Watched(s)'
  <2>1. /\ Watched(s) /\ s # 0 /\ LiveOf(s)' = LiveOf(s)
        /\ ~ Bears(call[c], s) /\ ~ Gives(call[c], s) /\ ~ Gives(q, s)
    <3>1. Watched(s) /\ LiveOf(s)' = LiveOf(s)
      BY <1>1, <1>2 DEF Sessions, LiveOf
    <3>2. s # 0
      BY CallFacts
    <3> QED
      BY <1>2, <1>5, <3>1, <3>2, NothingIsTyped DEF Bears, Carries, Gives
  <2>2. CASE route \in Ending /\ jar.refresh.session = s
    <3>1. \A d \in Calls \ {c} : ~ Bears(call[d], s)
      BY <1>1, <2>2 DEF Bears, Carries, Gives
    <3>2. \A d \in Calls : ~ Bears(call[d], s)
      BY <2>1, <3>1
    <3>3. LiveOf(s) \subseteq {jar.refresh}
      BY <2>1, <2>2, <3>2 DEF Watched, KeptIsLast
    <3>4. \A d \in Calls \ {c} : call'[d] = call[d]
      BY <1>5
    <3>5. CarriedIsLast(s)'
      <4>1. \A d \in Calls : Carries(call'[d], s) => call'[d].carried = jar
        BY <1>5, <3>1 DEF Carries, Bears
      <4> QED
        BY <1>2, <2>1, <3>3, <4>1 DEF CarriedIsLast
    <3>6. KeptIsLast(s)'
      BY <1>2, <2>1, <3>3 DEF KeptIsLast
    <3>7. GivenIsLast(s)'
      BY <1>5, <2>1 DEF Watched, GivenIsLast
    <3>8. OneBearer(s)'
      BY <1>5, <3>1 DEF OneBearer
    <3>9. NewIsAlone(s)'
      BY <1>2, <1>5, <2>1, <2>2 DEF Watched, NewIsAlone
    <3>10. OverIsOver(s)'
      BY <1>2, <1>5, <2>1 DEF Watched, OverIsOver
    <3> QED
      BY <3>5, <3>6, <3>7, <3>8, <3>9, <3>10 DEF Watched
  <2>3. CASE ~ (route \in Ending /\ jar.refresh.session = s)
    <3>1. ~ Carries(q, s)
      BY <1>5, <2>3 DEF Carries
    <3> QED
      BY <1>2, <1>5, <2>1, <3>1, QuietKeeps
  <2> QED
    BY <2>2, <2>3
<1> QED
  BY <1>2, <1>4, <1>6 DEF Sessions

(* An answer without cookies: the call keeps what it carries, and at most  *)
(* its own token is gone.                                                  *)
LEMMA RespondKeeps ==
  ASSUME GInv, Sessions, NEW c \in Calls, NEW status \in Nat, Respond(c, status),
         call[c].pc # "answered", live' \subseteq live,
         UNCHANGED <<clock, admins, adminAt, pairs, ended, crossed, jar, handed>>,
         (status = 200 /\ call[c].route \in Administrative)
           => /\ call[c].carried.access.user \in Owners
              /\ clock < adminAt[call[c].carried.access.user] + AccessLife
  PROVE  GInv' /\ Sessions'
<1>1. PICK q \in CallRecord :
           /\ call' = [call EXCEPT ![c] = q]
           /\ q.pc = "answered" /\ q.route = call[c].route /\ q.carried = call[c].carried
           /\ q.set = call[c].set /\ q.sets = call[c].sets
           /\ q.status = status /\ q.at = clock
  BY RespondShape
<1>2. CallFair(call[c], adminAt, pairs, clock)
  BY CallFacts
<1>3. CallFair(q, adminAt, pairs, clock)
  BY <1>1, <1>2 DEF CallFair, ServedFairly
<1>4. GInv'
  <2>1. /\ CallFair(q, adminAt, pairs', clock) /\ jar' \in {jar, call[c].set}
        /\ pairs' \in Nat /\ pairs <= pairs' /\ live' \subseteq RefreshToken
        /\ handed' \subseteq AccessToken /\ ended' \subseteq 1 .. pairs
    BY <1>3, CallFacts
  <2>2. /\ \A t \in live' \ live : Known(t, pairs') /\ t # NoRefresh
        /\ \A a \in handed' \ handed : Fair(a, adminAt)
        /\ UNCHANGED <<clock, admins, adminAt>>
    OBVIOUS
  <2> QED
    BY <1>1, <2>1, <2>2, CallMoves
<1>5. ASSUME NEW s
      PROVE  /\ Carries(q, s) => Carries(call[c], s)
             /\ Gives(q, s) <=> Gives(call[c], s)
  BY <1>1 DEF Carries, Gives
<1>6. Sessions'
  BY <1>1, <1>5, QuietSessions
<1> QED
  BY <1>4, <1>6

LEMMA HandleKeeps ==
  ASSUME GInv, Sessions, NEW c \in Calls, Handle(c)
  PROVE  GInv' /\ Sessions'
<1> DEFINE token == call[c].carried.access
           guard == Guard(call[c].route)
           status == CASE guard \in {"auth", "admin"} /\ ~ Valid(token) -> 401
                       [] guard = "admin" /\ Valid(token) /\ token.role # "admin" -> 403
                       [] OTHER -> 200
<1>1. /\ Respond(c, status) /\ call[c].pc = "sent"
      /\ UNCHANGED <<clock, admins, adminAt, live, pairs, ended, crossed, jar, handed>>
  BY DEF Handle, sessions
<1>2. status \in Nat
  OBVIOUS
<1>3. status = 200 /\ call[c].route \in Administrative => Valid(token) /\ token.role = "admin"
  <2>1. call[c].route \in Administrative => guard = "admin"
    BY DEF Guard, Administrative, Unguarded
  <2> QED
    BY <2>1
<1> HIDE DEF status
<1>4. token \in AccessToken /\ Fair(token, adminAt) /\ clock \in Nat
      /\ adminAt \in [Owners -> Nat] /\ AccessLife \in Nat
  BY CallFacts, GatewayAssumption DEF CallFair
<1> HIDE DEF token
<1>5. status = 200 /\ call[c].route \in Administrative
        => token.user \in Owners /\ clock < adminAt[token.user] + AccessLife
  <2> SUFFICES ASSUME status = 200, call[c].route \in Administrative
               PROVE  token.user \in Owners /\ clock < adminAt[token.user] + AccessLife
    OBVIOUS
  <2>1. token.user \in Owners /\ token.until <= adminAt[token.user] + AccessLife
        /\ clock < token.until
    BY <1>3, <1>4 DEF Valid, Fair
  <2>2. token.until \in Nat /\ adminAt[token.user] \in Nat
    BY <1>4, <2>1 DEF AccessToken
  <2> QED
    BY <1>4, <2>1, <2>2
<1> QED
  BY <1>1, <1>2, <1>5, RespondKeeps DEF token

LEMMA SignInKeeps ==
  ASSUME GInv, Sessions, NEW c \in Calls, SignIn(c)
  PROVE  GInv' /\ Sessions'
<1>1. /\ call[c].pc = "sent" /\ call[c].route \notin Administrative
      /\ call[c].route \notin Ending
      /\ UNCHANGED <<clock, admins, adminAt, ended, crossed, jar>>
  BY RoutesApart DEF SignIn
<1>2. CASE Respond(c, 401) /\ UNCHANGED <<live, pairs, handed>>
  BY <1>1, <1>2, RespondKeeps
<1>3. ASSUME NEW u \in Owners, Issues(c, u, RoleOf(u), 0, 200, live)
      PROVE  GInv' /\ Sessions'
  <2> DEFINE role == RoleOf(u)
  <2>1. /\ role \in Roles /\ 0 \in 0 .. pairs
        /\ role = "admin" => adminAt[u] = clock
    BY CallFacts DEF RoleOf, Roles, GInv, RolesDated
  <2>2. Issues(c, u, role, 0, 200, live)
    BY <1>3
  <2> HIDE DEF role
  <2>3. /\ GInv' /\ pairs' = pairs + 1
        /\ \E q \in CallRecord :
              /\ call' = [call EXCEPT ![c] = q]
              /\ q.pc = "answered" /\ q.route = call[c].route /\ q.carried = NoCookies
              /\ q.set.refresh.session = IF 0 = 0 THEN pairs + 1 ELSE 0
              /\ live' = live \cup {q.set.refresh}
    BY <1>1, <2>1, <2>2, IssuesShape
  <2>4. PICK q \in CallRecord :
              /\ call' = [call EXCEPT ![c] = q]
              /\ q.pc = "answered" /\ q.route = call[c].route /\ q.carried = NoCookies
              /\ q.set.refresh.session = pairs + 1
              /\ live' = live \cup {q.set.refresh}
    BY <2>3
  <2>5. /\ pairs \in Nat /\ ended \subseteq 1 .. pairs
        /\ call'[c] = q /\ \A d \in Calls \ {c} : call'[d] = call[d]
        /\ call[c].set = NoCookies
    BY <1>1, <2>4, CallFacts DEF CallFair
  <2>6. ASSUME NEW s \in (1 .. pairs) \ crossed
        PROVE  Watched(s)'
    <3>1. Watched(s) /\ s # 0 /\ s # pairs + 1
      BY <2>5 DEF Sessions
    <3>2. ~ Carries(q, s) /\ ~ Gives(q, s) /\ ~ Gives(call[c], s)
      BY <2>4, <2>5, <3>1, NothingIsTyped DEF Carries, Gives
    <3>3. LiveOf(s)' \subseteq LiveOf(s)
      BY <2>4, <3>1 DEF LiveOf
    <3> QED
      BY <1>1, <2>4, <3>1, <3>2, <3>3, QuietKeeps
  <2>9. PICK n : n = pairs + 1
    OBVIOUS
  <2>7. Watched(n)'
    <3>1. /\ \A t \in live : t.session # n
          /\ \A d \in Calls : call[d].carried.refresh.session # n
                              /\ call[d].set.refresh.session # n
          /\ jar.refresh.session # n
      <4>1. \A t : Known(t, pairs) => t.session # n
        BY <2>5, <2>9, NothingIsTyped DEF Known
      <4>2. \A d \in Calls : Known(call[d].carried.refresh, pairs)
                             /\ Known(call[d].set.refresh, pairs)
        BY CallFacts DEF CallFair
      <4> QED
        BY <4>1, <4>2 DEF GInv, TokensFair
    <3>2. /\ \A d \in Calls \ {c} : ~ Carries(call'[d], n) /\ ~ Gives(call'[d], n)
                                    /\ ~ Bears(call'[d], n)
          /\ ~ Carries(call'[c], n) /\ ~ Bears(call'[c], n)
          /\ call'[c].route \notin Ending
          /\ LiveOf(n)' \subseteq {call'[c].set.refresh}
          /\ jar'.refresh.session # n /\ n \notin ended'
      <4>1. \A d \in Calls \ {c} : ~ Carries(call'[d], n) /\ ~ Gives(call'[d], n)
                                   /\ ~ Bears(call'[d], n)
        BY <2>5, <3>1 DEF Carries, Gives, Bears
      <4>2. /\ call'[c].route \notin Ending /\ ~ Carries(call'[c], n) /\ ~ Bears(call'[c], n)
            /\ jar'.refresh.session # n
        BY <1>1, <2>4, <2>5, <3>1 DEF Carries, Bears
      <4>3. n \notin ended'
        BY <1>1, <2>5, <2>9
      <4>4. LiveOf(n)' \subseteq {call'[c].set.refresh}
        BY <2>4, <2>5, <3>1 DEF LiveOf
      <4> QED
        BY <4>1, <4>2, <4>3, <4>4
    <3>3. CarriedIsLast(n)' /\ KeptIsLast(n)'
      BY <3>2 DEF CarriedIsLast, KeptIsLast
    <3>4. GivenIsLast(n)'
      BY <3>2 DEF GivenIsLast
    <3>5. OneBearer(n)' /\ NewIsAlone(n)' /\ OverIsOver(n)'
      BY <3>2 DEF OneBearer, NewIsAlone, OverIsOver
    <3> QED
      BY <3>3, <3>4, <3>5 DEF Watched
  <2>8. 1 .. pairs' = (1 .. pairs) \cup {n}
    BY <2>3, <2>5, <2>9
  <2> QED
    BY <1>1, <2>3, <2>6, <2>7, <2>8 DEF Sessions
<1> QED
  BY <1>2, <1>3 DEF SignIn

LEMMA LookUpKeeps ==
  ASSUME GInv, Sessions, NEW c \in Calls, LookUp(c)
  PROVE  GInv' /\ Sessions'
<1> DEFINE token == call[c].carried.refresh
<1>1. /\ call[c].pc = "sent" /\ call[c].route = "POST /auth/refresh"
      /\ UNCHANGED <<clock, admins, adminAt, pairs, ended, crossed, jar, handed>>
  BY DEF LookUp
<1>2. CASE token \notin live \/ token.until <= clock
  <2>1. Respond(c, 401) /\ live' = live \ {token}
    BY <1>2 DEF LookUp
  <2>2. live' \subseteq live
    BY <2>1
  <2>3. PICK status \in Nat : status = 401
    OBVIOUS
  <2>4. call[c].pc # "answered" /\ call[c].route \notin Administrative
    BY <1>1, RoutesApart
  <2>5. Respond(c, status)
    BY <2>1, <2>3
  <2> QED
    BY <1>1, <2>2, <2>4, <2>5, RespondKeeps
<1>3. CASE ~ (token \notin live \/ token.until <= clock)
  <2> DEFINE role == RoleOf(token.user)
             q == [call[c] EXCEPT !.pc = "found", !.role = role]
  <2>1. call' = [call EXCEPT ![c].pc = "found", ![c].role = role] /\ UNCHANGED live
    BY <1>3 DEF LookUp
  <2>2. /\ token \in live /\ token # NoRefresh /\ token.user \in Owners
        /\ role \in {"admin", "customer"}
        /\ role = "admin" => adminAt[token.user] = clock
    <3>1. token \in live /\ token # NoRefresh /\ Known(token, pairs)
      BY <1>3 DEF GInv, TokensFair
    <3> QED
      BY <3>1 DEF Known, RoleOf, GInv, RolesDated
  <2> HIDE DEF role
  <2>3. /\ call[c] \in CallRecord /\ call \in [Calls -> CallRecord]
        /\ CallFair(call[c], adminAt, pairs, clock)
    BY CallFacts
  <2>4. /\ q \in CallRecord
        /\ q.pc = "found" /\ q.role = role /\ q.route = call[c].route
        /\ q.carried = call[c].carried /\ q.set = call[c].set /\ q.sets = call[c].sets
        /\ q.status = call[c].status
    BY <2>2, <2>3 DEF CallRecord, Roles
  <2>5. call' = [call EXCEPT ![c] = q]
    BY <2>1, <2>3
  <2> HIDE DEF q
  <2>6. CallFair(q, adminAt, pairs, clock)
    <3>1. ServedFairly(q, adminAt)
      BY <1>1, <2>4, RoutesApart DEF ServedFairly
    <3>2. /\ q.set = NoCookies /\ q.status = 0 /\ ~ q.sets
      BY <1>1, <2>3, <2>4 DEF CallFair
    <3>3. q.role = "admin" => adminAt[q.carried.refresh.user] = clock
      BY <2>2, <2>4
    <3>4. q.route = "POST /auth/refresh" /\ q.carried.refresh # NoRefresh
      BY <1>1, <2>2, <2>4
    <3>5. /\ Fair(q.carried.access, adminAt) /\ Known(q.carried.refresh, pairs)
          /\ Fair(q.set.access, adminAt) /\ Known(q.set.refresh, pairs) /\ OfOneSession(q.set)
      BY <2>3, <2>4 DEF CallFair
    <3> QED
      BY <2>4, <3>1, <3>2, <3>3, <3>4, <3>5 DEF CallFair
  <2>7. GInv'
    <3>1. /\ CallFair(q, adminAt, pairs', clock) /\ jar' \in {jar, call[c].set}
          /\ pairs' \in Nat /\ pairs <= pairs' /\ live' \subseteq RefreshToken
          /\ handed' \subseteq AccessToken /\ ended' \subseteq 1 .. pairs
      BY <1>1, <2>1, <2>6, CallFacts
    <3>2. /\ \A t \in live' \ live : Known(t, pairs') /\ t # NoRefresh
          /\ \A a \in handed' \ handed : Fair(a, adminAt)
          /\ UNCHANGED <<clock, admins, adminAt>>
      BY <1>1, <2>1
    <3> QED
      BY <2>4, <2>5, <3>1, <3>2, CallMoves
  <2>8. ASSUME NEW s
        PROVE  /\ Carries(q, s) => Carries(call[c], s) /\ LiveOf(s) # {}
               /\ Gives(q, s) <=> Gives(call[c], s)
    BY <2>2, <2>4 DEF Carries, Gives, LiveOf
  <2>9. Sessions'
    BY <1>1, <2>1, <2>4, <2>5, <2>8, QuietSessions
  <2> QED
    BY <2>7, <2>9
<1> QED
  BY <1>2, <1>3

(* The token is rotated: nobody else had one of its session, and the one   *)
(* that is issued is its last.                                             *)
LEMMA RotateKeeps ==
  ASSUME GInv, Sessions, NEW c \in Calls, Rotate(c)
  PROVE  GInv' /\ Sessions'
<1> DEFINE token == call[c].carried.refresh
           role == call[c].role
<1>1. /\ call[c].pc = "found" /\ call[c].route = "POST /auth/refresh"
      /\ call[c].route \notin Administrative /\ call[c].route \in Ending
      /\ token # NoRefresh /\ token.user \in Owners /\ token.session \in 1 .. pairs
      /\ role = "admin" => adminAt[token.user] = clock
      /\ call[c].set = NoCookies
      /\ UNCHANGED <<clock, admins, adminAt, ended, crossed, jar>>
  BY CallFacts, RoutesApart DEF Rotate, CallFair, Known, Ending
<1>4. /\ pairs \in Nat /\ ended \subseteq 1 .. pairs
  BY CallFacts
<1>5. PICK origin : origin = token.session
  OBVIOUS
<1>6. origin \in 1 .. pairs /\ origin # 0 /\ origin \in 0 .. pairs
  <2>1. origin \in 1 .. pairs
    BY <1>1, <1>5
  <2> QED
    BY <1>4, <2>1
<1>2. CASE Respond(c, 500) /\ live' \in {live, live \ {token}} /\ UNCHANGED <<pairs, handed>>
  <2>1. PICK status \in Nat : status = 500
    OBVIOUS
  <2>2. Respond(c, status) /\ live' \subseteq live
    BY <1>2, <2>1
  <2> QED
    BY <1>1, <1>2, <2>2, RespondKeeps
<1>3. CASE Issues(c, token.user, role, token.session, 200, live \ {token})
  <2>1. PICK kept : kept = live \ {token}
    OBVIOUS
  <2>0. Issues(c, token.user, role, origin, 200, kept) /\ kept \subseteq live
    BY <1>3, <1>5, <2>1
  <2>2. role \in Roles
    BY CallFacts DEF CallRecord
  <2>3. /\ GInv' /\ pairs' = pairs + 1
        /\ \E q \in CallRecord :
              /\ call' = [call EXCEPT ![c] = q]
              /\ q.pc = "answered" /\ q.route = call[c].route /\ q.carried = NoCookies
              /\ q.set.refresh.session = IF origin = 0 THEN pairs + 1 ELSE origin
              /\ live' = kept \cup {q.set.refresh}
    <3>1. PICK user \in Owners : user = token.user
      BY <1>1
    <3>2. PICK found \in Roles : found = role
      BY <2>2
    <3>3. /\ found = "admin" => adminAt[user] = clock
          /\ call[c].route \notin Administrative
          /\ UNCHANGED <<clock, admins, adminAt, ended, jar>>
      BY <1>1, <3>1, <3>2
    <3>4. Issues(c, user, found, origin, 200, kept)
      BY <2>0, <3>1, <3>2
    <3> QED
      BY <1>6, <2>0, <3>3, <3>4, IssuesShape
  <2>4. PICK q \in CallRecord :
              /\ call' = [call EXCEPT ![c] = q]
              /\ q.pc = "answered" /\ q.route = call[c].route /\ q.carried = NoCookies
              /\ q.set.refresh.session = token.session
              /\ live' = (live \ {token}) \cup {q.set.refresh}
    BY <1>5, <1>6, <2>1, <2>3
  <2>5. /\ pairs \in Nat /\ ended \subseteq 1 .. pairs /\ token.session # 0
        /\ call'[c] = q /\ \A d \in Calls \ {c} : call'[d] = call[d]
    <3>1. call \in [Calls -> CallRecord]
      BY CallFacts
    <3> QED
      BY <1>4, <1>5, <1>6, <2>4, <3>1
  <2>6. ASSUME NEW s \in (1 .. pairs) \ crossed, s # token.session
        PROVE  Watched(s)'
    <3>1. Watched(s) /\ s # 0
      BY <2>5 DEF Sessions
    <3>2. ~ Carries(q, s) /\ ~ Gives(q, s) /\ ~ Gives(call[c], s)
      BY <1>1, <2>4, <2>6, <3>1, NothingIsTyped DEF Carries, Gives
    <3>3. LiveOf(s)' \subseteq LiveOf(s)
      BY <2>4, <2>6 DEF LiveOf
    <3> QED
      BY <1>1, <2>4, <3>1, <3>2, <3>3, QuietKeeps
  <2>7. ASSUME NEW s, s = token.session, s \notin crossed
        PROVE  Watched(s)'
    <3>1. /\ Watched(s) /\ Carries(call[c], s) /\ Bears(call[c], s) /\ s # 0
      BY <1>1, <2>5, <2>7 DEF Sessions, Carries, Bears
    <3>2. /\ ~ Carries(call'[c], s) /\ Bears(call'[c], s)
          /\ LiveOf(s)' \subseteq {call'[c].set.refresh}
          /\ s \notin ended'
      <4>1. LiveOf(s) \subseteq {token}
        BY <3>1 DEF Watched, CarriedIsLast
      <4>2. LiveOf(s)' \subseteq {q.set.refresh}
        BY <2>4, <4>1 DEF LiveOf
      <4>3. s \notin ended
        BY <1>1, <3>1 DEF Watched, OverIsOver
      <4>4. ~ Carries(q, s) /\ Bears(q, s)
        BY <1>1, <2>4, <2>7, <3>1, NothingIsTyped DEF Carries, Bears, Gives
      <4> QED
        BY <1>1, <2>5, <4>2, <4>3, <4>4
    <3>3. ASSUME NEW d \in Calls \ {c}
          PROVE  ~ Bears(call'[d], s) /\ ~ Carries(call'[d], s) /\ ~ Gives(call'[d], s)
      <4>1. ~ Bears(call[d], s)
        BY <3>1 DEF Watched, OneBearer
      <4>2. call[d].route \notin Ending => ~ Gives(call[d], s)
        BY <3>1 DEF Watched, NewIsAlone
      <4> QED
        BY <2>5, <4>1, <4>2 DEF Bears, Carries
    <3>4. call'[c].route \in Ending
      BY <1>1, <2>4, <2>5
    <3>5. CarriedIsLast(s)' /\ KeptIsLast(s)'
      BY <3>2, <3>3 DEF CarriedIsLast, KeptIsLast
    <3>6. GivenIsLast(s)'
      BY <3>2, <3>3 DEF GivenIsLast
    <3>7. OneBearer(s)' /\ NewIsAlone(s)' /\ OverIsOver(s)'
      BY <3>2, <3>3, <3>4 DEF OneBearer, NewIsAlone, OverIsOver
    <3> QED
      BY <3>5, <3>6, <3>7 DEF Watched
  <2>8. PICK n : n = pairs + 1
    OBVIOUS
  <2>9. Watched(n)'
    <3>1. /\ \A t \in live : t.session # n
          /\ \A d \in Calls : call[d].carried.refresh.session # n
                              /\ call[d].set.refresh.session # n
          /\ jar.refresh.session # n
      <4>1. \A t : Known(t, pairs) => t.session # n
        BY <2>5, <2>8, NothingIsTyped DEF Known
      <4>2. \A d \in Calls : Known(call[d].carried.refresh, pairs)
                             /\ Known(call[d].set.refresh, pairs)
        BY CallFacts DEF CallFair
      <4> QED
        BY <4>1, <4>2 DEF GInv, TokensFair
    <3>2. token.session # n /\ 0 # n /\ n \notin 1 .. pairs
      <4>1. origin # n /\ 0 # n /\ n \notin 1 .. pairs
        BY <1>4, <1>6, <2>8
      <4> QED
        BY <1>5, <4>1
    <3>3. \A d \in Calls \ {c} : ~ Carries(call'[d], n) /\ ~ Gives(call'[d], n)
                                 /\ ~ Bears(call'[d], n)
      BY <2>5, <3>1 DEF Carries, Gives, Bears
    <3>4. ~ Carries(call'[c], n) /\ ~ Bears(call'[c], n) /\ ~ Gives(call'[c], n)
      BY <2>4, <2>5, <3>2, NothingIsTyped DEF Carries, Bears, Gives
    <3>5. \A d \in Calls : ~ Carries(call'[d], n) /\ ~ Gives(call'[d], n) /\ ~ Bears(call'[d], n)
      BY <3>3, <3>4
    <3>6. jar'.refresh.session # n /\ n \notin ended'
      BY <1>1, <1>4, <3>1, <3>2
    <3>7. CarriedIsLast(n)' /\ KeptIsLast(n)' /\ GivenIsLast(n)'
      BY <3>5, <3>6 DEF CarriedIsLast, KeptIsLast, GivenIsLast
    <3>8. OneBearer(n)' /\ NewIsAlone(n)' /\ OverIsOver(n)'
      BY <3>5, <3>6 DEF OneBearer, NewIsAlone, OverIsOver
    <3> QED
      BY <3>7, <3>8 DEF Watched
  <2>10. 1 .. pairs' = (1 .. pairs) \cup {n}
    BY <2>3, <2>5, <2>8
  <2> QED
    BY <1>1, <2>3, <2>6, <2>7, <2>9, <2>10 DEF Sessions
<1> QED
  BY <1>2, <1>3 DEF Rotate

LEMMA SignOutKeeps ==
  ASSUME GInv, Sessions, NEW c \in Calls, SignOut(c)
  PROVE  GInv' /\ Sessions'
<1> DEFINE token == call[c].carried.refresh
<1>1. /\ call[c].pc = "sent" /\ call[c].route = "POST /auth/logout"
      /\ call[c].route \notin Administrative /\ call[c].route \in Ending
      /\ RespondWith(c, 204, NoCookies)
      /\ UNCHANGED <<clock, admins, adminAt, pairs, crossed, jar, handed>>
      /\ call[c].set = NoCookies /\ Known(token, pairs)
  BY CallFacts, RoutesApart DEF SignOut, CallFair, Ending
<1>2. \/ live' = live \ {token} /\ ended' = ended \cup ({token.session} \ {0})
      \/ live' = live /\ ended' = ended
  BY DEF SignOut
<1>3. PICK q \in CallRecord :
           /\ call' = [call EXCEPT ![c] = q]
           /\ q.pc = "answered" /\ q.route = call[c].route /\ q.carried = NoCookies
           /\ q.set = NoCookies /\ q.sets
           /\ q.at = clock
  <2>1. PICK status \in Nat : status = 204
    OBVIOUS
  <2>2. RespondWith(c, status, NoCookies) /\ NoCookies \in CookieSet
    BY <1>1, <2>1, NothingIsTyped
  <2> QED
    BY <2>2, RespondWithShape
<1>4. CallFair(q, adminAt, pairs, clock)
  BY <1>1, <1>3, NothingIsTyped DEF CallFair, Fair, Known, ServedFairly
<1>5. ended' \subseteq 1 .. pairs /\ live' \subseteq live
  BY <1>1, <1>2, CallFacts, NothingIsTyped DEF Known
<1>6. GInv'
  <2>1. /\ CallFair(q, adminAt, pairs', clock) /\ jar' \in {jar, call[c].set}
        /\ pairs' \in Nat /\ pairs <= pairs' /\ live' \subseteq RefreshToken
        /\ handed' \subseteq AccessToken
    BY <1>1, <1>4, <1>5, CallFacts
  <2>2. /\ \A t \in live' \ live : Known(t, pairs') /\ t # NoRefresh
        /\ \A a \in handed' \ handed : Fair(a, adminAt)
        /\ UNCHANGED <<clock, admins, adminAt>>
    BY <1>1, <1>5
  <2> QED
    BY <1>3, <1>5, <2>1, <2>2, CallMoves
<1>7. ASSUME NEW s \in (1 .. pairs) \ crossed
      PROVE  /\ s \in ended' => \/ s \in ended
                                \/ LiveOf(s)' = {} /\ Carries(call[c], s) /\ q.pc # "found"
             /\ ~ Carries(q, s) /\ ~ Gives(q, s) /\ ~ Gives(call[c], s)
  <2>1. s # 0 /\ Watched(s)
    BY CallFacts DEF Sessions
  <2>2. ~ Carries(q, s) /\ ~ Gives(q, s) /\ ~ Gives(call[c], s)
    BY <1>1, <1>3, <2>1, NothingIsTyped DEF Carries, Gives
  <2>3. ASSUME s \in ended', s \notin ended
        PROVE  LiveOf(s)' = {} /\ Carries(call[c], s)
    <3>1. s = token.session /\ live' = live \ {token}
      BY <1>2, <2>3
    <3>2. Carries(call[c], s)
      BY <1>1, <3>1 DEF Carries
    <3>3. LiveOf(s) \subseteq {token}
      BY <2>1, <3>2 DEF Watched, CarriedIsLast
    <3> QED
      BY <3>1, <3>2, <3>3 DEF LiveOf
  <2> QED
    BY <1>3, <2>2, <2>3
<1>8. Sessions'
  BY <1>1, <1>3, <1>5, <1>7, QuietSessions
<1> QED
  BY <1>6, <1>8

(* An answer is taken or lost, and its call is over.                       *)
LEMMA CallOver ==
  ASSUME GInv, NEW c \in Calls, call' = [call EXCEPT ![c] = NoCall],
         UNCHANGED <<clock, admins, adminAt, live, pairs, ended, handed>>,
         jar' \in {jar, call[c].set}
  PROVE  /\ GInv' /\ call'[c] = NoCall
         /\ \A d \in Calls \ {c} : call'[d] = call[d]
<1>1. NoCall \in CallRecord /\ CallFair(NoCall, adminAt, pairs', clock)
  BY NothingIsTyped, NoCallFair
<1>2. /\ pairs' \in Nat /\ pairs <= pairs' /\ live' \subseteq RefreshToken
      /\ handed' \subseteq AccessToken /\ ended' \subseteq 1 .. pairs
  BY CallFacts
<1>3. /\ \A t \in live' \ live : Known(t, pairs') /\ t # NoRefresh
      /\ \A a \in handed' \ handed : Fair(a, adminAt)
      /\ UNCHANGED <<clock, admins, adminAt>>
  OBVIOUS
<1> QED
  BY <1>1, <1>2, <1>3, CallMoves

LEMMA LoseAnswerKeeps ==
  ASSUME GInv, Sessions, NEW c \in Calls, LoseAnswer(c)
  PROVE  GInv' /\ Sessions'
<1>1. /\ call' = [call EXCEPT ![c] = NoCall]
      /\ UNCHANGED <<clock, admins, adminAt, live, pairs, ended, jar, handed>>
      /\ crossed' = crossed \cup ({call[c].set.refresh.session} \ {0})
  BY DEF LoseAnswer
<1>2. GInv'
  BY <1>1, CallOver
<1>3. ASSUME NEW s \in (1 .. pairs) \ crossed'
      PROVE  ~ Carries(NoCall, s) /\ ~ Gives(NoCall, s) /\ ~ Gives(call[c], s)
  <2>1. s # 0
    BY CallFacts
  <2> QED
    BY <1>1, <1>3, <2>1, NothingIsTyped DEF Carries, Gives
<1>4. NoCall \in CallRecord /\ crossed \subseteq crossed'
  BY <1>1, NothingIsTyped
<1>5. Sessions'
  BY <1>1, <1>3, <1>4, QuietSessions
<1> QED
  BY <1>2, <1>5

LEMMA ReceiveKeeps ==
  ASSUME GInv, Sessions, NEW c \in Calls, Receive(c)
  PROVE  GInv' /\ Sessions'
<1>1. /\ call' = [call EXCEPT ![c] = NoCall]
      /\ UNCHANGED <<clock, admins, adminAt, live, pairs, ended, crossed, handed>>
      /\ jar' = IF call[c].sets THEN call[c].set ELSE jar
  BY DEF Receive, sessions
<1>2. /\ GInv' /\ call'[c] = NoCall
      /\ \A d \in Calls \ {c} : call'[d] = call[d]
  BY <1>1, CallOver
<1>3. CallFair(call[c], adminAt, pairs, clock) /\ pairs \in Nat
  BY CallFacts
<1>4. ASSUME NEW s \in (1 .. pairs) \ crossed
      PROVE  Watched(s)'
  <2>0. s # 0 /\ Watched(s)
    BY <1>3 DEF Sessions
  <2>1. ~ Carries(NoCall, s) /\ ~ Gives(NoCall, s) /\ ~ Bears(NoCall, s)
    BY <2>0, NothingIsTyped DEF Carries, Gives, Bears
  <2>2. CASE ~ call[c].sets
    <3>1. ~ Gives(call[c], s) /\ jar' = jar
      BY <1>1, <1>3, <2>0, <2>2, NothingIsTyped DEF CallFair, Gives
    <3>2. LiveOf(s)' \subseteq LiveOf(s)
      BY <1>1 DEF LiveOf
    <3>3. NoCall \in CallRecord
      BY NothingIsTyped
    <3> QED
      BY <1>1, <2>0, <2>1, <3>1, <3>2, <3>3, QuietKeeps
  <2>3. CASE call[c].sets
    <3>1. jar' = call[c].set /\ LiveOf(s)' = LiveOf(s)
      BY <1>1, <2>3 DEF LiveOf
    <3>2. \A d \in Calls : /\ Carries(call'[d], s) => d # c /\ Carries(call[d], s)
                           /\ Gives(call'[d], s) => d # c /\ Gives(call[d], s)
                           /\ Bears(call'[d], s) => d # c /\ Bears(call[d], s)
                           /\ d # c => call'[d] = call[d]
      BY <1>2, <2>1
    <3>3. jar'.refresh.session = s => Gives(call[c], s)
      BY <3>1 DEF Gives
    <3>4. ASSUME NEW d \in Calls, Bears(call'[d], s), jar'.refresh.session = s
          PROVE  FALSE
      <4>1. d # c /\ Bears(call[d], s) /\ Gives(call[c], s)
        BY <3>2, <3>3, <3>4
      <4>2. CASE call[c].route \in Ending
        BY <2>0, <4>1, <4>2 DEF Watched, OneBearer, Bears
      <4>3. CASE call[c].route \notin Ending
        BY <2>0, <4>1, <4>3 DEF Watched, NewIsAlone
      <4> QED
        BY <4>2, <4>3
    <3>5. CarriedIsLast(s)'
      <4>1. \A d \in Calls : Carries(call'[d], s) => Bears(call'[d], s)
        BY DEF Bears, Carries
      <4> QED
        BY <2>0, <3>1, <3>2, <3>4, <4>1 DEF Watched, CarriedIsLast
    <3>6. KeptIsLast(s)'
      BY <2>0, <3>1, <3>3 DEF Watched, KeptIsLast, GivenIsLast
    <3>7. GivenIsLast(s)'
      BY <2>0, <3>1, <3>2 DEF Watched, GivenIsLast
    <3>8. OneBearer(s)'
      BY <2>0, <3>2 DEF Watched, OneBearer
    <3>9. NewIsAlone(s)'
      <4> SUFFICES ASSUME NEW d \in Calls, Gives(call'[d], s), call'[d].route \notin Ending
                   PROVE  /\ jar'.refresh.session # s
                          /\ \A e \in Calls \ {d} : ~ Bears(call'[e], s) /\ ~ Gives(call'[e], s)
        BY DEF NewIsAlone
      <4>1. d # c /\ Gives(call[d], s) /\ call[d].route \notin Ending
        BY <3>2
      <4>2. \A e \in Calls \ {d} : ~ Bears(call[e], s) /\ ~ Gives(call[e], s)
        BY <2>0, <4>1 DEF Watched, NewIsAlone
      <4> QED
        BY <3>2, <3>3, <4>1, <4>2
    <3>10. OverIsOver(s)'
      BY <1>1, <2>0, <3>1, <3>2 DEF Watched, OverIsOver
    <3> QED
      BY <3>5, <3>6, <3>7, <3>8, <3>9, <3>10 DEF Watched
  <2> QED
    BY <2>2, <2>3
<1> QED
  BY <1>1, <1>2, <1>4 DEF Sessions

LEMMA GatewayInitially == GatewayInit => GInv /\ Sessions
<1> SUFFICES ASSUME GatewayInit
             PROVE  GInv /\ Sessions
  OBVIOUS
<1>1. /\ clock = 1 /\ admins \subseteq Owners
      /\ adminAt = [u \in Owners |-> IF u \in admins THEN 1 ELSE 0]
      /\ live = {} /\ pairs = 0 /\ jar = NoCookies /\ handed = {}
      /\ call = [c \in Calls |-> NoCall] /\ ended = {} /\ crossed = {}
  BY DEF GatewayInit
<1>2. GatewayTypes
  BY <1>1, NothingIsTyped DEF GatewayTypes
<1>3. RolesDated
  BY <1>1 DEF RolesDated
<1>4. TokensFair
  BY <1>1, NothingIsTyped DEF TokensFair, Fair, Known
<1>5. CallsFair
  BY <1>1, NoCallFair DEF CallsFair
<1>6. Sessions
  BY <1>1 DEF Sessions
<1> QED
  BY <1>2, <1>3, <1>4, <1>5, <1>6 DEF GInv

LEMMA GatewayInductive == GInv /\ Sessions /\ [GatewayNext]_gateway => (GInv /\ Sessions)'
<1> SUFFICES ASSUME GInv, Sessions, [GatewayNext]_gateway
             PROVE  (GInv /\ Sessions)'
  OBVIOUS
<1>1. CASE UNCHANGED gateway
  <2>1. UNCHANGED <<clock, admins, adminAt, live, pairs, ended, crossed, jar, handed, call>>
    BY <1>1 DEF gateway, sessions
  <2>2. GInv'
    BY <2>1 DEF GInv, GatewayTypes, RolesDated, TokensFair, CallsFair
  <2>3. Sessions'
    BY <2>1 DEF Sessions, Watched, LiveOf, CarriedIsLast, KeptIsLast, GivenIsLast, OneBearer,
                NewIsAlone, OverIsOver
  <2> QED
    BY <2>2, <2>3
<1>2. ASSUME NEW c \in Calls, CallStep(c)
      PROVE  (GInv /\ Sessions)'
  BY <1>2, BrowseKeeps, SendBearerKeeps, SignInKeeps, LookUpKeeps, RotateKeeps, SignOutKeeps,
     HandleKeeps, ReceiveKeeps, LoseAnswerKeeps DEF CallStep
<1> QED
  BY <1>1, <1>2, ClockKeeps DEF GatewayNext

(* A role in a token outlives its withdrawal by less than one access       *)
(* token's life, replays and refreshes under way included.                 *)
THEOREM AdministratorsOnly == GatewaySpec => []AdminsOnly
<1>1. GInv => AdminsOnly
  BY DEF GInv, CallsFair, CallFair, ServedFairly, AdminsOnly
<1> QED
  BY GatewayInitially, GatewayInductive, <1>1, PTL DEF GatewaySpec

(* setTokenCookies and clearTokenCookies write both cookies of one answer, *)
(* so whatever order answers come in, a browser never mixes two sessions.  *)
THEOREM OneSessionInTheJar == GatewaySpec => []CookiesOfOneSession
<1>1. GInv => CookiesOfOneSession
  BY DEF GInv, TokensFair, OfOneSession, CookiesOfOneSession
<1> QED
  BY GatewayInitially, GatewayInductive, <1>1, PTL DEF GatewaySpec

(* The token a sign-out carries is the last of its session, unless the     *)
(* browser sent another request that ends it, or lost an answer.           *)
THEOREM SigningOutEnds == GatewaySpec => []SignedOutIsOver
<1>1. GInv /\ Sessions => SignedOutIsOver
  BY DEF GInv, GatewayTypes, Sessions, Watched, OverIsOver, LiveOf, SignedOutIsOver
<1> QED
  BY GatewayInitially, GatewayInductive, <1>1, PTL DEF GatewaySpec

-----------------------------------------------------------------------------
(* What a client is told.  A reply knows at each pc what its call may have *)
(* changed by then; a call that has changed more than a 4xx may leave      *)
(* behind can still only be told that something failed.                    *)
LEMMA StatusIsNat == \A h, e : StatusOf(h, e) \in Nat
BY DEF StatusOf, WriteIntakeError, WriteCheckoutError, WriteProductError, NotFoundOr500,
       MyOrderStatus, AdminOrderStatus, CustomerStatus, SignInStatus

(* Whatever the handler, these two are nobody's but the server's.          *)
LEMMA FailuresAreOurs == \A h : StatusOf(h, "Fault") = 500 /\ StatusOf(h, "NoAccount") = 500
BY DEF StatusOf, WriteIntakeError, WriteCheckoutError, WriteProductError, NotFoundOr500,
       MyOrderStatus, AdminOrderStatus, CustomerStatus, SignInStatus, Basket

LEMMA SuccessIsPlain == \A does : Success(does) \in Nat /\ Success(does) \in 200 .. 299
BY DEF Success

LateErrors ==
  {"none", "Fault", "NotFound", "EmailExists", "EmailTaken", "InvalidCredentials",
   "InvalidRefreshToken", "RefreshExpired", "UserNotFound", "AddressNotFound", "NoAccount",
   "OnlyPending", "InvalidTransition"}

Errors == (UNION {Handler[h].refusals : h \in DOMAIN Handler}) \cup LateErrors

Things == {"row", "object", "issued", "digest"}

Reply ==
  [pc : {"idle", "asked", "lookup", "expired", "account", "write", "issue", "reread", "done",
         "told"},
   handler : DOMAIN Handler \cup {"none"}, to : Moves \cup {"none", "link", "create"},
   error : Errors, status : Nat, changed : SUBSET Things, missed : BOOLEAN]

(* What a reply knows at each pc.                                          *)
ReplySound(q) ==
  /\ q.pc # "idle" => q.handler \in DOMAIN Handler
  /\ q.pc # "told" => q.status = 0
  /\ q.pc = "asked" => q.changed = {}
  /\ q.pc = "lookup" => q.changed \subseteq {"object"}
  /\ q.pc \in {"expired", "account"} => q.changed \subseteq {"digest"}
  /\ q.pc = "write" => q.changed = {} \/ Handler[q.handler].does \in {"checkout", "rotate"}
  /\ q.pc \in {"lookup", "account"} => Handler[q.handler].does \in {"checkout", "rotate"}
  /\ q.status \in 400 .. 499 => q.missed \/ q.changed \subseteq Left(q.error)

AnswersInv ==
  /\ reply \in [Clients -> Reply]
  /\ \A c \in Clients : ReplySound(reply[c])

LEMMA ReplyToldIsReply ==
  ASSUME NEW q \in Reply, NEW status \in Nat, NEW error \in Errors,
         NEW changed \in SUBSET Things, NEW missed \in BOOLEAN
  PROVE  [q EXCEPT !.pc = "told", !.status = status, !.error = error,
                   !.changed = changed, !.missed = missed] \in Reply
BY DEF Reply

LEMMA ToldIsSound ==
  ASSUME AnswersInv, NEW c \in Clients, NEW status \in Nat, NEW error \in Errors,
         NEW changed \in SUBSET Things, NEW missed \in BOOLEAN,
         Told(c, status, error, changed, missed), reply[c].pc # "idle",
         status \in 400 .. 499 => missed \/ changed \subseteq Left(error)
  PROVE  AnswersInv'
<1> DEFINE q == reply[c]
           r == [q EXCEPT !.pc = "told", !.status = status, !.error = error,
                          !.changed = changed, !.missed = missed]
<1>1. reply' = [reply EXCEPT ![c] = r]
  BY DEF Told, AnswersInv
<1>2. q \in Reply /\ ReplySound(q)
  BY DEF AnswersInv
<1>3. q.handler \in DOMAIN Handler
  BY <1>2 DEF ReplySound
<1>4. r \in Reply
  BY <1>2, ReplyToldIsReply, Zenon
<1>5. /\ r.pc = "told" /\ r.handler = q.handler /\ r.status = status /\ r.error = error
      /\ r.changed = changed /\ r.missed = missed
  BY <1>2 DEF Reply
<1> HIDE DEF r
<1>6. ReplySound(r)
  BY <1>3, <1>5 DEF ReplySound
<1> QED
  BY <1>1, <1>4, <1>6 DEF AnswersInv

LEMMA FailsIsSound ==
  ASSUME AnswersInv, NEW c \in Clients, NEW e \in Errors, Fails(c, e), reply[c].pc # "idle",
         StatusOf(reply[c].handler, e) \in 400 .. 499 => reply[c].changed \subseteq Left(e)
  PROVE  AnswersInv'
<1>1. reply[c].changed \in SUBSET Things
  BY DEF AnswersInv, Reply
<1> QED
  BY <1>1, StatusIsNat, ToldIsSound DEF Fails

(* A call that has changed nothing may be told any error, and one that has *)
(* changed whatever it may be told that something failed.                  *)
LEMMA NothingChangedIsSound ==
  ASSUME AnswersInv, NEW c \in Clients, NEW e \in Errors, Fails(c, e), reply[c].pc # "idle",
         reply[c].changed = {}
  PROVE  AnswersInv'
BY FailsIsSound

LEMMA FaultIsSound ==
  ASSUME AnswersInv, NEW c \in Clients, NEW e \in {"Fault", "NoAccount"}, Fails(c, e),
         reply[c].pc # "idle"
  PROVE  AnswersInv'
<1>1. e \in Errors /\ StatusOf(reply[c].handler, e) = 500
  BY FailuresAreOurs DEF Errors, LateErrors
<1> QED
  BY <1>1, FailsIsSound

LEMMA SucceedsIsSound ==
  ASSUME AnswersInv, NEW c \in Clients, Succeeds(c), reply[c].pc # "idle"
  PROVE  AnswersInv'
<1>1. reply[c].changed \in SUBSET Things /\ "none" \in Errors
  BY DEF AnswersInv, Reply, Errors, LateErrors
<1>2. Success(Does(c)) \in Nat /\ Success(Does(c)) \notin 400 .. 499
  BY SuccessIsPlain
<1> QED
  BY <1>1, <1>2, ToldIsSound DEF Succeeds

(* A step of c that tells nothing yet.                                     *)
LEMMA OnwardIsSound ==
  ASSUME AnswersInv, NEW c \in Clients, NEW r \in Reply, ReplySound(r),
         reply' = [reply EXCEPT ![c] = r]
  PROVE  AnswersInv'
BY DEF AnswersInv

LEMMA GoesIsSound ==
  ASSUME AnswersInv, NEW c \in Clients, NEW what \in SUBSET Things,
         NEW pc \in {"lookup", "expired", "account", "write", "issue", "reread", "done"},
         Goes(c, pc, what), reply[c].pc \notin {"idle", "told"},
         pc = "lookup" => reply[c].changed \cup what \subseteq {"object"},
         pc \in {"expired", "account"} => reply[c].changed \cup what \subseteq {"digest"},
         pc = "write" => reply[c].changed \cup what = {} \/ Does(c) \in {"checkout", "rotate"},
         pc \in {"lookup", "account"} => Does(c) \in {"checkout", "rotate"}
  PROVE  AnswersInv'
<1> DEFINE q == reply[c]
           r == [q EXCEPT !.pc = pc, !.changed = @ \cup what]
<1>1. q \in Reply /\ ReplySound(q)
  BY DEF AnswersInv
<1>2. reply' = [reply EXCEPT ![c] = r]
  BY DEF Goes, AnswersInv
<1>3. q.changed \cup what \in SUBSET Things
  BY <1>1 DEF Reply
<1>4. r \in Reply
  BY <1>1, <1>3 DEF Reply
<1>5. /\ r.pc = pc /\ r.handler = q.handler /\ r.status = q.status
      /\ r.changed = q.changed \cup what
  BY <1>1 DEF Reply
<1> HIDE DEF r
<1>6. q.handler \in DOMAIN Handler /\ q.status = 0
  BY <1>1 DEF ReplySound
<1>7. ReplySound(r)
  BY <1>5, <1>6 DEF ReplySound, Does
<1> QED
  BY <1>2, <1>4, <1>7, OnwardIsSound

LEMMA ArrivesKeeps ==
  ASSUME AnswersInv, NEW c \in Clients, Arrives(c)
  PROVE  AnswersInv'
<1>1. PICK h \in DOMAIN Handler, to \in Moves :
        reply' = [reply EXCEPT ![c] = [NoReply EXCEPT !.pc = "asked", !.handler = h, !.to = to]]
  <2>1. PICK h \in DOMAIN Handler :
          \E to \in IF h = "adminUpdateStatus" THEN Moves ELSE {"cancelled"} :
            reply' = [reply EXCEPT ![c] = [NoReply EXCEPT !.pc = "asked", !.handler = h, !.to = to]]
    BY Zenon DEF Arrives
  <2>2. (IF h = "adminUpdateStatus" THEN Moves ELSE {"cancelled"}) \subseteq Moves
    BY DEF Moves
  <2> QED
    BY <2>1, <2>2, Zenon
<1> DEFINE r == [NoReply EXCEPT !.pc = "asked", !.handler = h, !.to = to]
<1>2. r \in Reply
  <2>1. NoReply \in Reply
    BY DEF NoReply, Reply, Errors, LateErrors
  <2> QED
    BY <2>1 DEF Reply
<1>3. r.pc = "asked" /\ r.handler = h /\ r.status = 0 /\ r.changed = {}
  BY DEF NoReply
<1> HIDE DEF r
<1>4. ReplySound(r)
  BY <1>3 DEF ReplySound
<1> QED
  BY <1>1, <1>2, <1>4, OnwardIsSound DEF r

LEMMA RefusedKeeps ==
  ASSUME AnswersInv, NEW c \in Clients, Refused(c)
  PROVE  AnswersInv'
<1>1. PICK e \in Handler[reply[c].handler].refusals : Fails(c, e)
  BY DEF Refused
<1>2. reply[c].pc = "asked" /\ reply[c].handler \in DOMAIN Handler /\ reply[c].changed = {}
  BY DEF Refused, AnswersInv, ReplySound
<1>3. e \in Errors
  BY <1>2 DEF Errors
<1> QED
  BY <1>1, <1>2, <1>3, NothingChangedIsSound

LEMMA ReadsKeeps ==
  ASSUME AnswersInv, NEW c \in Clients, Reads(c)
  PROVE  AnswersInv'
<1> DEFINE q == reply[c]
<1>1. q \in Reply /\ ReplySound(q) /\ q.pc = "asked" /\ q.changed = {}
  BY DEF AnswersInv, Reads, ReplySound
<1>2. CASE Succeeds(c)
  BY <1>1, <1>2, SucceedsIsSound
<1>3. CASE \E e \in LateErrors : Fails(c, e)
  BY <1>1, <1>3, NothingChangedIsSound DEF Errors
<1>4. CASE Proceeds(c, "write") \/ Proceeds(c, "issue")
  BY <1>1, <1>4, GoesIsSound DEF Proceeds
<1>5. CASE Does(c) = "checkout"
  <2>1. PICK what \in SUBSET {"object"} : Goes(c, "lookup", what)
    BY <1>5 DEF Reads
  <2>2. what \in SUBSET Things
    BY DEF Things
  <2> QED
    BY <1>1, <1>5, <2>1, <2>2, GoesIsSound
<1>6. CASE \E pc \in {"expired", "account"}, what \in SUBSET {"digest"} :
             Does(c) = "rotate" /\ Goes(c, pc, what)
  <2>1. PICK pc \in {"expired", "account"}, what \in SUBSET {"digest"} : Goes(c, pc, what)
    BY <1>6
  <2>2. what \in SUBSET Things
    BY DEF Things
  <2> QED
    BY <1>1, <1>6, <2>1, <2>2, GoesIsSound
<1>7. CASE \E to \in {"link", "create"} :
             reply' = [reply EXCEPT ![c].pc = "write", ![c].to = to]
  <2> DEFINE r(to) == [q EXCEPT !.pc = "write", !.to = to]
  <2>1. PICK to \in {"link", "create"} : reply' = [reply EXCEPT ![c] = r(to)]
    BY <1>7 DEF AnswersInv
  <2>2. r(to) \in Reply
    BY <1>1 DEF Reply
  <2>3. /\ r(to).pc = "write" /\ r(to).handler = q.handler /\ r(to).status = q.status
        /\ r(to).changed = q.changed
    BY <1>1 DEF Reply
  <2> HIDE DEF r
  <2>4. ReplySound(r(to))
    BY <1>1, <2>3 DEF ReplySound
  <2> QED
    BY <2>1, <2>2, <2>4, OnwardIsSound
<1> QED
  BY <1>2, <1>3, <1>4, <1>5, <1>6, <1>7 DEF Reads, LateErrors

LEMMA LooksUpKeeps ==
  ASSUME AnswersInv, NEW c \in Clients, LooksUp(c)
  PROVE  AnswersInv'
<1>1. reply[c].pc \in {"lookup", "account"} /\ ReplySound(reply[c])
  BY DEF LooksUp, AnswersInv
<1>2. CASE Fails(c, "NoAccount")
  BY <1>1, <1>2, FaultIsSound
<1>3. CASE Proceeds(c, "write")
  BY <1>1, <1>3, GoesIsSound DEF Proceeds, ReplySound, Does
<1>4. CASE reply[c].pc = "lookup" /\ Fails(c, "AddressNotFound")
  <2>1. reply[c].changed \subseteq Left("AddressNotFound")
    BY <1>1, <1>4 DEF ReplySound, Left
  <2> QED
    BY <1>1, <1>4, <2>1, FailsIsSound DEF Errors, LateErrors
<1>5. CASE reply[c].pc = "account" /\ Fails(c, "UserNotFound")
  <2>1. reply[c].changed \subseteq Left("UserNotFound")
    BY <1>1, <1>5 DEF ReplySound, Left
  <2> QED
    BY <1>1, <1>5, <2>1, FailsIsSound DEF Errors, LateErrors
<1> QED
  BY <1>2, <1>3, <1>4, <1>5 DEF LooksUp

LEMMA ExpiresKeeps ==
  ASSUME AnswersInv, NEW c \in Clients, Expires(c)
  PROVE  AnswersInv'
<1>1. reply[c].pc = "expired" /\ reply[c].changed \subseteq {"digest"}
  BY DEF Expires, AnswersInv, ReplySound
<1>2. "RefreshExpired" \in Errors /\ Left("RefreshExpired") = {"digest", "row"}
  BY DEF Errors, LateErrors, Left
<1>3. CASE Fails(c, "RefreshExpired")
  BY <1>1, <1>2, <1>3, FailsIsSound
<1>4. CASE Told(c, StatusOf(reply[c].handler, "RefreshExpired"), "RefreshExpired",
                reply[c].changed \cup {"row"}, FALSE)
  <2>1. reply[c].changed \cup {"row"} \in SUBSET Things
    BY <1>1 DEF Things
  <2> QED
    BY <1>1, <1>2, <1>4, <2>1, StatusIsNat, ToldIsSound
<1> QED
  BY <1>3, <1>4 DEF Expires, Declines

LEMMA WritesKeeps ==
  ASSUME AnswersInv, NEW c \in Clients, Writes(c)
  PROVE  AnswersInv'
<1>1. reply[c].pc = "write" /\ ReplySound(reply[c])
  BY DEF Writes, AnswersInv
<1>2. CASE Does(c) \notin {"checkout", "rotate"} /\ \E e \in LateErrors : Fails(c, e)
  <2>1. reply[c].changed = {}
    BY <1>1, <1>2 DEF ReplySound, Does
  <2> QED
    BY <1>1, <1>2, <2>1, NothingChangedIsSound DEF Errors
<1>3. CASE Succeeds(c)
  BY <1>1, <1>3, SucceedsIsSound
<1>4. CASE \E pc \in {"issue", "reread", "done"}, what \in {{}, {"row"}} : Goes(c, pc, what)
  BY <1>1, <1>4, GoesIsSound DEF Things
<1>5. Inserts(c) \/ Registers(c) => AnswersInv'
  BY <1>2, <1>4 DEF Inserts, Registers, WritesTo, Declines, LateErrors
<1>6. Deletes(c) => AnswersInv'
  BY <1>2, <1>4 DEF Deletes, WritesTo, Proceeds, Declines, LateErrors
<1>7. MovesOn(c) \/ Changes(c) => AnswersInv'
  BY <1>2, <1>4 DEF MovesOn, Changes, WritesTo, Declines, LateErrors
<1>8. Numbers(c) \/ Numbered(c) => AnswersInv'
  BY <1>2, <1>3, <1>4 DEF Numbers, Numbered, WritesTo, Declines, LateErrors
<1> QED
  BY <1>5, <1>6, <1>7, <1>8 DEF Writes

LEMMA StoresTokenKeeps ==
  ASSUME AnswersInv, NEW c \in Clients, StoresToken(c)
  PROVE  AnswersInv'
<1>1. reply[c].pc = "issue" /\ reply[c].changed \cup {"issued"} \in SUBSET Things
  BY DEF StoresToken, AnswersInv, Reply, Things
<1>2. Success(Does(c)) \in Nat /\ Success(Does(c)) \notin 400 .. 499
  BY SuccessIsPlain
<1> QED
  BY <1>1, <1>2, ToldIsSound DEF StoresToken, Errors, LateErrors

LEMMA RereadsKeeps ==
  ASSUME AnswersInv, NEW c \in Clients, Rereads(c)
  PROVE  AnswersInv'
<1>1. reply[c].pc = "reread" /\ reply[c].changed \in SUBSET Things
  BY DEF Rereads, AnswersInv, Reply
<1>2. CASE Succeeds(c)
  BY <1>1, <1>2, SucceedsIsSound
<1>3. CASE Told(c, StatusOf(reply[c].handler, "NotFound"), "NotFound", reply[c].changed, TRUE)
  BY <1>1, <1>3, StatusIsNat, ToldIsSound DEF Errors, LateErrors
<1> QED
  BY <1>2, <1>3 DEF Rereads

LEMMA BreaksKeeps ==
  ASSUME AnswersInv, NEW c \in Clients, Breaks(c)
  PROVE  AnswersInv'
<1>1. reply[c].pc # "idle" /\ ReplySound(reply[c])
  BY DEF Breaks, AnswersInv
<1>2. CASE Succeeds(c)
  BY <1>1, <1>2, SucceedsIsSound
<1>3. CASE Fails(c, "Fault")
  BY <1>1, <1>3, FaultIsSound
<1>4. CASE reply[c].pc = "asked" /\ Fails(c, "InvalidCredentials")
  BY <1>1, <1>4, NothingChangedIsSound DEF ReplySound, Errors, LateErrors
<1>5. CASE reply[c].pc = "account" /\ Fails(c, "UserNotFound")
  <2>1. reply[c].changed \subseteq Left("UserNotFound")
    BY <1>1, <1>5 DEF ReplySound, Left
  <2> QED
    BY <1>1, <1>5, <2>1, FailsIsSound DEF Errors, LateErrors
<1> QED
  BY <1>2, <1>3, <1>4, <1>5 DEF Breaks, ErrorOfFault

LEMMA LeavesKeeps ==
  ASSUME AnswersInv, NEW c \in Clients, Leaves(c)
  PROVE  AnswersInv'
<1>1. NoReply \in Reply /\ ReplySound(NoReply)
  BY DEF NoReply, Reply, Errors, LateErrors, ReplySound
<1> QED
  BY <1>1, OnwardIsSound DEF Leaves

LEMMA AnswersStart == AnswersInit => AnswersInv
<1>1. NoReply \in Reply /\ ReplySound(NoReply)
  BY DEF NoReply, Reply, Errors, LateErrors, ReplySound
<1> QED
  BY <1>1 DEF AnswersInit, AnswersInv

LEMMA AnswersSteps == AnswersInv /\ [AnswersNext]_answers => AnswersInv'
<1>1. ASSUME AnswersInv, UNCHANGED answers PROVE AnswersInv'
  BY <1>1 DEF AnswersInv, answers
<1>2. ASSUME AnswersInv, NEW c \in Clients, AnswerStep(c) PROVE AnswersInv'
  <2>1. ASSUME Ends(c) PROVE AnswersInv'
    BY <1>2, <2>1, SucceedsIsSound DEF Ends
  <2> QED
    BY <1>2, <2>1, ArrivesKeeps, RefusedKeeps, ReadsKeeps, LooksUpKeeps, ExpiresKeeps,
       WritesKeeps, StoresTokenKeeps, RereadsKeeps, BreaksKeeps, LeavesKeeps DEF AnswerStep
<1> QED
  BY <1>1, <1>2 DEF AnswersNext

(* However many requests write the rows it is about, a request that is     *)
(* answered with a 4xx has changed nothing but what Left names: the        *)
(* screenshot of a checkout whose address is gone, a token that had run    *)
(* out, the form in which a token is stored.  Excepted is the row another  *)
(* removed between the change of it and the read for the answer.           *)
THEOREM StatusesAlwaysTell == AnswersSpec => []StatusesTell
<1>1. AnswersInv => StatusesTell
  BY DEF AnswersInv, ReplySound, StatusesTell
<1> QED
  BY <1>1, AnswersStart, AnswersSteps, PTL DEF AnswersSpec
=============================================================================
