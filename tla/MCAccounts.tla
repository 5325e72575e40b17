----------------------------- MODULE MCAccounts -----------------------------
(***************************************************************************)
(* TLC's instance of what is known of a client, one of these at a time:    *)
(*   people    two sign-ins: two addresses, and two Google subjects of     *)
(*             which one has had both                                      *)
(*   tokens    two requests that sign in with a password, refresh and sign *)
(*             out; accounts only ever appear, so the two do not meet      *)
(*   roles     one request at a time, while roles change and an access     *)
(*             token runs out                                              *)
(*   cookies   two requests of a browser that sign in, refresh, sign out   *)
(*   answers   two requests to any of the handlers, about one row          *)
(***************************************************************************)
EXTENDS Accounts, Gateway, Answers, TLC

CONSTANTS home, work, s1, s2

MCIdentities == {<<s1, home>>, <<s1, work>>, <<s2, work>>}

VARIABLE mix

(* The rows know nothing of each other: one of them at a time is enough.   *)
OneRow ==
  /\ Cardinality({t \in Rows : rows[t] # "none"}) <= 1
  /\ \A c, d \in Clients :
       (reply[c].pc # "idle" /\ reply[d].pc # "idle") => On(c) = On(d)

MCInit ==
  /\ mix \in {"people", "tokens", "roles", "cookies", "answers"}
  /\ Init /\ (mix \notin {"people", "tokens"} => users = <<>>)
  /\ GatewayInit /\ (mix # "roles" => admins = {})
  /\ AnswersInit /\ OneRow /\ (mix # "answers" => \A t \in Rows : rows[t] = "none")

AccountsStep ==
  /\ mix \in {"people", "tokens"} /\ Next
  /\ \A r \in Requests :
       req'[r].method \in {"none", "Login"} \cup
         (IF mix = "people" THEN {"Register", "LoginWithGoogle"} ELSE {"Refresh", "Logout"})
  /\ UNCHANGED <<gateway, answers>>

Roles ==
  /\ mix = "roles" /\ GatewayNext
  /\ Cardinality({c \in Calls : call'[c] # NoCall}) <= 1
  /\ clock' <= AccessLife + 1
  /\ UNCHANGED <<vars, answers>>

Cookies ==
  /\ mix = "cookies" /\ GatewayNext
  /\ admins' = {}
  /\ \A c \in Calls : call'[c].route \notin Administrative
  /\ UNCHANGED <<vars, answers>>

AnswersStep == mix = "answers" /\ AnswersNext /\ OneRow' /\ UNCHANGED <<vars, gateway>>

MCNext ==
  /\ AccountsStep \/ Roles \/ Cookies \/ AnswersStep
  /\ UNCHANGED mix

MCSpec == MCInit /\ [][MCNext]_<<vars, gateway, answers, mix>>

(* Requests, Calls and Clients are one set.                                *)
Symmetry == Permutations(Requests) \cup Permutations(Owners)
=============================================================================
