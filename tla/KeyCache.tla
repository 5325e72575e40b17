------------------------------ MODULE KeyCache ------------------------------
(***************************************************************************)
(* Verifying Google ID tokens (services/auth/google.go): the signing keys  *)
(* Google publishes are cached for six hours behind a read-write lock,     *)
(* fetched under its write lock, and fetched again at once when a token    *)
(* names a key that is not among them.                                     *)
(*                                                                         *)
(* Sign-ins run side by side, one goroutine each.  Google takes keys into  *)
(* use and withdraws them at any time; it publishes a key before it signs  *)
(* with it.  Of a token only the key is kept: the claims checked after the *)
(* signature touch no shared state.                                        *)
(***************************************************************************)
EXTENDS Naturals

CONSTANTS
  Keys,       \* the keys Google may ever publish
  Requests,   \* the sign-ins that may be in flight at the same time
  NoKey, NoRequest,
  Life,       \* how long the cached keys are good for: six hours
  MaxTime     \* bound: the clock stops there

ASSUME KeyCacheAssumption ==
  /\ NoKey \notin Keys /\ NoRequest \notin Requests
  /\ Life \in Nat \ {0} /\ MaxTime \in Nat

VARIABLES
  published,  \* the keys Google publishes now
  now,        \* the clock; 1 is when the process starts
  keys,       \* cache.keys
  fetchedAt,  \* cache.fetchedAt; 0 is the zero time
  writer,     \* who holds the write lock
  signin,     \* what each sign-in is doing
  seenAt      \* history: when each key was last published

cache == <<keys, fetchedAt, writer>>
keyVars == <<published, now, keys, fetchedAt, writer, signin, seenAt>>

(* `again` says that the key was missed once; `since` is history: whether  *)
(* the key of the token was published all the time since it was presented. *)
NoSignin == [pc |-> "idle", key |-> NoKey, got |-> {}, again |-> FALSE,
             at |-> 0, since |-> FALSE]

KeyInit ==
  /\ published \in SUBSET Keys
  /\ now = 1
  /\ keys = {} /\ fetchedAt = 0 /\ writer = NoRequest
  /\ signin = [r \in Requests |-> NoSignin]
  /\ seenAt = [k \in Keys |-> IF k \in published THEN 1 ELSE 0]

-----------------------------------------------------------------------------
(* Google publishes a key, and withdraws it for good.                      *)
Rotate ==
  /\ \E k \in Keys :
       /\ k \in published \/ seenAt[k] = 0
       /\ published' = IF k \in published THEN published \ {k} ELSE published \cup {k}
  /\ seenAt' = [k \in Keys |-> IF k \in published \cup published' THEN now ELSE seenAt[k]]
  /\ signin' = [r \in Requests |->
       [signin[r] EXCEPT !.since = @ /\ signin[r].key \in published']]
  /\ UNCHANGED <<now, cache>>

(* A unit of the clock is hours: none goes by in the ten seconds a fetch   *)
(* may take, by which the six hours may be exceeded.                       *)
Tick ==
  /\ now < MaxTime
  /\ writer = NoRequest
  /\ now' = now + 1
  /\ seenAt' = [k \in Keys |-> IF k \in published THEN now' ELSE seenAt[k]]
  /\ UNCHANGED <<published, cache, signin>>

-----------------------------------------------------------------------------
Go(r, pc) == signin' = [signin EXCEPT ![r].pc = pc]
Fail(r) == signin' = [signin EXCEPT ![r] = [NoSignin EXCEPT !.pc = "failed"]]
Got(r, pc, set) == signin' = [signin EXCEPT ![r].pc = pc, ![r].got = set]

(* A token is presented, be it signed with a key that is not published     *)
(* any more or not yet.                                                    *)
Present(r) ==
  /\ signin[r].pc = "idle"
  /\ \E k \in Keys :
       signin' = [signin EXCEPT ![r] =
         [NoSignin EXCEPT !.pc = "cached", !.key = k, !.at = now, !.since = k \in published]]
  /\ UNCHANGED <<published, now, cache, seenAt>>

(* Mutant: keys that are there are good for ever.                          *)
FreshForEver == keys # {}

Fresh == now - fetchedAt < Life /\ fetchedAt # 0 /\ keys # {}

(* fetchJWKS, under the read lock: the cached keys if they are fresh.      *)
ReadCache(r) ==
  /\ signin[r].pc = "cached" /\ writer = NoRequest
  /\ IF Fresh THEN Got(r, "look", keys) ELSE Go(r, "lock")
  /\ UNCHANGED <<published, now, cache, seenAt>>

(* The write lock is taken, and the cache looked at again: another sign-in *)
(* may have filled it.                                                     *)
TakeLock(r) ==
  /\ signin[r].pc = "lock" /\ writer = NoRequest
  /\ IF Fresh THEN Got(r, "look", keys) /\ UNCHANGED writer
     ELSE Go(r, "fetch") /\ writer' = r
  /\ UNCHANGED <<published, now, keys, fetchedAt, seenAt>>

(* Google answers with the keys it publishes, all or those of them that    *)
(* can be read: the lock is held until they are stored.                    *)
FetchAnswers(r) ==
  /\ signin[r].pc = "fetch"
  /\ Got(r, "store", published)
  /\ UNCHANGED <<published, now, cache, seenAt>>

(* Mutant: the early return of a failed fetch keeps the write lock.        *)
FetchFailsLocked(r) ==
  /\ signin[r].pc = "fetch"
  /\ Fail(r)
  /\ UNCHANGED <<published, now, cache, seenAt>>

(* Google does not answer in ten seconds, or not with keys: the cache      *)
(* stays as it is, and the sign-in is refused.                             *)
FetchFails(r) ==
  /\ signin[r].pc = "fetch"
  /\ writer' = NoRequest
  /\ Fail(r)
  /\ UNCHANGED <<published, now, keys, fetchedAt, seenAt>>

Store(r) ==
  /\ signin[r].pc = "store"
  /\ keys' = signin[r].got
  /\ fetchedAt' = now
  /\ writer' = NoRequest
  /\ Go(r, "look")
  /\ UNCHANGED <<published, now, seenAt>>

(* Mutant: a key that is not among the cached ones is refused at once.     *)
LookOnce(r) ==
  /\ signin[r].pc = "look"
  /\ Got(r, IF signin[r].key \in signin[r].got THEN "verified" ELSE "unknown", {})
  /\ UNCHANGED <<published, now, cache, seenAt>>

(* The key function of VerifyGoogleIDToken.                                *)
Look(r) ==
  /\ signin[r].pc = "look"
  /\ \/ signin[r].key \in signin[r].got /\ Got(r, "verified", {})
     \/ signin[r].key \notin signin[r].got /\ signin[r].again /\ Got(r, "unknown", {})
     \/ signin[r].key \notin signin[r].got /\ ~ signin[r].again /\ Got(r, "expire", {})
  /\ UNCHANGED <<published, now, cache, seenAt>>

(* The key is missing: the cache is expired, under the write lock, and     *)
(* fetchJWKS called again.                                                 *)
Expire(r) ==
  /\ signin[r].pc = "expire" /\ writer = NoRequest
  /\ fetchedAt' = 0
  /\ signin' = [signin EXCEPT ![r].pc = "cached", ![r].again = TRUE]
  /\ UNCHANGED <<published, now, keys, writer, seenAt>>

Verdicts == {"verified", "unknown", "failed"}

Answer(r) ==
  /\ signin[r].pc \in Verdicts
  /\ signin' = [signin EXCEPT ![r] = NoSignin]
  /\ UNCHANGED <<published, now, cache, seenAt>>

SigninStep(r) ==
  \/ ReadCache(r) \/ TakeLock(r) \/ FetchAnswers(r) \/ FetchFails(r) \/ Store(r)
  \/ Look(r) \/ Expire(r) \/ Answer(r)

KeyNext == Rotate \/ Tick \/ \E r \in Requests : Present(r) \/ SigninStep(r)

(* A goroutine that can go on does; the client gives a fetch ten seconds;  *)
(* and sync.RWMutex, which others take again and again, lets nobody wait   *)
(* for it for ever: hence strong fairness.                                 *)
KeyFairness == \A r \in Requests : SF_keyVars(SigninStep(r))

KeySpec == KeyInit /\ [][KeyNext]_keyVars /\ KeyFairness

-----------------------------------------------------------------------------
(* The lock is held over a fetch and its store only, by one sign-in; and   *)
(* the cached keys were all published once they were fetched.              *)
KeyTypeOK ==
  /\ writer \in Requests \cup {NoRequest}
  /\ \A r \in Requests : signin[r].pc \in {"fetch", "store"} <=> writer = r
  /\ \A k \in keys : seenAt[k] > 0
  /\ fetchedAt \in 0 .. now

(* A token whose key has been published since it was presented is never    *)
(* refused for its key, whatever the cache held and whoever filled it: at  *)
(* worst the fetch fails.  What another sign-in stored in between is newer *)
(* than the expiry, since a fetch holds the lock until it is stored.       *)
KnownKeysAreFound ==
  /\ KeyTypeOK
  /\ \A r \in Requests : signin[r].pc = "unknown" => ~ signin[r].since

(* "Keys are cached for 6 hours": a token is accepted only under a key     *)
(* that was published in the six hours before it was presented or later.   *)
WithdrawnKeysExpire ==
  \A r \in Requests :
    signin[r].pc = "verified" => signin[r].at < seenAt[signin[r].key] + Life

(* Every sign-in is answered, though all wait for one slow fetch: none     *)
(* waits for the lock for ever, and a missing key does not make a sign-in  *)
(* go round more than once.                                                *)
SigninsAreAnswered ==
  \A r \in Requests : signin[r].pc # "idle" ~> signin[r].pc = "idle"
=============================================================================
