--------------------------- MODULE KeyCacheProofs ---------------------------
(***************************************************************************)
(* The two safety promises of the key cache, for any number of sign-ins,   *)
(* keys and rotations and any lifetime: a published key is never missed    *)
(* twice, and no key outlives its six hours.                               *)
(*                                                                         *)
(* Neither is inductive.  Refetched says what a sign-in that has expired   *)
(* the cache may rely on while others fill it again; Recent says how old   *)
(* the keys in the cache, and those read from it, can be.                  *)
(***************************************************************************)
EXTENDS KeyCache, TLAPS

SigninPcs == {"idle", "cached", "lock", "fetch", "store", "look", "expire"} \cup Verdicts

Signin == [pc : SigninPcs, key : Keys \cup {NoKey}, got : SUBSET Keys,
           again : BOOLEAN, at : Nat, since : BOOLEAN]

Typed ==
  /\ published \in SUBSET Keys /\ keys \in SUBSET Keys
  /\ now \in Nat \ {0} /\ fetchedAt \in 0 .. now
  /\ writer \in Requests \cup {NoRequest}
  /\ signin \in [Requests -> Signin]
  /\ seenAt \in [Keys -> Nat]

(* The write lock is held over a fetch and its store, by one sign-in.      *)
Locked == \A r \in Requests : signin[r].pc \in {"fetch", "store"} <=> writer = r

(* The clock of the keys: what is published was seen now, nothing later.   *)
Seen == \A k \in published : seenAt[k] = now

(* A key that counts as published since a token was presented is.          *)
SinceHolds == \A r \in Requests : signin[r].since => signin[r].key \in published

(* A sign-in that expired the cache, for a key published all the time.     *)
Retries(r) == signin[r].again /\ signin[r].since

Refetched ==
  \A r \in Requests : Retries(r) =>
    /\ signin[r].pc \in {"cached", "lock"} =>
         /\ fetchedAt # 0 => signin[r].key \in keys
         /\ \A w \in Requests : signin[w].pc = "store" => signin[r].key \in signin[w].got
    /\ signin[r].pc \in {"store", "look"} => signin[r].key \in signin[r].got
    /\ signin[r].pc # "unknown"

NotAgainNotUnknown ==
  \A r \in Requests : signin[r].pc = "unknown" => signin[r].again

Recent ==
  /\ \A k \in keys : seenAt[k] > 0 /\ seenAt[k] >= fetchedAt
  /\ \A r \in Requests :
       /\ signin[r].at <= now
       /\ signin[r].pc = "store" => \A k \in signin[r].got : seenAt[k] = now
       /\ signin[r].pc = "look" =>
            \A k \in signin[r].got : signin[r].at < seenAt[k] + Life
       /\ signin[r].pc = "verified" =>
            signin[r].key \in Keys /\ signin[r].at < seenAt[signin[r].key] + Life

KInv == Typed /\ Locked /\ Seen /\ SinceHolds /\ Refetched /\ NotAgainNotUnknown /\ Recent

-----------------------------------------------------------------------------
(* A sign-in that changes alone.                                           *)
LEMMA One ==
  ASSUME Typed, NEW r \in Requests, NEW q \in Signin,
         signin' = [signin EXCEPT ![r] = q]
  PROVE  /\ signin' \in [Requests -> Signin]
         /\ signin'[r] = q
         /\ \A s \in Requests : s # r => signin'[s] = signin[s]
BY DEF Typed

LEMMA GoShape ==
  ASSUME Typed, NEW r \in Requests, NEW pc \in SigninPcs, Go(r, pc)
  PROVE  /\ signin' \in [Requests -> Signin]
         /\ signin'[r].pc = pc /\ signin'[r].key = signin[r].key
         /\ signin'[r].got = signin[r].got /\ signin'[r].again = signin[r].again
         /\ signin'[r].at = signin[r].at /\ signin'[r].since = signin[r].since
         /\ \A s \in Requests : s # r => signin'[s] = signin[s]
<1> DEFINE q == [signin[r] EXCEPT !.pc = pc]
<1>1. /\ q \in Signin /\ q.pc = pc /\ q.key = signin[r].key
      /\ q.got = signin[r].got /\ q.again = signin[r].again
      /\ q.at = signin[r].at /\ q.since = signin[r].since
  BY DEF Typed, Signin
<1>2. signin' = [signin EXCEPT ![r] = q]
  BY DEF Go, Typed
<1> HIDE DEF q
<1> QED
  BY <1>1, <1>2, One

LEMMA GotShape ==
  ASSUME Typed, NEW r \in Requests, NEW pc \in SigninPcs, NEW set \in SUBSET Keys,
         Got(r, pc, set)
  PROVE  /\ signin' \in [Requests -> Signin]
         /\ signin'[r].pc = pc /\ signin'[r].key = signin[r].key
         /\ signin'[r].got = set /\ signin'[r].again = signin[r].again
         /\ signin'[r].at = signin[r].at /\ signin'[r].since = signin[r].since
         /\ \A s \in Requests : s # r => signin'[s] = signin[s]
<1> DEFINE q == [signin[r] EXCEPT !.pc = pc, !.got = set]
<1>1. /\ q \in Signin /\ q.pc = pc /\ q.key = signin[r].key
      /\ q.got = set /\ q.again = signin[r].again
      /\ q.at = signin[r].at /\ q.since = signin[r].since
  BY DEF Typed, Signin
<1>2. signin' = [signin EXCEPT ![r] = q]
  BY DEF Got, Typed
<1> HIDE DEF q
<1> QED
  BY <1>1, <1>2, One

LEMMA PcsOf ==
  /\ {"idle", "cached", "lock", "fetch", "store", "look", "expire",
      "verified", "unknown", "failed"} = SigninPcs
BY DEF SigninPcs, Verdicts

LEMMA NoSigninType == NoSignin \in Signin
BY PcsOf DEF NoSignin, Signin

-----------------------------------------------------------------------------
(* The steps, one at a time. *)

LEMMA RotateKeeps ==
  ASSUME KInv, Rotate
  PROVE  KInv'
<1>0. /\ Typed /\ UNCHANGED <<now, keys, fetchedAt, writer>>
      /\ published' \in SUBSET Keys
  BY DEF Rotate, KInv, cache, Typed
<1>1. \A k \in Keys : seenAt'[k] = IF k \in published \cup published' THEN now ELSE seenAt[k]
  BY DEF Rotate
<1>2. seenAt' \in [Keys -> Nat]
  BY <1>0 DEF Rotate, Typed
<1>3. \A k \in Keys : seenAt'[k] >= seenAt[k] /\ (seenAt[k] = now => seenAt'[k] = now)
                      /\ seenAt[k] \in Nat /\ seenAt'[k] \in Nat
  <2>1. \A k \in published : seenAt[k] = now
    BY DEF KInv, Seen
  <2>2. ASSUME NEW k \in published', k \notin published
        PROVE  seenAt[k] = 0
    BY <2>2 DEF Rotate
  <2> QED
    BY <1>0, <1>1, <1>2, <2>1, <2>2 DEF Typed
<1>4. ASSUME NEW r \in Requests
      PROVE  /\ signin'[r] \in Signin
             /\ signin'[r].pc = signin[r].pc /\ signin'[r].key = signin[r].key
             /\ signin'[r].got = signin[r].got /\ signin'[r].again = signin[r].again
             /\ signin'[r].at = signin[r].at
             /\ signin'[r].since => signin[r].since /\ signin[r].key \in published'
             /\ signin[r] \in Signin
  <2> DEFINE q == [signin[r] EXCEPT !.since = signin[r].since /\ signin[r].key \in published']
  <2>1. signin[r] \in Signin
    BY <1>0 DEF Typed
  <2>2. signin'[r] = q
    BY DEF Rotate
  <2>3. (signin[r].since /\ signin[r].key \in published') \in BOOLEAN
    BY <2>1 DEF Signin
  <2> QED
    BY <2>1, <2>2, <2>3 DEF Signin
<1>5. signin' \in [Requests -> Signin]
  BY <1>4 DEF Rotate
<1>6. Typed'
  BY <1>0, <1>2, <1>5 DEF Typed
<1>7. Locked' /\ SinceHolds' /\ NotAgainNotUnknown'
  BY <1>0, <1>4 DEF KInv, Locked, SinceHolds, NotAgainNotUnknown
<1>8. Seen'
  BY <1>0, <1>1 DEF Seen
<1>9. Refetched'
  BY <1>0, <1>4 DEF KInv, Refetched, Retries
<1>10. Recent'
  <2>1. \A k \in keys' : seenAt'[k] > 0 /\ seenAt'[k] >= fetchedAt'
    BY <1>0, <1>3 DEF KInv, Recent, Typed
  <2>2. ASSUME NEW r \in Requests
        PROVE  /\ signin'[r].at <= now'
               /\ signin'[r].pc = "store" => \A k \in signin'[r].got : seenAt'[k] = now'
               /\ signin'[r].pc = "look" =>
                    \A k \in signin'[r].got : signin'[r].at < seenAt'[k] + Life
               /\ signin'[r].pc = "verified" =>
                    signin'[r].key \in Keys /\ signin'[r].at < seenAt'[signin'[r].key] + Life
    <3>1. signin[r].at \in Nat /\ signin[r].got \in SUBSET Keys /\ Life \in Nat
      BY <1>4, KeyCacheAssumption DEF Signin
    <3> QED
      BY <1>0, <1>3, <1>4, <3>1 DEF KInv, Recent
  <2> QED
    BY <2>1, <2>2 DEF Recent
<1> QED
  BY <1>6, <1>7, <1>8, <1>9, <1>10 DEF KInv

LEMMA TickKeeps ==
  ASSUME KInv, Tick
  PROVE  KInv'
<1>0. /\ Typed /\ UNCHANGED <<published, keys, fetchedAt, writer, signin>>
      /\ writer = NoRequest /\ now' = now + 1 /\ now \in Nat /\ now' \in Nat \ {0}
      /\ \A r \in Requests : signin[r].pc \notin {"fetch", "store"}
  BY KeyCacheAssumption DEF Tick, KInv, cache, Typed, Locked
<1>1. \A k \in Keys : seenAt'[k] = IF k \in published THEN now + 1 ELSE seenAt[k]
  BY <1>0 DEF Tick
<1>2. seenAt' \in [Keys -> Nat]
  BY <1>0 DEF Tick, Typed
<1>3. \A k \in Keys : seenAt'[k] >= seenAt[k] /\ seenAt[k] \in Nat /\ seenAt'[k] \in Nat
  BY <1>0, <1>1, <1>2 DEF KInv, Seen, Typed
<1>4. Typed'
  BY <1>0, <1>2 DEF Typed
<1>5. Seen'
  BY <1>0, <1>1 DEF Seen, Typed
<1>6. Recent'
  <2>1. \A k \in keys' : seenAt'[k] > 0 /\ seenAt'[k] >= fetchedAt'
    BY <1>0, <1>3 DEF KInv, Recent, Typed
  <2>2. ASSUME NEW r \in Requests
        PROVE  /\ signin'[r].at <= now'
               /\ signin'[r].pc = "store" => \A k \in signin'[r].got : seenAt'[k] = now'
               /\ signin'[r].pc = "look" =>
                    \A k \in signin'[r].got : signin'[r].at < seenAt'[k] + Life
               /\ signin'[r].pc = "verified" =>
                    signin'[r].key \in Keys /\ signin'[r].at < seenAt'[signin'[r].key] + Life
    <3>1. signin[r].at \in Nat /\ signin[r].got \in SUBSET Keys /\ Life \in Nat
      BY <1>0, KeyCacheAssumption DEF Typed, Signin
    <3> QED
      BY <1>0, <1>3, <3>1 DEF KInv, Recent
  <2> QED
    BY <2>1, <2>2 DEF Recent
<1> QED
  BY <1>0, <1>4, <1>5, <1>6
     DEF KInv, Locked, SinceHolds, Refetched, Retries, NotAgainNotUnknown

(* A step of one sign-in that leaves the lock with whom it was and the     *)
(* cache as it is, and moves between pcs without the lock.                 *)
LEMMA AloneKeeps ==
  ASSUME KInv, NEW r \in Requests, NEW q \in Signin,
         signin' = [signin EXCEPT ![r] = q],
         UNCHANGED <<published, now, keys, fetchedAt, writer, seenAt>>,
         signin[r].pc \notin {"fetch", "store"}, q.pc \notin {"fetch", "store"},
         q.since => q.key \in published,
         q.pc = "unknown" => q.again /\ ~ q.since,
         q.at <= now,
         q.again /\ q.since /\ q.pc \in {"cached", "lock"} =>
           signin[r] = [q EXCEPT !.pc = "cached"],
         q.again /\ q.since /\ q.pc = "look" => q.key \in q.got,
         q.pc = "look" => \A k \in q.got : q.at < seenAt[k] + Life,
         q.pc = "verified" => q.key \in Keys /\ q.at < seenAt[q.key] + Life
  PROVE  KInv'
<1>0. Typed
  BY DEF KInv
<1>1. /\ signin' \in [Requests -> Signin]
      /\ signin'[r] = q
      /\ \A s \in Requests : s # r => signin'[s] = signin[s]
  BY <1>0, One
<1>2. Typed'
  BY <1>0, <1>1 DEF Typed
<1>3. Locked' /\ Seen' /\ SinceHolds' /\ NotAgainNotUnknown'
  BY <1>1 DEF KInv, Locked, Seen, SinceHolds, NotAgainNotUnknown
<1>4. Recent'
  BY <1>1 DEF KInv, Recent
<1>5. Refetched'
  <2>1. \A w \in Requests : signin'[w].pc = "store" => signin'[w] = signin[w] /\ w # r
    BY <1>1
  <2>2. ASSUME NEW s \in Requests, s # r, Retries(s)'
        PROVE  /\ signin'[s].pc \in {"cached", "lock"} =>
                    /\ fetchedAt' # 0 => signin'[s].key \in keys'
                    /\ \A w \in Requests :
                         signin'[w].pc = "store" => signin'[s].key \in signin'[w].got
               /\ signin'[s].pc \in {"store", "look"} => signin'[s].key \in signin'[s].got
               /\ signin'[s].pc # "unknown"
    BY <1>1, <2>1, <2>2 DEF KInv, Refetched, Retries
  <2>3. ASSUME Retries(r)'
        PROVE  /\ signin'[r].pc \in {"cached", "lock"} =>
                    /\ fetchedAt' # 0 => signin'[r].key \in keys'
                    /\ \A w \in Requests :
                         signin'[w].pc = "store" => signin'[r].key \in signin'[w].got
               /\ signin'[r].pc \in {"store", "look"} => signin'[r].key \in signin'[r].got
               /\ signin'[r].pc # "unknown"
    <3>1. q.again /\ q.since
      BY <1>1, <2>3 DEF Retries
    <3>2. CASE q.pc \in {"cached", "lock"}
      <4>1. /\ signin[r].pc = "cached" /\ signin[r].key = q.key
            /\ signin[r].again /\ signin[r].since
        BY <3>1, <3>2 DEF Signin
      <4> QED
        BY <1>1, <2>1, <3>2, <4>1 DEF KInv, Refetched, Retries
    <3>3. CASE q.pc \notin {"cached", "lock"}
      BY <1>1, <3>1, <3>3
    <3> QED
      BY <3>2, <3>3
  <2> QED
    BY <2>2, <2>3 DEF Refetched
<1> QED
  BY <1>2, <1>3, <1>4, <1>5 DEF KInv

LEMMA PresentKeeps ==
  ASSUME KInv, NEW r \in Requests, Present(r)
  PROVE  KInv'
<1>1. PICK k \in Keys :
        signin' = [signin EXCEPT ![r] =
          [NoSignin EXCEPT !.pc = "cached", !.key = k, !.at = now, !.since = k \in published]]
  BY DEF Present
<1> DEFINE q == [NoSignin EXCEPT !.pc = "cached", !.key = k, !.at = now,
                                 !.since = k \in published]
<1>2. /\ q \in Signin /\ q.pc = "cached" /\ q.key = k /\ ~ q.again
      /\ q.at = now /\ (q.since <=> k \in published)
  <2>1. /\ NoSignin \in Signin /\ ~ NoSignin.again
        /\ now \in Nat /\ "cached" \in SigninPcs
    BY NoSigninType, PcsOf DEF KInv, Typed, NoSignin
  <2>2. (k \in published) \in BOOLEAN
    OBVIOUS
  <2>3. PICK b \in BOOLEAN : b = (k \in published)
    BY <2>2
  <2>4. q = [NoSignin EXCEPT !.pc = "cached", !.key = k, !.at = now, !.since = b]
    BY <2>3
  <2> HIDE DEF q
  <2> QED
    BY <2>1, <2>3, <2>4 DEF Signin
<1>3. signin' = [signin EXCEPT ![r] = q]
  BY <1>1
<1> HIDE DEF q
<1>4. q.at <= now /\ signin[r].pc = "idle"
      /\ UNCHANGED <<published, now, keys, fetchedAt, writer, seenAt>>
  BY <1>2 DEF Present, KInv, Typed, cache
<1> QED
  BY <1>2, <1>3, <1>4, AloneKeeps

LEMMA AnswerKeeps ==
  ASSUME KInv, NEW r \in Requests, Answer(r)
  PROVE  KInv'
<1>1. /\ NoSignin \in Signin /\ NoSignin.pc = "idle" /\ ~ NoSignin.again
      /\ ~ NoSignin.since /\ NoSignin.at <= now
  BY NoSigninType DEF NoSignin, KInv, Typed
<1>2. /\ signin[r].pc \notin {"fetch", "store"}
      /\ signin' = [signin EXCEPT ![r] = NoSignin]
      /\ UNCHANGED <<published, now, keys, fetchedAt, writer, seenAt>>
  BY DEF Answer, Verdicts, cache
<1> QED
  BY <1>1, <1>2, AloneKeeps

(* The cached keys, read while they are fresh, are recent enough for any   *)
(* token presented before, and hold the key a retry is looking for.        *)
LEMMA FreshKeys ==
  ASSUME KInv, NEW r \in Requests, Fresh, signin[r].pc \in {"cached", "lock"}
  PROVE  /\ \A k \in keys : signin[r].at < seenAt[k] + Life
         /\ Retries(r) => signin[r].key \in keys
<1>1. /\ now \in Nat /\ fetchedAt \in Nat /\ Life \in Nat /\ signin[r].at \in Nat
      /\ \A k \in keys : seenAt[k] \in Nat /\ seenAt[k] >= fetchedAt
      /\ signin[r].at <= now /\ now - fetchedAt < Life /\ fetchedAt # 0
  BY KeyCacheAssumption DEF KInv, Typed, Signin, Recent, Fresh
<1>2. Retries(r) => signin[r].key \in keys
  BY <1>1 DEF KInv, Refetched
<1> QED
  BY <1>1, <1>2

LEMMA LookAtCached ==
  ASSUME KInv, NEW r \in Requests, Fresh, signin[r].pc \in {"cached", "lock"},
         Got(r, "look", keys),
         UNCHANGED <<published, now, keys, fetchedAt, writer, seenAt>>
  PROVE  KInv'
<1> DEFINE q == [signin[r] EXCEPT !.pc = "look", !.got = keys]
<1>1. /\ signin[r] \in Signin /\ keys \in SUBSET Keys
  BY DEF KInv, Typed
<1>2. /\ q \in Signin /\ q.pc = "look" /\ q.got = keys /\ q.key = signin[r].key
      /\ q.again = signin[r].again /\ q.since = signin[r].since /\ q.at = signin[r].at
  BY <1>1, PcsOf DEF Signin
<1>3. signin' = [signin EXCEPT ![r] = q]
  BY DEF Got, KInv, Typed
<1> HIDE DEF q
<1>4. /\ q.since => q.key \in published
      /\ q.at <= now
      /\ q.again /\ q.since => q.key \in q.got
      /\ \A k \in q.got : q.at < seenAt[k] + Life
  BY <1>2, FreshKeys DEF KInv, SinceHolds, Recent, Retries
<1> QED
  BY <1>2, <1>3, <1>4, AloneKeeps

LEMMA ReadCacheKeeps ==
  ASSUME KInv, NEW r \in Requests, ReadCache(r)
  PROVE  KInv'
<1>0. /\ signin[r].pc = "cached"
      /\ UNCHANGED <<published, now, keys, fetchedAt, writer, seenAt>>
  BY DEF ReadCache, cache
<1>1. CASE Fresh
  BY <1>0, <1>1, LookAtCached DEF ReadCache
<1>2. CASE ~ Fresh
  <2> DEFINE q == [signin[r] EXCEPT !.pc = "lock"]
  <2>1. signin[r] \in Signin
    BY DEF KInv, Typed
  <2>2. /\ q \in Signin /\ q.pc = "lock" /\ q.key = signin[r].key
        /\ q.again = signin[r].again /\ q.since = signin[r].since /\ q.at = signin[r].at
        /\ signin[r] = [q EXCEPT !.pc = "cached"]
    BY <1>0, <2>1, PcsOf DEF Signin
  <2>3. signin' = [signin EXCEPT ![r] = q]
    BY <1>2 DEF ReadCache, Go, KInv, Typed
  <2> HIDE DEF q
  <2>4. (q.since => q.key \in published) /\ q.at <= now
    BY <2>2 DEF KInv, SinceHolds, Recent
  <2> QED
    BY <1>0, <2>2, <2>3, <2>4, AloneKeeps
<1> QED
  BY <1>1, <1>2

LEMMA LookKeeps ==
  ASSUME KInv, NEW r \in Requests, Look(r)
  PROVE  KInv'
<1>0. /\ signin[r].pc = "look" /\ signin[r] \in Signin
      /\ UNCHANGED <<published, now, keys, fetchedAt, writer, seenAt>>
  BY DEF Look, cache, KInv, Typed
<1>1. PICK pc \in {"verified", "unknown", "expire"} :
        /\ Got(r, pc, {})
        /\ pc = "verified" => signin[r].key \in signin[r].got
        /\ pc = "unknown" => signin[r].key \notin signin[r].got /\ signin[r].again
  BY DEF Look
<1> DEFINE q == [signin[r] EXCEPT !.pc = pc, !.got = {}]
<1>2. /\ q \in Signin /\ q.pc = pc /\ q.key = signin[r].key
      /\ q.again = signin[r].again /\ q.since = signin[r].since /\ q.at = signin[r].at
  BY <1>0, PcsOf DEF Signin
<1>3. signin' = [signin EXCEPT ![r] = q]
  BY <1>1 DEF Got, KInv, Typed
<1> HIDE DEF q
<1>4. /\ q.since => q.key \in published
      /\ q.at <= now
      /\ q.pc = "verified" => q.key \in Keys /\ q.at < seenAt[q.key] + Life
  BY <1>0, <1>1, <1>2 DEF KInv, SinceHolds, Recent, Signin
<1>5. q.pc = "unknown" => q.again /\ ~ q.since
  BY <1>0, <1>1, <1>2 DEF KInv, Refetched, Retries
<1> QED
  BY <1>0, <1>1, <1>2, <1>3, <1>4, <1>5, AloneKeeps

(* What the steps that touch the lock or the cache leave alone.            *)
LEMMA TakeLockKeeps ==
  ASSUME KInv, NEW r \in Requests, TakeLock(r)
  PROVE  KInv'
<1>0. /\ signin[r].pc = "lock" /\ writer = NoRequest
      /\ UNCHANGED <<published, now, keys, fetchedAt, seenAt>>
  BY DEF TakeLock
<1>1. CASE Fresh
  BY <1>0, <1>1, LookAtCached DEF TakeLock
<1>2. CASE ~ Fresh
  <2>0. Go(r, "fetch") /\ writer' = r /\ Typed /\ "fetch" \in SigninPcs
    BY <1>2, PcsOf DEF TakeLock, KInv
  <2>1. /\ signin' \in [Requests -> Signin]
        /\ signin'[r].pc = "fetch" /\ signin'[r].key = signin[r].key
        /\ signin'[r].got = signin[r].got /\ signin'[r].again = signin[r].again
        /\ signin'[r].at = signin[r].at /\ signin'[r].since = signin[r].since
        /\ \A s \in Requests : s # r => signin'[s] = signin[s]
    BY <2>0, GoShape
  <2>2. Typed'
    BY <1>0, <2>0, <2>1 DEF Typed
  <2>3. Locked'
    <3>1. \A s \in Requests : signin[s].pc \notin {"fetch", "store"}
      BY <1>0, KeyCacheAssumption DEF KInv, Locked
    <3> QED
      BY <2>0, <2>1, <3>1 DEF Locked
  <2>4. Seen' /\ SinceHolds' /\ NotAgainNotUnknown'
    BY <1>0, <2>1 DEF KInv, Seen, SinceHolds, NotAgainNotUnknown
  <2>5. Refetched'
    BY <1>0, <2>1 DEF KInv, Refetched, Retries
  <2>6. Recent'
    BY <1>0, <2>1 DEF KInv, Recent
  <2> QED
    BY <2>2, <2>3, <2>4, <2>5, <2>6 DEF KInv
<1> QED
  BY <1>1, <1>2

(* The keys Google answers with hold every key published since a token     *)
(* was presented, and were all seen now.                                   *)
LEMMA FetchAnswersKeeps ==
  ASSUME KInv, NEW r \in Requests, FetchAnswers(r)
  PROVE  KInv'
<1>0. /\ signin[r].pc = "fetch" /\ Got(r, "store", published) /\ Typed
      /\ UNCHANGED <<published, now, keys, fetchedAt, writer, seenAt>>
      /\ "store" \in SigninPcs /\ published \in SUBSET Keys
  BY PcsOf DEF FetchAnswers, cache, KInv, Typed
<1>1. /\ signin' \in [Requests -> Signin]
      /\ signin'[r].pc = "store" /\ signin'[r].key = signin[r].key
      /\ signin'[r].got = published /\ signin'[r].again = signin[r].again
      /\ signin'[r].at = signin[r].at /\ signin'[r].since = signin[r].since
      /\ \A s \in Requests : s # r => signin'[s] = signin[s]
  BY <1>0, GotShape
<1>2. Typed'
  BY <1>0, <1>1 DEF Typed
<1>3. Locked' /\ Seen' /\ SinceHolds' /\ NotAgainNotUnknown'
  BY <1>0, <1>1 DEF KInv, Locked, Seen, SinceHolds, NotAgainNotUnknown
<1>4. Refetched'
  <2>1. ASSUME NEW s \in Requests, Retries(s)'
        PROVE  signin'[s].key \in published /\ Retries(s)
    BY <1>1, <2>1 DEF KInv, SinceHolds, Retries
  <2> QED
    BY <1>0, <1>1, <2>1 DEF KInv, Refetched
<1>5. Recent'
  BY <1>0, <1>1 DEF KInv, Recent, Seen
<1> QED
  BY <1>2, <1>3, <1>4, <1>5 DEF KInv

LEMMA FetchFailsKeeps ==
  ASSUME KInv, NEW r \in Requests, FetchFails(r)
  PROVE  KInv'
<1>0. /\ signin[r].pc = "fetch" /\ Fail(r) /\ Typed /\ writer' = NoRequest
      /\ UNCHANGED <<published, now, keys, fetchedAt, seenAt>>
      /\ "failed" \in SigninPcs
  BY PcsOf DEF FetchFails, KInv
<1>1. /\ signin' \in [Requests -> Signin]
      /\ signin'[r].pc = "failed" /\ signin'[r].key = NoKey
      /\ signin'[r].got = {} /\ ~ signin'[r].again
      /\ signin'[r].at = 0 /\ ~ signin'[r].since
      /\ \A s \in Requests : s # r => signin'[s] = signin[s]
  <2> DEFINE q == [NoSignin EXCEPT !.pc = "failed"]
  <2>1. /\ q \in Signin /\ q.pc = "failed" /\ q.key = NoKey
        /\ q.got = {} /\ q.again = FALSE /\ q.at = 0 /\ q.since = FALSE
    BY <1>0, NoSigninType DEF NoSignin, Signin
  <2>2. signin' = [signin EXCEPT ![r] = q]
    BY <1>0 DEF Fail
  <2> HIDE DEF q
  <2> QED
    BY <1>0, <2>1, <2>2, One
<1>2. Typed'
  BY <1>0, <1>1 DEF Typed
<1>3. Locked'
  BY <1>0, <1>1, KeyCacheAssumption DEF KInv, Locked
<1>4. Seen' /\ SinceHolds' /\ NotAgainNotUnknown'
  BY <1>0, <1>1 DEF KInv, Seen, SinceHolds, NotAgainNotUnknown
<1>5. Refetched'
  BY <1>0, <1>1 DEF KInv, Refetched, Retries
<1>6. Recent'
  <2>1. 0 <= now
    BY <1>0 DEF Typed
  <2> QED
    BY <1>0, <1>1, <2>1 DEF KInv, Recent
<1> QED
  BY <1>2, <1>3, <1>4, <1>5, <1>6 DEF KInv

LEMMA StoreKeeps ==
  ASSUME KInv, NEW r \in Requests, Store(r)
  PROVE  KInv'
<1>0. /\ signin[r].pc = "store" /\ Go(r, "look") /\ Typed /\ writer' = NoRequest
      /\ keys' = signin[r].got /\ fetchedAt' = now
      /\ UNCHANGED <<published, now, seenAt>>
      /\ "look" \in SigninPcs
      /\ signin[r] \in Signin
  BY PcsOf DEF Store, KInv, Typed
<1>1. /\ signin' \in [Requests -> Signin]
      /\ signin'[r].pc = "look" /\ signin'[r].key = signin[r].key
      /\ signin'[r].got = signin[r].got /\ signin'[r].again = signin[r].again
      /\ signin'[r].at = signin[r].at /\ signin'[r].since = signin[r].since
      /\ \A s \in Requests : s # r => signin'[s] = signin[s]
  BY <1>0, GoShape
<1>2. Typed'
  BY <1>0, <1>1 DEF Typed, Signin
<1>3. Locked' /\ \A s \in Requests : s # r => signin[s].pc \notin {"fetch", "store"}
  BY <1>0, <1>1, KeyCacheAssumption DEF KInv, Locked
<1>4. Seen' /\ SinceHolds' /\ NotAgainNotUnknown'
  BY <1>0, <1>1 DEF KInv, Seen, SinceHolds, NotAgainNotUnknown
<1>5. Refetched'
  BY <1>0, <1>1, <1>3 DEF KInv, Refetched, Retries
<1>6. Recent'
  <2>1. /\ now \in Nat \ {0} /\ Life \in Nat \ {0} /\ signin[r].at \in Nat
        /\ signin[r].at <= now
        /\ \A k \in signin[r].got : seenAt[k] = now
    BY <1>0, KeyCacheAssumption DEF KInv, Typed, Signin, Recent
  <2>2. \A k \in keys' : seenAt'[k] > 0 /\ seenAt'[k] >= fetchedAt'
    BY <1>0, <2>1
  <2> QED
    BY <1>0, <1>1, <2>1, <2>2 DEF KInv, Recent
<1> QED
  BY <1>2, <1>3, <1>4, <1>5, <1>6 DEF KInv

(* The cache is expired while nobody fetches, so what it holds next was    *)
(* asked for later.                                                        *)
LEMMA ExpireKeeps ==
  ASSUME KInv, NEW r \in Requests, Expire(r)
  PROVE  KInv'
<1> DEFINE q == [signin[r] EXCEPT !.pc = "cached", !.again = TRUE]
<1>0. /\ signin[r].pc = "expire" /\ Typed /\ writer = NoRequest /\ fetchedAt' = 0
      /\ UNCHANGED <<published, now, keys, writer, seenAt>>
      /\ signin[r] \in Signin
  BY DEF Expire, KInv, Typed
<1>1. /\ q \in Signin /\ q.pc = "cached" /\ q.key = signin[r].key
      /\ q.since = signin[r].since /\ q.at = signin[r].at
  BY <1>0, PcsOf DEF Signin
<1>2. signin' = [signin EXCEPT ![r] = q]
  BY <1>0 DEF Expire, Typed
<1> HIDE DEF q
<1>3. /\ signin' \in [Requests -> Signin]
      /\ signin'[r] = q
      /\ \A s \in Requests : s # r => signin'[s] = signin[s]
  BY <1>0, <1>1, <1>2, One
<1>4. \A s \in Requests : signin'[s].pc \notin {"fetch", "store"}
  BY <1>0, <1>1, <1>3, KeyCacheAssumption DEF KInv, Locked
<1>5. Typed'
  BY <1>0, <1>3 DEF Typed
<1>6. Locked'
  BY <1>0, <1>4, KeyCacheAssumption DEF Locked
<1>7. Seen' /\ SinceHolds' /\ NotAgainNotUnknown'
  BY <1>0, <1>1, <1>3 DEF KInv, Seen, SinceHolds, NotAgainNotUnknown
<1>8. Refetched'
  BY <1>0, <1>1, <1>3, <1>4 DEF KInv, Refetched, Retries
<1>9. Recent'
  BY <1>0, <1>1, <1>3 DEF KInv, Recent, Typed
<1> QED
  BY <1>5, <1>6, <1>7, <1>8, <1>9 DEF KInv

-----------------------------------------------------------------------------
LEMMA Initially == KeyInit => KInv
<1> SUFFICES ASSUME KeyInit
             PROVE  KInv
  OBVIOUS
<1>1. \A r \in Requests : /\ signin[r] = NoSignin /\ signin[r].pc = "idle"
                          /\ ~ signin[r].since /\ signin[r].at = 0
  BY DEF KeyInit, NoSignin
<1>2. Typed
  BY NoSigninType DEF KeyInit, Typed
<1>3. Locked /\ SinceHolds /\ Refetched /\ NotAgainNotUnknown
  BY <1>1, KeyCacheAssumption
     DEF KeyInit, Locked, SinceHolds, Refetched, Retries, NotAgainNotUnknown
<1>4. Seen
  BY DEF KeyInit, Seen
<1>5. Recent
  <2>1. keys = {} /\ now = 1
    BY DEF KeyInit
  <2> QED
    BY <1>1, <2>1 DEF Recent
<1> QED
  BY <1>2, <1>3, <1>4, <1>5 DEF KInv

LEMMA Inductive == KInv /\ [KeyNext]_keyVars => KInv'
<1> SUFFICES ASSUME KInv, [KeyNext]_keyVars
             PROVE  KInv'
  OBVIOUS
<1>1. CASE UNCHANGED keyVars
  BY <1>1 DEF keyVars, KInv, Typed, Locked, Seen, SinceHolds, Refetched, Retries,
              NotAgainNotUnknown, Recent
<1>2. ASSUME NEW r \in Requests, SigninStep(r)
      PROVE  KInv'
  BY <1>2, ReadCacheKeeps, TakeLockKeeps, FetchAnswersKeeps, FetchFailsKeeps,
     StoreKeeps, LookKeeps, ExpireKeeps, AnswerKeeps DEF SigninStep
<1> QED
  BY <1>1, <1>2, RotateKeeps, TickKeeps, PresentKeeps DEF KeyNext

(* A sign-in whose key was published all the time is never refused for it: *)
(* the double fetch of VerifyGoogleIDToken suffices, whoever else expires  *)
(* or fills the cache, and the lock is held by the fetching sign-in alone. *)
THEOREM KnownKeys == KeySpec => []KnownKeysAreFound
<1>1. KInv => KnownKeysAreFound
  <2> SUFFICES ASSUME KInv
               PROVE  KnownKeysAreFound
    OBVIOUS
  <2>1. KeyTypeOK
    BY DEF KInv, Typed, Locked, Recent, KeyTypeOK
  <2>2. \A r \in Requests : signin[r].pc = "unknown" => ~ signin[r].since
    BY DEF KInv, Refetched, NotAgainNotUnknown, Retries
  <2> QED
    BY <2>1, <2>2 DEF KnownKeysAreFound
<1> QED
  BY Initially, Inductive, <1>1, PTL DEF KeySpec

(* A token is accepted only under a key published within the lifetime of   *)
(* the cache before it was presented, or after: fetchedAt never says more  *)
(* of the cached keys than is true.                                        *)
THEOREM KeysExpire == KeySpec => []WithdrawnKeysExpire
<1>1. KInv => WithdrawnKeysExpire
  BY DEF KInv, Recent, WithdrawnKeysExpire
<1> QED
  BY Initially, Inductive, <1>1, PTL DEF KeySpec
=============================================================================
