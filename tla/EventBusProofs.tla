--------------------------- MODULE EventBusProofs ---------------------------
(***************************************************************************)
(* Every subscribed handler gets every event once, for any number of       *)
(* publishers, workers, handlers and events and any capacity of the queue. *)
(*                                                                         *)
(* EachHandlerOnce counts places and is not inductive.  The invariant      *)
(* speaks of the sets of jobs that are in each kind of place: they are     *)
(* disjoint (PlacesApart), make up what was addressed since the last       *)
(* restart (Accounted), and no kind of place holds a job twice             *)
(* (HeldOnce).  A step then moves one job from one set to another.         *)
(***************************************************************************)
EXTENDS Notifications, SequenceTheorems, FiniteSetTheorems, TLAPS

Once(s) == \A i, j \in DOMAIN s : s[i] = s[j] => i = j

(* The jobs that are in the hands of publishers, queue and workers.        *)
InHand ==
  {j \in Job : \E p \in Publishers :
     publishing[p].event = j.event /\ j.handler \in ToSet(publishing[p].rest)}
InQueue == ToSet(queue)
InWork == {j \in Job : \E w \in Workers : worker[w] = j}

Current == {j \in Job : forgotten < j.event /\ j.event <= published}

HeldOnce ==
  /\ \A name \in EventNames : Once(handlers[name])
  /\ \A p \in Publishers : Once(publishing[p].rest)
  /\ \A p, q \in Publishers :
       publishing[p].event # 0 /\ publishing[p].event = publishing[q].event => p = q
  /\ Once(queue)
  /\ \A w, v \in Workers : worker[w].event # 0 /\ worker[w] = worker[v] => w = v

PublishersKnown ==
  \A p \in Publishers :
    /\ publishing[p].event = 0 => publishing[p].rest = <<>>
    /\ publishing[p].event # 0 => publishing[p].event \in forgotten + 1 .. published

PlacesApart ==
  /\ InHand \cap (InQueue \cup InWork \cup spilled \cup ran) = {}
  /\ InQueue \cap (InWork \cup spilled \cup ran) = {}
  /\ InWork \cap (spilled \cup ran) = {}
  /\ spilled \cap ran = {}

Accounted ==
  /\ InQueue \cup InWork \cup spilled \subseteq Current
  /\ \A j \in ran : j.event <= published
  /\ \A j \in Current :
       j \in InHand \cup InQueue \cup InWork \cup spilled \cup ran
         <=> j.handler \in addressed[j.event]

BInv == TypeOK /\ HeldOnce /\ PublishersKnown /\ PlacesApart /\ Accounted

-----------------------------------------------------------------------------
(* Sequences without repetition. *)

LEMMA OnceAppend ==
  ASSUME NEW S, NEW s \in Seq(S), NEW e \in S
  PROVE  /\ Append(s, e) \in Seq(S)
         /\ Len(Append(s, e)) = Len(s) + 1
         /\ ToSet(Append(s, e)) = ToSet(s) \cup {e}
         /\ Once(s) /\ e \notin ToSet(s) => Once(Append(s, e))
<1>1. /\ Append(s, e) \in Seq(S)
      /\ Len(Append(s, e)) = Len(s) + 1
      /\ \A i \in 1 .. Len(s) : Append(s, e)[i] = s[i]
      /\ Append(s, e)[Len(s) + 1] = e
  BY AppendProperties
<1>2. /\ DOMAIN s = 1 .. Len(s) /\ Len(s) \in Nat
      /\ DOMAIN Append(s, e) = 1 .. Len(s) + 1
  BY <1>1, LenProperties
<1>3. ToSet(Append(s, e)) = ToSet(s) \cup {e}
  BY <1>1, <1>2 DEF ToSet
<1>4. Once(s) /\ e \notin ToSet(s) => Once(Append(s, e))
  BY <1>1, <1>2 DEF ToSet, Once
<1> QED
  BY <1>1, <1>3, <1>4

LEMMA OnceTail ==
  ASSUME NEW S, NEW s \in Seq(S), s # <<>>
  PROVE  /\ Tail(s) \in Seq(S) /\ Head(s) \in S
         /\ Len(Tail(s)) = Len(s) - 1
         /\ Head(s) \in ToSet(s)
         /\ Once(s) => Once(Tail(s)) /\ ToSet(Tail(s)) = ToSet(s) \ {Head(s)}
<1>1. /\ Head(s) \in S
      /\ Tail(s) \in Seq(S)
      /\ Len(Tail(s)) = Len(s) - 1
      /\ \A i \in 1 .. Len(Tail(s)) : Tail(s)[i] = s[i + 1]
  BY HeadTailProperties
<1>2. /\ DOMAIN s = 1 .. Len(s) /\ Len(s) \in Nat \ {0}
      /\ DOMAIN Tail(s) = 1 .. Len(s) - 1
  BY <1>1, LenProperties, EmptySeq
<1>3. Head(s) = s[1]
  OBVIOUS
<1>4. Head(s) \in ToSet(s)
  BY <1>2, <1>3 DEF ToSet
<1>5. ASSUME Once(s)
      PROVE  Once(Tail(s)) /\ ToSet(Tail(s)) = ToSet(s) \ {Head(s)}
  <2>1. Once(Tail(s))
    BY <1>1, <1>2, <1>5 DEF Once
  <2>2. \A x \in ToSet(Tail(s)) : x \in ToSet(s) /\ x # Head(s)
    BY <1>1, <1>2, <1>3, <1>5 DEF ToSet, Once
  <2>3. ASSUME NEW x \in ToSet(s), x # Head(s)
        PROVE  x \in ToSet(Tail(s))
    <3>1. PICK i \in 1 .. Len(s) : s[i] = x
      BY <1>2 DEF ToSet
    <3>2. i # 1
      BY <1>3, <2>3, <3>1
    <3>3. i - 1 \in 1 .. Len(Tail(s)) /\ Tail(s)[i - 1] = s[i]
      BY <1>1, <1>2, <3>2
    <3> QED
      BY <1>1, <1>2, <3>1, <3>3 DEF ToSet
  <2> QED
    BY <2>1, <2>2, <2>3
<1> QED
  BY <1>1, <1>4, <1>5

LEMMA ToSetType ==
  ASSUME NEW S, NEW s \in Seq(S)
  PROVE  ToSet(s) \subseteq S
BY LenProperties, ElementOfSeq DEF ToSet

LEMMA EmptyOnce == ToSet(<<>>) = {} /\ Once(<<>>)
BY DEF ToSet, Once
-----------------------------------------------------------------------------
(* The steps of the bus. *)

LEMMA SubscribeStep ==
  ASSUME BInv, NEW name \in EventNames, NEW h \in Handlers, Subscribe(name, h)
  PROVE  BInv'
<1>1. /\ handlers' = [handlers EXCEPT ![name] = Append(handlers[name], h)]
      /\ h \notin ToSet(handlers[name])
      /\ UNCHANGED <<queue, worker, spilled, publishing, published, addressed,
                     ran, forgotten>>
  BY DEF Subscribe
<1>2. handlers[name] \in Seq(Handlers) /\ Once(handlers[name])
  BY DEF BInv, TypeOK, HeldOnce
<1>3. Append(handlers[name], h) \in Seq(Handlers) /\ Once(Append(handlers[name], h))
  BY <1>1, <1>2, OnceAppend
<1>4. TypeOK'
  BY <1>1, <1>3 DEF BInv, TypeOK
<1>5. HeldOnce'
  BY <1>1, <1>3 DEF BInv, TypeOK, HeldOnce
<1>6. PublishersKnown' /\ PlacesApart' /\ Accounted'
  BY <1>1 DEF BInv, PublishersKnown, PlacesApart, Accounted, InHand, InQueue, InWork,
              Current
<1> QED
  BY <1>4, <1>5, <1>6 DEF BInv

LEMMA PublishStepKeeps ==
  ASSUME BInv, NEW p \in Publishers, NEW name \in EventNames, Publish(p, name)
  PROVE  BInv'
<1> DEFINE hs == handlers[name]
           n == published + 1
<1>1. /\ publishing[p] = NotPublishing
      /\ published' = n
      /\ publishing' = [publishing EXCEPT ![p] = [event |-> n, rest |-> hs]]
      /\ addressed' = Append(addressed, ToSet(hs))
      /\ UNCHANGED <<handlers, queue, worker, spilled, ran, forgotten>>
  BY DEF Publish
<1>2. hs \in Seq(Handlers) /\ Once(hs) /\ ToSet(hs) \subseteq Handlers
  BY ToSetType DEF BInv, TypeOK, HeldOnce
<1>3. /\ published \in Nat /\ n \in Nat /\ forgotten \in 0 .. published
      /\ addressed \in Seq(SUBSET Handlers) /\ Len(addressed) = published
  BY DEF BInv, TypeOK
<1>4. /\ addressed' \in Seq(SUBSET Handlers) /\ Len(addressed') = n
      /\ \A k \in 1 .. published : addressed'[k] = addressed[k]
      /\ addressed'[n] = ToSet(hs)
  BY <1>1, <1>2, <1>3, AppendProperties
<1>5. TypeOK'
  <2>1. publishing' \in [Publishers -> [event : Nat, rest : Seq(Handlers)]]
    BY <1>1, <1>2, <1>3 DEF BInv, TypeOK
  <2>2. forgotten' \in 0 .. published'
    BY <1>1, <1>3
  <2> QED
    BY <1>1, <1>3, <1>4, <2>1, <2>2 DEF BInv, TypeOK
<1>6. /\ publishing'[p].event = n /\ publishing'[p].rest = hs
      /\ \A q \in Publishers : q # p => publishing'[q] = publishing[q]
      /\ \A q \in Publishers : publishing[q].event # n
  <2>1. \A q \in Publishers : publishing[q].event \in 0 .. published
    BY <1>3 DEF BInv, PublishersKnown
  <2>2. \A q \in Publishers : publishing[q].event # n
    BY <1>3, <2>1
  <2> QED
    BY <1>1, <2>2 DEF BInv, TypeOK
<1>7. HeldOnce'
  BY <1>1, <1>2, <1>6 DEF BInv, HeldOnce
<1>8. PublishersKnown'
  BY <1>1, <1>3, <1>6 DEF BInv, PublishersKnown
<1>9. InHand' = InHand \cup {j \in Job : j.event = n /\ j.handler \in ToSet(hs)}
  <2>1. \A j \in InHand : j \in InHand'
    BY <1>1, <1>6, EmptyOnce DEF InHand, NotPublishing
  <2>2. \A j \in InHand' : j \in InHand \/ (j.event = n /\ j.handler \in ToSet(hs))
    BY <1>1, <1>6 DEF InHand
  <2>3. \A j \in Job : j.event = n /\ j.handler \in ToSet(hs) => j \in InHand'
    BY <1>6 DEF InHand
  <2> QED
    BY <2>1, <2>2, <2>3 DEF InHand
<1>10. /\ InQueue' = InQueue /\ InWork' = InWork /\ spilled' = spilled /\ ran' = ran
       /\ Current' = Current \cup {j \in Job : j.event = n}
       /\ Current \subseteq Current' /\ \A j \in Current : j.event \in 1 .. published
  BY <1>1, <1>3 DEF InQueue, InWork, Current, Job
<1>11. PlacesApart'
  <2>1. \A j \in InQueue \cup InWork \cup spilled \cup ran : j.event # n
    BY <1>3, <1>10 DEF BInv, Accounted
  <2> QED
    BY <1>9, <1>10, <2>1 DEF BInv, PlacesApart
<1>12. Accounted'
  <2>1. \A j \in ran : j.event <= published /\ j.event \in Nat
    BY DEF BInv, Accounted, TypeOK, Job
  <2>2. \A j \in Current :
          j \in InHand' \cup InQueue' \cup InWork' \cup spilled' \cup ran'
            <=> j.handler \in addressed'[j.event]
    BY <1>3, <1>4, <1>9, <1>10 DEF BInv, Accounted
  <2>3. \A j \in Job : j.event = n =>
          (j \in InHand' \cup InQueue' \cup InWork' \cup spilled' \cup ran'
             <=> j.handler \in addressed'[j.event])
    <3> SUFFICES ASSUME NEW j \in Job, j.event = n
                 PROVE  j \in InHand' \cup InQueue' \cup InWork' \cup spilled' \cup ran'
                          <=> j.handler \in addressed'[j.event]
      OBVIOUS
    <3>1. j \notin Current /\ j \notin ran /\ j \notin InHand
      BY <1>3, <1>6, <2>1 DEF Current, InHand
    <3>2. j \notin InQueue \cup InWork \cup spilled
      BY <3>1 DEF BInv, Accounted
    <3> QED
      BY <1>4, <1>9, <1>10, <3>1, <3>2
  <2> HIDE DEF n
  <2> QED
    BY <1>1, <1>3, <1>10, <2>1, <2>2, <2>3 DEF BInv, Accounted, n
<1> QED
  BY <1>5, <1>7, <1>8, <1>11, <1>12 DEF BInv

(* What is left of an event goes on: the job is taken out of the           *)
(* publisher's hands.                                                      *)
LEMMA HandedOver ==
  ASSUME BInv, NEW p \in Publishers, publishing[p].rest # <<>>, Handed(p),
         UNCHANGED <<published, forgotten>>
  PROVE  LET job == NextJob(p)
         IN /\ job \in InHand /\ job \in Current
            /\ InHand' = InHand \ {job}
            /\ publishing' \in [Publishers -> [event : Nat, rest : Seq(Handlers)]]
            /\ \A q \in Publishers : publishing'[q].event = publishing[q].event
            /\ \A q \in Publishers : Once(publishing'[q].rest)
            /\ PublishersKnown'
<1> DEFINE job == NextJob(p)
           rest == publishing[p].rest
           n == publishing[p].event
<1>1. /\ publishing \in [Publishers -> [event : Nat, rest : Seq(Handlers)]]
      /\ rest \in Seq(Handlers) /\ Once(rest) /\ n \in Nat
      /\ published \in Nat /\ forgotten \in 0 .. published
  BY DEF BInv, TypeOK, HeldOnce
<1>2. /\ Tail(rest) \in Seq(Handlers) /\ Head(rest) \in Handlers /\ Head(rest) \in ToSet(rest)
      /\ Once(Tail(rest)) /\ ToSet(Tail(rest)) = ToSet(rest) \ {Head(rest)}
  BY <1>1, OnceTail
<1>3. /\ publishing' \in [Publishers -> [event : Nat, rest : Seq(Handlers)]]
      /\ publishing'[p].event = n /\ publishing'[p].rest = Tail(rest)
      /\ \A q \in Publishers : q # p => publishing'[q] = publishing[q]
  BY <1>1, <1>2 DEF Handed
<1>4. n # 0 /\ n \in forgotten + 1 .. published
  BY DEF BInv, PublishersKnown
<1>5. job = [event |-> n, handler |-> Head(rest)] /\ job \in Job
  BY <1>1, <1>2 DEF NextJob, Job
<1>6. job \in InHand /\ job \in Current
  BY <1>1, <1>2, <1>4, <1>5 DEF InHand, Current
<1>7. InHand' = InHand \ {job}
  <2>1. \A q \in Publishers : publishing[q].event = n => q = p
    BY <1>4 DEF BInv, HeldOnce
  <2>2. ASSUME NEW j \in InHand'
        PROVE  j \in InHand /\ j # job
    <3>1. PICK q \in Publishers :
            publishing'[q].event = j.event /\ j.handler \in ToSet(publishing'[q].rest)
      BY DEF InHand
    <3>2. CASE q = p
      <4>1. j.handler \in ToSet(rest) /\ j.handler # Head(rest) /\ j.event = n
        BY <1>2, <1>3, <3>1, <3>2
      <4> QED
        BY <1>5, <4>1 DEF InHand
    <3>3. CASE q # p
      <4>1. publishing[q].event = j.event /\ j.handler \in ToSet(publishing[q].rest)
        BY <1>3, <3>1, <3>3
      <4>2. j.event # n
        BY <2>1, <3>3, <4>1
      <4> QED
        BY <1>5, <4>1, <4>2 DEF InHand
    <3> QED
      BY <3>2, <3>3
  <2>3. ASSUME NEW j \in InHand, j # job
        PROVE  j \in InHand'
    <3>1. PICK q \in Publishers :
            publishing[q].event = j.event /\ j.handler \in ToSet(publishing[q].rest)
      BY DEF InHand
    <3>2. CASE q = p
      <4>1. j.handler # Head(rest)
        BY <1>5, <2>3, <3>1, <3>2 DEF InHand, Job
      <4> QED
        BY <1>2, <1>3, <3>1, <3>2, <4>1 DEF InHand
    <3> QED
      BY <1>3, <3>1, <3>2 DEF InHand
  <2> QED
    BY <2>2, <2>3
<1>8. \A q \in Publishers : publishing'[q].event = publishing[q].event
  BY <1>3
<1>9. \A q \in Publishers : Once(publishing'[q].rest)
  BY <1>2, <1>3 DEF BInv, HeldOnce
<1>10. PublishersKnown'
  BY <1>3, <1>4 DEF BInv, PublishersKnown
<1> QED
  BY <1>3, <1>6, <1>7, <1>8, <1>9, <1>10

LEMMA HandStep ==
  ASSUME BInv, NEW p \in Publishers, Hand(p)
  PROVE  BInv'
<1> DEFINE job == NextJob(p)
<1>1. /\ publishing[p].rest # <<>> /\ Handed(p)
      /\ UNCHANGED <<handlers, worker, published, addressed, ran, forgotten>>
  BY DEF Hand
<1>2. /\ job \in InHand /\ job \in Current /\ job \in Job
      /\ InHand' = InHand \ {job}
      /\ publishing' \in [Publishers -> [event : Nat, rest : Seq(Handlers)]]
      /\ \A q \in Publishers : publishing'[q].event = publishing[q].event
      /\ \A q \in Publishers : Once(publishing'[q].rest)
      /\ PublishersKnown'
  BY <1>1, HandedOver DEF Current
<1>3. InWork' = InWork /\ Current' = Current
  BY <1>1 DEF InWork, Current
<1>4. job \notin InQueue /\ job \notin spilled
  BY <1>2 DEF BInv, PlacesApart
<1>5. queue \in Seq(Job) /\ Len(queue) \in Nat /\ QueueSize \in Nat
  BY EventBusAssumption, LenProperties DEF BInv, TypeOK
<1> HIDE DEF job
<1>6. CASE queue' = Append(queue, job) /\ Len(queue) < QueueSize /\ spilled' = spilled
  <2>1. /\ queue' \in Seq(Job) /\ Len(queue') <= QueueSize
        /\ InQueue' = InQueue \cup {job} /\ Once(queue')
    BY <1>2, <1>4, <1>5, <1>6, OnceAppend DEF InQueue, BInv, HeldOnce
  <2>2. TypeOK'
    BY <1>1, <1>2, <1>6, <2>1 DEF BInv, TypeOK
  <2>3. HeldOnce'
    BY <1>1, <1>2, <2>1 DEF BInv, HeldOnce
  <2>4. PlacesApart' /\ Accounted'
    BY <1>1, <1>2, <1>3, <1>6, <2>1 DEF BInv, PlacesApart, Accounted
  <2> QED
    BY <1>2, <2>2, <2>3, <2>4 DEF BInv
<1>7. CASE spilled' = spilled \cup {job} /\ queue' = queue
  <2>1. InQueue' = InQueue
    BY <1>7 DEF InQueue
  <2>2. TypeOK'
    BY <1>1, <1>2, <1>7 DEF BInv, TypeOK
  <2>3. HeldOnce'
    BY <1>1, <1>2, <1>7 DEF BInv, HeldOnce
  <2>4. PlacesApart' /\ Accounted'
    BY <1>1, <1>2, <1>3, <1>7, <2>1 DEF BInv, PlacesApart, Accounted
  <2> QED
    BY <1>2, <2>2, <2>3, <2>4 DEF BInv
<1> QED
  BY <1>6, <1>7 DEF Hand, job

LEMMA PublishReturnsStep ==
  ASSUME BInv, NEW p \in Publishers, PublishReturns(p)
  PROVE  BInv'
<1>1. /\ publishing[p].event # 0 /\ publishing[p].rest = <<>>
      /\ publishing' = [publishing EXCEPT ![p] = NotPublishing]
      /\ UNCHANGED <<handlers, queue, worker, spilled, published, addressed, ran,
                     forgotten>>
  BY DEF PublishReturns
<1>2. NotPublishing \in [event : Nat, rest : Seq(Handlers)]
  BY EmptySeq DEF NotPublishing
<1>3. /\ publishing'[p].event = 0 /\ publishing'[p].rest = <<>>
      /\ \A q \in Publishers : q # p => publishing'[q] = publishing[q]
  BY <1>1 DEF BInv, TypeOK, NotPublishing
<1>4. TypeOK'
  BY <1>1, <1>2 DEF BInv, TypeOK
<1>5. HeldOnce' /\ PublishersKnown'
  BY <1>1, <1>3, EmptyOnce DEF BInv, HeldOnce, PublishersKnown
<1>6. InHand' = InHand
  BY <1>1, <1>3, EmptyOnce DEF InHand
<1>7. PlacesApart' /\ Accounted'
  BY <1>1, <1>6 DEF BInv, PlacesApart, Accounted, InQueue, InWork, Current
<1> QED
  BY <1>4, <1>5, <1>7 DEF BInv

(* A worker that starts or ends a job, the other workers being as before.  *)
LEMMA WorkerUpdate ==
  ASSUME BInv, NEW w \in Workers, NEW job \in Job \cup {NoJob},
         worker' = [worker EXCEPT ![w] = job]
  PROVE  /\ worker' \in [Workers -> Job \cup {NoJob}]
         /\ worker'[w] = job
         /\ \A v \in Workers : v # w => worker'[v] = worker[v]
BY DEF BInv, TypeOK

LEMMA WorkersOnce ==
  ASSUME BInv, NEW w \in Workers, worker[w] # NoJob
  PROVE  /\ worker[w] \in InWork /\ worker[w] \in Current /\ worker[w].event # 0
         /\ \A v \in Workers : worker[v] = worker[w] => v = w
<1>1. worker[w] \in Job
  BY DEF BInv, TypeOK
<1>2. worker[w] \in InWork
  BY <1>1 DEF InWork
<1>3. worker[w] \in Current
  BY <1>2 DEF BInv, Accounted
<1>4. worker[w].event # 0
  BY <1>3 DEF Current, BInv, TypeOK
<1> QED
  BY <1>2, <1>3, <1>4 DEF BInv, HeldOnce

LEMMA TakeKeeps ==
  ASSUME BInv, NEW w \in Workers, Take(w)
  PROVE  BInv'
<1> DEFINE job == Head(queue)
<1>1. /\ worker[w] = NoJob /\ queue # <<>>
      /\ worker' = [worker EXCEPT ![w] = job]
      /\ queue' = Tail(queue)
      /\ UNCHANGED <<handlers, spilled, publishing, published, addressed, ran, forgotten>>
  BY DEF Take
<1>2. /\ queue \in Seq(Job) /\ Len(queue) \in Nat /\ QueueSize \in Nat
      /\ Len(queue) <= QueueSize /\ Once(queue)
  BY EventBusAssumption, LenProperties DEF BInv, TypeOK, HeldOnce
<1>3. /\ queue' \in Seq(Job) /\ Len(queue') <= QueueSize
      /\ job \in Job /\ job \in InQueue
      /\ Once(queue') /\ InQueue' = InQueue \ {job}
  BY <1>1, <1>2, OnceTail DEF InQueue
<1>4. job \in Current /\ job \notin InWork
  BY <1>3 DEF BInv, Accounted, PlacesApart
<1>5. /\ worker' \in [Workers -> Job \cup {NoJob}]
      /\ worker'[w] = job
      /\ \A v \in Workers : v # w => worker'[v] = worker[v]
  BY <1>1, <1>3, WorkerUpdate
<1> HIDE DEF job
<1>6. \A v \in Workers : worker[v] # job
  BY <1>3, <1>4 DEF InWork
<1>7. InWork' = InWork \cup {job}
  <2>1. NoJob \notin Current
    BY DEF NoJob, Current, BInv, TypeOK
  <2>2. NoJob \notin InWork
    BY <2>1 DEF BInv, Accounted
  <2>3. \A j \in InWork : j \in InWork'
    BY <1>1, <1>5, <2>2 DEF InWork
  <2>4. \A j \in InWork' : j \in InWork \/ j = job
    BY <1>5 DEF InWork
  <2> QED
    BY <1>3, <1>5, <2>3, <2>4 DEF InWork
<1>8. TypeOK'
  BY <1>1, <1>3, <1>5 DEF BInv, TypeOK
<1>9. HeldOnce'
  BY <1>1, <1>3, <1>5, <1>6 DEF BInv, HeldOnce
<1>10. PublishersKnown'
  BY <1>1 DEF BInv, PublishersKnown
<1>11. InHand' = InHand /\ Current' = Current
  BY <1>1 DEF InHand, Current
<1>12. PlacesApart' /\ Accounted'
  BY <1>1, <1>3, <1>4, <1>7, <1>11 DEF BInv, PlacesApart, Accounted
<1> QED
  BY <1>8, <1>9, <1>10, <1>12 DEF BInv

LEMMA ReturnKeeps ==
  ASSUME BInv, NEW w \in Workers, Return(w)
  PROVE  BInv'
<1> DEFINE job == worker[w]
<1>1. /\ worker[w] # NoJob
      /\ ran' = ran \cup {job}
      /\ worker' = [worker EXCEPT ![w] = NoJob]
      /\ UNCHANGED <<handlers, queue, spilled, publishing, published, addressed, forgotten>>
  BY DEF Return
<1>2. /\ job \in InWork /\ job \in Current /\ job \in Job
      /\ \A v \in Workers : worker[v] = job => v = w
  BY <1>1, WorkersOnce DEF Current
<1>3. /\ worker' \in [Workers -> Job \cup {NoJob}]
      /\ worker'[w] = NoJob
      /\ \A v \in Workers : v # w => worker'[v] = worker[v]
  BY <1>1, WorkerUpdate
<1>4. \A j \in Current : j # NoJob
  BY DEF NoJob, Current, BInv, TypeOK
<1> HIDE DEF job
<1>5. InWork' = InWork \ {job}
  <2>1. \A j \in InWork : j # NoJob
    BY <1>4 DEF BInv, Accounted
  <2>2. \A j \in InWork' : j \in InWork \/ j = NoJob
    BY <1>3 DEF InWork
  <2>3. job \notin InWork'
    BY <1>2, <1>3, <1>4 DEF InWork
  <2>4. \A j \in InWork : j # job => j \in InWork'
    BY <1>3 DEF InWork, job
  <2>5. NoJob \notin InWork'
    <3>1. NoJob \in Job => NoJob \in InWork'
      BY <1>3 DEF InWork
    <3>2. NoJob \notin Job
      BY DEF NoJob, Job
    <3> QED
      BY <3>2 DEF InWork
  <2> QED
    BY <2>2, <2>3, <2>4, <2>5
<1>6. TypeOK'
  BY <1>1, <1>2, <1>3 DEF BInv, TypeOK
<1>7. HeldOnce'
  BY <1>1, <1>3 DEF BInv, HeldOnce, NoJob
<1>8. PublishersKnown'
  BY <1>1 DEF BInv, PublishersKnown
<1>9. InHand' = InHand /\ Current' = Current /\ InQueue' = InQueue
  BY <1>1 DEF InHand, Current, InQueue
<1>10. PlacesApart' /\ Accounted'
  <2>1. job.event <= published
    BY <1>2 DEF Current
  <2> QED
    BY <1>1, <1>2, <1>5, <1>9, <2>1 DEF BInv, PlacesApart, Accounted
<1> QED
  BY <1>6, <1>7, <1>8, <1>10 DEF BInv

LEMMA SpilledReturnKeeps ==
  ASSUME BInv, NEW job \in spilled, SpilledReturn(job)
  PROVE  BInv'
<1>1. /\ ran' = ran \cup {job}
      /\ spilled' = spilled \ {job}
      /\ UNCHANGED <<handlers, queue, worker, publishing, published, addressed, forgotten>>
  BY DEF SpilledReturn
<1>2. job \in Current /\ job \in Job /\ job.event <= published
  BY DEF BInv, Accounted, Current
<1>3. TypeOK'
  BY <1>1, <1>2 DEF BInv, TypeOK
<1>4. HeldOnce' /\ PublishersKnown'
  BY <1>1 DEF BInv, HeldOnce, PublishersKnown
<1>5. InHand' = InHand /\ Current' = Current /\ InQueue' = InQueue /\ InWork' = InWork
  BY <1>1 DEF InHand, Current, InQueue, InWork
<1>6. PlacesApart' /\ Accounted'
  BY <1>1, <1>2, <1>5 DEF BInv, PlacesApart, Accounted
<1> QED
  BY <1>3, <1>4, <1>6 DEF BInv

LEMMA RestartKeeps ==
  ASSUME BInv, BusRestart
  PROVE  BInv'
<1>1. /\ handlers' = [name \in EventNames |-> <<>>]
      /\ queue' = <<>>
      /\ worker' = [w \in Workers |-> NoJob]
      /\ spilled' = {}
      /\ publishing' = [p \in Publishers |-> NotPublishing]
      /\ forgotten' = published
      /\ UNCHANGED <<published, addressed, ran>>
  BY DEF BusRestart
<1>2. NotPublishing \in [event : Nat, rest : Seq(Handlers)]
  BY EmptySeq DEF NotPublishing
<1>3. TypeOK'
  BY <1>1, <1>2, EmptySeq, EventBusAssumption DEF BInv, TypeOK
<1>4. HeldOnce' /\ PublishersKnown'
  BY <1>1, EmptyOnce DEF HeldOnce, PublishersKnown, NotPublishing, NoJob
<1>5. InHand' = {} /\ InQueue' = {} /\ Current' = {}
  <2>1. InHand' = {} /\ InQueue' = {}
    BY <1>1, EmptyOnce DEF InHand, InQueue, NotPublishing
  <2>2. Current' = {}
    BY <1>1 DEF Current, Job, BInv, TypeOK
  <2> QED
    BY <2>1, <2>2
<1>6. InWork' = {}
  BY <1>1 DEF InWork, NoJob, Job
<1>7. PlacesApart' /\ Accounted'
  BY <1>1, <1>5, <1>6 DEF BInv, PlacesApart, Accounted
<1> QED
  BY <1>3, <1>4, <1>7 DEF BInv

-----------------------------------------------------------------------------
(* The invariant, from the bus's steps. *)

LEMMA BusStarts ==
  ASSUME BusInit
  PROVE  BInv
<1>1. /\ handlers = [name \in EventNames |-> <<>>] /\ queue = <<>>
      /\ worker = [w \in Workers |-> NoJob] /\ spilled = {}
      /\ publishing = [p \in Publishers |-> NotPublishing]
      /\ published = 0 /\ addressed = <<>> /\ ran = {} /\ forgotten = 0
  BY DEF BusInit
<1>2. NotPublishing \in [event : Nat, rest : Seq(Handlers)]
  BY EmptySeq DEF NotPublishing
<1>3. TypeOK
  BY <1>1, <1>2, EmptySeq, EventBusAssumption DEF TypeOK
<1>4. HeldOnce /\ PublishersKnown
  BY <1>1, EmptyOnce DEF HeldOnce, PublishersKnown, NotPublishing, NoJob
<1>5. InHand = {} /\ InQueue = {} /\ InWork = {} /\ Current = {}
  <2>1. InHand = {} /\ InQueue = {}
    BY <1>1, EmptyOnce DEF InHand, InQueue, NotPublishing
  <2>2. InWork = {}
    <3>1. NoJob \notin Job
      BY DEF NoJob, Job
    <3> QED
      BY <1>1, <3>1 DEF InWork
  <2>3. Current = {}
    BY <1>1 DEF Current, Job
  <2> QED
    BY <2>1, <2>2, <2>3
<1>6. PlacesApart /\ Accounted
  BY <1>1, <1>5 DEF PlacesApart, Accounted
<1> QED
  BY <1>3, <1>4, <1>6 DEF BInv

(* A step of the subscriber and the server is a step of the bus or none.   *)
LEMMA BInvKept ==
  ASSUME BInv, [NotifyNext]_notifyVars
  PROVE  BInv'
<1>1. CASE RegisterHandler
  BY <1>1, SubscribeStep DEF RegisterHandler
<1>2. ASSUME NEW p \in Publishers, PublishOrderEvent(p)
      PROVE  BInv'
  BY <1>2, PublishStepKeeps DEF PublishOrderEvent
<1>3. ASSUME NEW p \in Publishers, PublishStep(p)
      PROVE  BInv'
  BY <1>3, HandStep, PublishReturnsStep DEF PublishStep
<1>4. ASSUME UNCHANGED busVars
      PROVE  BInv'
  <2>1. UNCHANGED <<handlers, queue, worker, spilled, publishing, published, addressed,
                    ran, forgotten>>
    BY <1>4 DEF busVars
  <2>2. TypeOK'
    BY <2>1 DEF BInv, TypeOK
  <2>3. HeldOnce' /\ PublishersKnown'
    BY <2>1 DEF BInv, HeldOnce, PublishersKnown
  <2>4. InHand' = InHand /\ InQueue' = InQueue /\ InWork' = InWork /\ Current' = Current
    BY <2>1 DEF InHand, InQueue, InWork, Current
  <2>5. PlacesApart' /\ Accounted'
    BY <2>1, <2>4 DEF BInv, PlacesApart, Accounted
  <2> QED
    BY <2>2, <2>3, <2>5 DEF BInv
<1>5. ASSUME NEW p \in Publishers, RequestReturns(p)
      PROVE  BInv'
  BY <1>4, <1>5 DEF RequestReturns
<1>6. ASSUME NEW w \in Workers, TakeStep(w) \/ HandlerReturns(w)
      PROVE  BInv'
  BY <1>6, TakeKeeps, ReturnKeeps DEF TakeStep, HandlerReturns
<1>7. ASSUME NEW job \in spilled, SpilledHandlerReturns(job)
      PROVE  BInv'
  BY <1>7, SpilledReturnKeeps DEF SpilledHandlerReturns
<1>8. CASE Restart
  BY <1>8, RestartKeeps DEF Restart
<1>9. CASE UNCHANGED notifyVars
  BY <1>4, <1>9 DEF notifyVars
<1> QED
  BY <1>1, <1>2, <1>3, <1>5, <1>6, <1>7, <1>8, <1>9 DEF NotifyNext

(* What is never held twice is counted once or not at all.                 *)
LEMMA CountedOnce ==
  ASSUME NEW S, \A x, y \in S : x = y
  PROVE  Cardinality(S) = IF S = {} THEN 0 ELSE 1
<1>1. CASE S = {}
  BY <1>1, FS_EmptySet
<1>2. CASE S # {}
  <2>1. PICK x \in S : S = {x}
    BY <1>2
  <2> QED
    BY <2>1, FS_Singleton
<1> QED
  BY <1>1, <1>2

LEMMA CountsAreOne ==
  ASSUME BInv
  PROVE  EachHandlerOnce
<1>1. TypeOK
  BY DEF BInv
<1> SUFFICES ASSUME NEW n \in forgotten + 1 .. published, NEW h \in Handlers
             PROVE  Places(n, h) = IF h \in addressed[n] THEN 1 ELSE 0
  BY <1>1 DEF EachHandlerOnce
<1> DEFINE job == [event |-> n, handler |-> h]
           A == {p \in Publishers : publishing[p].event = n /\ h \in ToSet(publishing[p].rest)}
           B == {k \in DOMAIN queue : queue[k] = job}
           C == {w \in Workers : worker[w] = job}
<1>2. job \in Job /\ job \in Current /\ n # 0 /\ job.event = n /\ job.handler = h
  BY <1>1 DEF TypeOK, Job, Current
<1>3. Cardinality(A) = IF job \in InHand THEN 1 ELSE 0
  <2>1. \A p, q \in A : p = q
    BY <1>2 DEF BInv, HeldOnce
  <2>2. A = {} <=> job \notin InHand
    BY <1>2 DEF InHand
  <2> QED
    BY <2>1, <2>2, CountedOnce
<1>4. Cardinality(B) = IF job \in InQueue THEN 1 ELSE 0
  <2>1. \A k, l \in B : k = l
    BY DEF BInv, HeldOnce, Once
  <2>2. B = {} <=> job \notin InQueue
    BY DEF InQueue, ToSet
  <2> QED
    BY <2>1, <2>2, CountedOnce
<1>5. Cardinality(C) = IF job \in InWork THEN 1 ELSE 0
  <2>1. \A w, v \in C : w = v
    BY <1>2 DEF BInv, HeldOnce
  <2>2. C = {} <=> job \notin InWork
    BY <1>2 DEF InWork
  <2> QED
    BY <2>1, <2>2, CountedOnce
<1>6. ASSUME NEW S
      PROVE  Cardinality(S \cap {job}) = IF job \in S THEN 1 ELSE 0
  <2>1. \A x, y \in S \cap {job} : x = y
    OBVIOUS
  <2>2. S \cap {job} = {} <=> job \notin S
    OBVIOUS
  <2> QED
    BY <2>1, <2>2, CountedOnce
<1>7. Places(n, h) = Cardinality(A) + Cardinality(B) + Cardinality(C)
                       + Cardinality(spilled \cap {job}) + Cardinality(ran \cap {job})
  BY DEF Places
<1>8. /\ job \in InHand \cup InQueue \cup InWork \cup spilled \cup ran
           <=> h \in addressed[n]
      /\ job \in InHand => job \notin InQueue \cup InWork \cup spilled \cup ran
      /\ job \in InQueue => job \notin InWork \cup spilled \cup ran
      /\ job \in InWork => job \notin spilled \cup ran
      /\ job \in spilled => job \notin ran
  BY <1>2 DEF BInv, PlacesApart, Accounted
<1>9. /\ Cardinality(spilled \cap {job}) = IF job \in spilled THEN 1 ELSE 0
      /\ Cardinality(ran \cap {job}) = IF job \in ran THEN 1 ELSE 0
  BY <1>6
<1> HIDE DEF job, A, B, C
<1> QED
  BY <1>3, <1>4, <1>5, <1>7, <1>8, <1>9

(* Publish hands an event to every handler that was subscribed when it     *)
(* looked, and to each of them once: through the queue or, when that is    *)
(* full, a goroutine of its own; a worker that takes a job is the only one *)
(* to; and only a restart of the process forgets a job (eventbus.go).      *)
THEOREM EachHandlerToldOnce == NotifySpec => []EachHandlerOnce
<1>1. NotifyInit => BInv
  BY BusStarts DEF NotifyInit
<1>2. BInv /\ [NotifyNext]_notifyVars => BInv'
  BY BInvKept
<1>3. BInv => EachHandlerOnce
  BY CountsAreOne
<1> QED
  BY <1>1, <1>2, <1>3, PTL DEF NotifySpec
=============================================================================
