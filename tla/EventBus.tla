------------------------------ MODULE EventBus ------------------------------
(***************************************************************************)
(* The in-memory event bus (eventbus/eventbus.go): Publish hands an event  *)
(* to every handler subscribed to its name, one job each, through a        *)
(* bounded queue that a pool of workers drains; when the queue is full the *)
(* job runs in a goroutine of its own.  Nothing is persisted.              *)
(***************************************************************************)
EXTENDS Integers, Sequences, SequencesExt, FiniteSets

CONSTANTS
  EventNames,     \* the names events are published under
  Handlers,       \* the subscriptions: a handler subscribed twice is two
  Workers,        \* the goroutines of the pool
  Publishers,     \* the goroutines that call Publish
  QueueSize,      \* the capacity of the queue
  Stuck,          \* the handlers that may never return
  MaxPublished    \* bound: events ever published

ASSUME EventBusAssumption ==
  /\ QueueSize \in Nat \ {0}
  /\ Workers # {}
  /\ Stuck \subseteq Handlers
  /\ MaxPublished \in Nat

VARIABLES
  handlers,    \* memoryBus.handlers: the subscriptions to each name, in order
  queue,       \* memoryBus.queue
  worker,      \* the job each worker is running
  spilled,     \* the jobs running in goroutines of their own
  publishing,  \* what each publisher has left to hand out
  published,   \* history: how many events were published, and their number
  addressed,   \* history: the handlers each event was read to be for
  ran,         \* history: the jobs whose handler returned
  forgotten    \* history: the events published before the last restart

busVars == <<handlers, queue, worker, spilled, publishing, published,
             addressed, ran, forgotten>>

Job == [event : Nat, handler : Handlers]
NoJob == [event |-> 0]
NotPublishing == [event |-> 0, rest |-> <<>>]

BusInit ==
  /\ handlers = [name \in EventNames |-> <<>>]
  /\ queue = <<>>
  /\ worker = [w \in Workers |-> NoJob]
  /\ spilled = {}
  /\ publishing = [p \in Publishers |-> NotPublishing]
  /\ published = 0
  /\ addressed = <<>>
  /\ ran = {}
  /\ forgotten = 0

-----------------------------------------------------------------------------
(* Subscribe, under the write lock.                                        *)
Subscribe(name, h) ==
  /\ \A n \in EventNames : h \notin ToSet(handlers[n])
  /\ handlers' = [handlers EXCEPT ![name] = Append(@, h)]
  /\ UNCHANGED <<queue, worker, spilled, publishing, published, addressed, ran, forgotten>>

(* Publish reads the handlers of the name, under the read lock, ...        *)
Publish(p, name) ==
  /\ publishing[p] = NotPublishing
  /\ published < MaxPublished
  /\ published' = published + 1
  /\ publishing' = [publishing EXCEPT ![p] = [event |-> published + 1, rest |-> handlers[name]]]
  /\ addressed' = Append(addressed, ToSet(handlers[name]))
  /\ UNCHANGED <<handlers, queue, worker, spilled, ran, forgotten>>

NextJob(p) == [event |-> publishing[p].event, handler |-> Head(publishing[p].rest)]

Handed(p) == publishing' = [publishing EXCEPT ![p].rest = Tail(@)]

(* Mutant: a send on the full queue waits for a worker.                    *)
HandWaiting(p) ==
  /\ publishing[p].rest # <<>>
  /\ Len(queue) < QueueSize
  /\ queue' = Append(queue, NextJob(p))
  /\ Handed(p)
  /\ UNCHANGED <<handlers, worker, spilled, published, addressed, ran, forgotten>>

(* Mutant: a job that found the queue full is dropped.                     *)
HandDropping(p) ==
  /\ publishing[p].rest # <<>>
  /\ queue' = IF Len(queue) < QueueSize THEN Append(queue, NextJob(p)) ELSE queue
  /\ Handed(p)
  /\ UNCHANGED <<handlers, worker, spilled, published, addressed, ran, forgotten>>

(* ... and hands each of them its job: into the queue, or, when that is    *)
(* full, to a new goroutine.                                               *)
Hand(p) ==
  /\ publishing[p].rest # <<>>
  /\ \/ /\ Len(queue) < QueueSize
        /\ queue' = Append(queue, NextJob(p))
        /\ UNCHANGED spilled
     \/ /\ Len(queue) = QueueSize
        /\ spilled' = spilled \cup {NextJob(p)}
        /\ UNCHANGED queue
  /\ Handed(p)
  /\ UNCHANGED <<handlers, worker, published, addressed, ran, forgotten>>

(* After the last one Publish returns nil.                                 *)
PublishReturns(p) ==
  /\ publishing[p].event # 0
  /\ publishing[p].rest = <<>>
  /\ publishing' = [publishing EXCEPT ![p] = NotPublishing]
  /\ UNCHANGED <<handlers, queue, worker, spilled, published, addressed, ran, forgotten>>

(* run: a worker receives the next job and calls its handler ...           *)
Take(w) ==
  /\ worker[w] = NoJob
  /\ queue # <<>>
  /\ worker' = [worker EXCEPT ![w] = Head(queue)]
  /\ queue' = Tail(queue)
  /\ UNCHANGED <<handlers, spilled, publishing, published, addressed, ran, forgotten>>

(* Mutant: the worker may leave its loop on a handler's error.             *)
ReturnOnce(w) ==
  /\ worker[w].event # 0
  /\ ran' = ran \cup {worker[w]}
  /\ \/ worker' = [worker EXCEPT ![w] = NoJob]
     \/ worker' = [worker EXCEPT ![w].event = 0]
  /\ UNCHANGED <<handlers, queue, spilled, publishing, published, addressed, forgotten>>

(* ... which returns; its error is logged and the worker goes on.          *)
Return(w) ==
  /\ worker[w] # NoJob
  /\ ran' = ran \cup {worker[w]}
  /\ worker' = [worker EXCEPT ![w] = NoJob]
  /\ UNCHANGED <<handlers, queue, spilled, publishing, published, addressed, forgotten>>

(* A handler in a goroutine of its own returns.                            *)
SpilledReturn(job) ==
  /\ job \in spilled
  /\ ran' = ran \cup {job}
  /\ spilled' = spilled \ {job}
  /\ UNCHANGED <<handlers, queue, worker, publishing, published, addressed, forgotten>>

(* The process stops: the bus is gone, with every job it held.  main       *)
(* subscribes the handlers again before it serves.                         *)
BusRestart ==
  /\ handlers' = [name \in EventNames |-> <<>>]
  /\ queue' = <<>>
  /\ worker' = [w \in Workers |-> NoJob]
  /\ spilled' = {}
  /\ publishing' = [p \in Publishers |-> NotPublishing]
  /\ forgotten' = published
  /\ UNCHANGED <<published, addressed, ran>>

-----------------------------------------------------------------------------
TypeOK ==
  /\ handlers \in [EventNames -> Seq(Handlers)]
  /\ queue \in Seq(Job) /\ Len(queue) <= QueueSize
  /\ worker \in [Workers -> Job \cup {NoJob}]
  /\ spilled \subseteq Job
  /\ publishing \in [Publishers -> [event : Nat, rest : Seq(Handlers)]]
  /\ published \in Nat /\ forgotten \in 0 .. published
  /\ addressed \in Seq(SUBSET Handlers) /\ Len(addressed) = published
  /\ ran \subseteq Job

(* In how many places the job of event n for handler h is.                 *)
Places(n, h) ==
  LET job == [event |-> n, handler |-> h]
  IN Cardinality({p \in Publishers : publishing[p].event = n /\ h \in ToSet(publishing[p].rest)})
       + Cardinality({k \in DOMAIN queue : queue[k] = job})
       + Cardinality({w \in Workers : worker[w] = job})
       + Cardinality(spilled \cap {job})
       + Cardinality(ran \cap {job})

(* Every handler that was subscribed when Publish looked gets the event    *)
(* once: its job is in exactly one place, from the publisher's loop over   *)
(* the queue, a worker or a goroutine of its own, to having run.  Only a   *)
(* restart forgets jobs.                                                   *)
EachHandlerOnce ==
  /\ TypeOK
  /\ \A n \in forgotten + 1 .. published, h \in Handlers :
       Places(n, h) = IF h \in addressed[n] THEN 1 ELSE 0

(* Publish does not wait for handlers: it returns even when every worker   *)
(* is held by a handler that never does and the queue is full.             *)
PublishNeverBlocks ==
  \A p \in Publishers : publishing[p].event # 0 ~> publishing[p].event = 0

(* A queued job is started, unless every worker is held by a handler that  *)
(* does not return: no worker is lost to an event, nor sleeps on a         *)
(* non-empty queue.                                                        *)
WorkersHeld == \A w \in Workers : worker[w] # NoJob /\ worker[w].handler \in Stuck

QueuedJobsStart ==
  \A n \in 1 .. MaxPublished, h \in Handlers :
    [event |-> n, handler |-> h] \in ToSet(queue)
      ~> \/ [event |-> n, handler |-> h] \notin ToSet(queue)
         \/ WorkersHeld
=============================================================================
