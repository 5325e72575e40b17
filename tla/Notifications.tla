--------------------------- MODULE Notifications ---------------------------
(***************************************************************************)
(* The notification subscriber (services/notifications) on the event bus,  *)
(* as the server wires them: an HTTP request publishes with its own        *)
(* context, the bus runs the subscriber's handler with that context in     *)
(* another goroutine, and the handler asks the WhatsApp API to send.  Go's *)
(* HTTP server cancels the context of a request when its handler returns.  *)
(*                                                                         *)
(* The process restarts: the bus comes back empty, and main subscribes     *)
(* again before the server answers.                                        *)
(***************************************************************************)
EXTENDS EventBus

VARIABLES
  request,    \* the event of the request each publisher is serving, 0 if none
  cancelled,  \* the events whose publish context is cancelled
  outcome     \* history: what became of the messages

notifyVars == <<busVars, request, cancelled, outcome>>

Message == [event : Nat, handler : Handlers, result : {"sent", "failed", "cancelled"}]

NotifyInit ==
  /\ BusInit
  /\ request = [p \in Publishers |-> 0]
  /\ cancelled = {}
  /\ outcome = {}

(* The server answers only after main has subscribed every handler.        *)
Ready == \A h \in Handlers : \E name \in EventNames : h \in ToSet(handlers[name])

RegisterHandler ==
  /\ \E name \in EventNames, h \in Handlers : Subscribe(name, h)
  /\ UNCHANGED <<request, cancelled, outcome>>

(* A service publishes in the course of a request.                         *)
PublishOrderEvent(p) ==
  /\ Ready
  /\ request[p] = 0
  /\ \E name \in EventNames : Publish(p, name)
  /\ request' = [request EXCEPT ![p] = published']
  /\ UNCHANGED <<cancelled, outcome>>

PublishStep(p) ==
  /\ Hand(p) \/ PublishReturns(p)
  /\ UNCHANGED <<request, cancelled, outcome>>

(* The request is answered: its handler returns and its context ends.      *)
RequestReturns(p) ==
  /\ request[p] # 0
  /\ publishing[p] = NotPublishing
  /\ cancelled' = cancelled \cup {request[p]}
  /\ request' = [request EXCEPT ![p] = 0]
  /\ UNCHANGED <<busVars, outcome>>

TakeStep(w) == Take(w) /\ UNCHANGED <<request, cancelled, outcome>>

(* sendTemplate: a request made with a cancelled context is not sent; with *)
(* a live one it is sent, refused, or times out.  No error reaches the bus *)
(* and nothing is tried again.                                             *)
Send(job) ==
  \E result \in IF job.event \in cancelled THEN {"cancelled"} ELSE {"sent", "failed"} :
    outcome' = outcome \cup
      {[event |-> job.event, handler |-> job.handler, result |-> result]}

HandlerReturns(w) ==
  /\ Return(w)
  /\ Send(worker[w])
  /\ UNCHANGED <<request, cancelled>>

SpilledHandlerReturns(job) ==
  /\ SpilledReturn(job)
  /\ Send(job)
  /\ UNCHANGED <<request, cancelled>>

Restart ==
  /\ Ready
  /\ BusRestart
  /\ request' = [p \in Publishers |-> 0]
  /\ cancelled' = 1 .. published
  /\ UNCHANGED outcome

NotifyNext ==
  \/ RegisterHandler
  \/ \E p \in Publishers : PublishOrderEvent(p) \/ PublishStep(p) \/ RequestReturns(p)
  \/ \E w \in Workers : TakeStep(w) \/ HandlerReturns(w)
  \/ \E job \in spilled : SpilledHandlerReturns(job)
  \/ Restart

(* Goroutines that can run do run, and the handlers that are not Stuck     *)
(* return: the WhatsApp client gives up after ten seconds.                 *)
Returning(w) ==
  worker[w] # NoJob /\ worker[w].handler \notin Stuck /\ HandlerReturns(w)

Fairness ==
  /\ \A p \in Publishers : WF_notifyVars(PublishStep(p))
  /\ \A w \in Workers : WF_notifyVars(TakeStep(w)) /\ WF_notifyVars(Returning(w))

NotifySpec == NotifyInit /\ [][NotifyNext]_notifyVars /\ Fairness

-----------------------------------------------------------------------------
(* "Each transition publishes an event for notification delivery": a       *)
(* message is lost only if the WhatsApp API does not take it.              *)
OnlyWhatsAppLosesMessages == \A m \in outcome : m.result # "cancelled"
=============================================================================
