-------------------------- MODULE WebhookDispatcher -------------------------
(***************************************************************************)
(* HTTPWebhookDispatcher (internal/service/webhook_client.go): each        *)
(* notification is one POST, made by a goroutine of its own that holds a   *)
(* slot of a buffered channel while it runs.  Nothing is queued and        *)
(* nothing is tried again.                                                 *)
(*                                                                         *)
(* The goroutine and the request it made are separate: the client gives up *)
(* after its timeout while the request may still be on its way.            *)
(***************************************************************************)
EXTENDS Integers, FiniteSets

CONSTANTS
    Event,          \* the notifications, each dispatched at most once
    Hooked,         \* those whose restaurant had a webhook URL
    MaxInFlight     \* WEBHOOK_MAX_INFLIGHT

ASSUME DispatcherAssumption == Hooked \subseteq Event /\ MaxInFlight \in Nat \ {0}

VARIABLES
    slots,          \* len(d.slots)
    sender,         \* the delivering goroutine of each event
    request         \* its POST

dispatcherVars == <<slots, sender, request>>

DispatcherInit ==
    /\ slots = 0
    /\ sender = [e \in Event |-> "none"]
    /\ request = [e \in Event |-> "unsent"]

\* An empty URL is no error; a full channel is one, and the event is dropped.
Dispatch(e) ==
    /\ sender[e] = "none"
    /\ \/ /\ e \notin Hooked
          /\ sender' = [sender EXCEPT ![e] = "skipped"]
          /\ UNCHANGED <<slots, request>>
       \/ /\ e \in Hooked /\ slots < MaxInFlight
          /\ slots' = slots + 1
          /\ sender' = [sender EXCEPT ![e] = "running"]
          /\ request' = [request EXCEPT ![e] = "travelling"]
       \/ /\ e \in Hooked /\ slots >= MaxInFlight
          /\ sender' = [sender EXCEPT ![e] = "dropped"]
          /\ UNCHANGED <<slots, request>>

\* The partner's server takes the request, whether or not the client still waits for the answer.
Reach(e) ==
    /\ request[e] = "travelling"
    /\ request' = [request EXCEPT ![e] = "received"]
    /\ UNCHANGED <<slots, sender>>

Lose(e) ==
    /\ request[e] = "travelling"
    /\ request' = [request EXCEPT ![e] = "lost"]
    /\ UNCHANGED <<slots, sender>>

\* Slip: the goroutine returns on some path without giving its slot back.
FinishKeepingSlot(e) ==
    /\ sender[e] = "running"
    /\ sender' = [sender EXCEPT ![e] = "ended"]
    /\ UNCHANGED <<slots, request>>

\* Slip: a client without a timeout waits for the partner's answer.
FinishAnswered(e) ==
    /\ sender[e] = "running"
    /\ request[e] = "received"
    /\ sender' = [sender EXCEPT ![e] = "ended"]
    /\ slots' = slots - 1
    /\ UNCHANGED request

\* client.Do returned, with any answer, an error or the timeout; the deferred receive frees the slot.
Finish(e) ==
    /\ sender[e] = "running"
    /\ sender' = [sender EXCEPT ![e] = "ended"]
    /\ slots' = slots - 1
    /\ UNCHANGED request

\* The process ends without waiting for its deliveries; the next one starts with free slots.
Exit ==
    /\ sender' = [e \in Event |-> IF sender[e] = "running" THEN "ended" ELSE sender[e]]
    /\ slots' = 0
    /\ UNCHANGED request

-----------------------------------------------------------------------------
InFlight == {e \in Event : sender[e] = "running"}

\* However many webhooks are due and however the partner hangs, at most MaxInFlight deliveries run
\* at once, and no slot is lost or given back twice.
SlotsMatchDeliveries == slots = Cardinality(InFlight) /\ slots <= MaxInFlight

\* A delivery ends even if the partner never answers, so its slot is free again.
DeliveriesEnd == \A e \in Event : sender[e] = "running" ~> sender[e] = "ended"
=============================================================================
