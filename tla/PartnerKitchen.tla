---------------------------- MODULE PartnerKitchen --------------------------
(***************************************************************************)
(* The partner simulator (cmd/partner-restaurant/main.go) working with the *)
(* platform: webhooks come in through WebhookDispatcher, a goroutine per   *)
(* new order walks it to "ready" by PATCH requests, retrying what looks    *)
(* transient, while customers and staff move the same orders and both      *)
(* processes may stop.                                                     *)
(*                                                                         *)
(* The platform's side is the commits of OrderService, each with its       *)
(* webhook to come; orders are kept as their committed history.            *)
(***************************************************************************)
EXTENDS WebhookDispatcher, Sequences, OrderLifecycle

CONSTANTS
    OrderId,
    Attempts,       \* statusUpdateAttempts
    MaxEvents,      \* maxEventsHistory
    AutoCook,
    Others          \* who else moves the orders: a subset of Actors

ASSUME KitchenAssumption ==
    /\ Event = [order: OrderId, status: Statuses]
    /\ Attempts \in Nat \ {0}
    /\ MaxEvents \in Nat \ {0}
    /\ AutoCook \in BOOLEAN
    /\ Others \subseteq Actors

VARIABLES
    \* the platform
    history,        \* the committed changes of each order and who made them
    owed,           \* webhooks of committed changes not yet given to the dispatcher
    patches,        \* status updates of the kitchen on their way to the platform
    \* the partner's process
    keyed,          \* the orders of the restaurant whose key it presents (PARTNER_API_KEY)
    phase,          \* "up", "stopping" (signalled), "closing" (in Close), "closed"
    forced,         \* Shutdown gave up on its handlers
    handler,        \* HandleWebhook for each event
    events,         \* s.events
    received,       \* ghost: all events appended so far
    routine,        \* the cooking goroutine of each order
    flakes          \* ghost: its transient failures, counted up to two

platform == <<history, owed>>
partner == <<keyed, phase, forced, handler, events, received>>
vars == <<slots, sender, request, history, owed, patches, keyed, phase, forced, handler, events,
          received, routine, flakes>>

Steps == <<"accepted", "cooking", "ready">>

NoRoutine == [at |-> "none", step |-> 1, attempt |-> 1, code |-> "none"]

Ended == {"finished", "rejected", "gaveUp", "cancelled"}

Active(o) == routine[o].at \notin Ended \cup {"none"}

status(o) == history[o][Len(history[o])].to

Init ==
    /\ DispatcherInit
    /\ history = [o \in OrderId |-> <<>>]
    /\ owed = {}
    /\ patches = {}
    /\ keyed \in SUBSET OrderId
    /\ phase = "up"
    /\ forced = FALSE
    /\ handler = [e \in Event |-> "none"]
    /\ events = <<>>
    /\ received = <<>>
    /\ routine = [o \in OrderId |-> NoRoutine]
    /\ flakes = [o \in OrderId |-> 0]

-----------------------------------------------------------------------------
(***************************************************************************)
(* The platform.                                                           *)
(***************************************************************************)

\* A transaction of OrderService commits; its webhook is dispatched after the commit.
Change(o, t, by) ==
    /\ history' = [history EXCEPT ![o] = Append(@, [to |-> t, by |-> by])]
    /\ owed' = owed \cup {[order |-> o, status |-> t]}

PlaceOrder(o) ==
    /\ history[o] = <<>>
    /\ Change(o, "created", "customer")
    /\ UNCHANGED <<dispatcherVars, patches, partner, routine, flakes>>

\* The customer, or the staff by hand, through the same API.
MoveOrder(o, t, actor) ==
    /\ history[o] # <<>>
    /\ Legal(actor, status(o), t)
    /\ Change(o, t, IF actor = "restaurant" THEN "staff" ELSE "customer")
    /\ UNCHANGED <<dispatcherVars, patches, partner, routine, flakes>>

Notify(e) ==
    /\ e \in owed
    /\ Dispatch(e)
    /\ owed' = owed \ {e}
    /\ UNCHANGED <<history, patches, partner, routine, flakes>>

EndDelivery(e) ==
    /\ Finish(e)
    /\ UNCHANGED <<platform, patches, partner, routine, flakes>>

LoseWebhook(e) ==
    /\ Lose(e)
    /\ UNCHANGED <<platform, patches, partner, routine, flakes>>

\* The platform stops and starts again: what it had not dispatched is forgotten.
PlatformExit ==
    /\ owed # {} \/ InFlight # {}
    /\ Exit
    /\ owed' = {}
    /\ UNCHANGED <<history, patches, partner, routine, flakes>>

\* The routine that sent p still waits for its answer.
Awaited(p) ==
    /\ routine[p.order].at = "awaiting"
    /\ Steps[routine[p.order].step] = p.to
    /\ routine[p.order].attempt = p.attempt

Respond(p, code) ==
    routine' = [routine EXCEPT ![p.order].code = IF Awaited(p) THEN code ELSE @]

\* Slip: the platform takes any status for any order.
AcceptsAny(p) == TRUE

\* A 401 without a key that was issued, a 404 with the key of another restaurant than the order's.
Authorised(p) == p.order \in keyed

\* Then the lifecycle is asked, and answers 422; the kitchen knows all three as a 4xx.
Accepts(p) == Authorised(p) /\ CanTransitionTo(status(p.order), p.to)

\* The PATCH reaches the platform, perhaps after the kitchen stopped waiting.  A 5xx may come before
\* the commit or after it.
HandlePatch(p) ==
    /\ p \in patches
    /\ patches' = patches \ {p}
    /\ \/ /\ Accepts(p)
          /\ Change(p.order, p.to, "kitchen")
          /\ Respond(p, "2xx") \/ Respond(p, "5xx")
       \/ /\ ~Accepts(p)
          /\ Respond(p, "4xx")
          /\ UNCHANGED platform
       \/ /\ Respond(p, "5xx")
          /\ UNCHANGED platform
    /\ UNCHANGED <<dispatcherVars, partner, flakes>>

-----------------------------------------------------------------------------
(***************************************************************************)
(* HandleWebhook.                                                          *)
(***************************************************************************)

\* Slip: the length is compared after the append.
LatestOverfull(s, e) == Append(IF Len(s) > MaxEvents THEN Tail(s) ELSE s, e)

\* The ring under s.mu.
Latest(s, e) == Append(IF Len(s) >= MaxEvents THEN Tail(s) ELSE s, e)

ReceiveWebhook(e) ==
    /\ phase \in {"up", "stopping"}
    /\ Reach(e)
    /\ events' = Latest(events, e)
    /\ received' = Append(received, e)
    /\ handler' = [handler EXCEPT ![e] = "running"]
    /\ UNCHANGED <<platform, patches, keyed, phase, forced, routine, flakes>>

\* wg.Add, go, and the answer.
StartCooking(e) ==
    /\ handler[e] = "running"
    /\ handler' = [handler EXCEPT ![e] = "done"]
    /\ IF e.status = "created" /\ AutoCook
       THEN routine' = [routine EXCEPT ![e.order].at = "pause"]
       ELSE UNCHANGED routine
    /\ UNCHANGED <<dispatcherVars, platform, patches, keyed, phase, forced, events, received, flakes>>

-----------------------------------------------------------------------------
(***************************************************************************)
(* The cooking routine.                                                    *)
(***************************************************************************)

Enter(o, at) == routine' = [routine EXCEPT ![o].at = at, ![o].code = "none"]

Flake(o) == flakes' = [flakes EXCEPT ![o] = IF @ < 2 THEN @ + 1 ELSE @]

\* s.lifetime is done as soon as the process is told to stop.
LifetimeOver == phase # "up"

Cancelled(o) ==
    /\ routine[o].at \in {"pause", "backoff"}
    /\ LifetimeOver
    /\ Enter(o, "cancelled")
    /\ UNCHANGED <<dispatcherVars, platform, patches, partner, flakes>>

\* The pause is over, or the backoff: client.Do fails at once when the lifetime is over.
SendPatch(o) ==
    LET p == [order |-> o, to |-> Steps[routine[o].step], attempt |-> routine[o].attempt]
    IN  /\ routine[o].at \in {"pause", "request"}
        /\ \/ /\ ~LifetimeOver
              /\ patches' = patches \cup {p}
              /\ Enter(o, "awaiting")
              /\ UNCHANGED flakes
           \/ /\ LifetimeOver
              /\ Enter(o, "backoff")
              /\ Flake(o)
              /\ UNCHANGED patches
        /\ UNCHANGED <<dispatcherVars, platform, partner>>

\* Slip: only a 5xx is taken for a failure.
SucceededUnlessBroken(code) == code \in {"2xx", "4xx"}

Succeeded(code) == code = "2xx"

Advanced(o) ==
    /\ routine[o].at = "awaiting" /\ Succeeded(routine[o].code)
    /\ routine' = [routine EXCEPT ![o] =
           IF @.step = Len(Steps) THEN [@ EXCEPT !.at = "finished", !.code = "none"]
           ELSE [at |-> "pause", step |-> @.step + 1, attempt |-> 1, code |-> "none"]]
    /\ UNCHANGED <<dispatcherVars, platform, patches, partner, flakes>>

\* Slip: an answer of the platform, any answer, is final.
IsPermanentAnswer(code) == code \in {"4xx", "5xx"}

\* errPermanent
IsPermanent(code) == code = "4xx"

Rejected(o) ==
    /\ routine[o].at = "awaiting" /\ IsPermanent(routine[o].code)
    /\ Enter(o, "rejected")
    /\ UNCHANGED <<dispatcherVars, platform, patches, partner, flakes>>

\* A 5xx, or no answer in time: worth another attempt.
Flaked(o) ==
    /\ routine[o].at = "awaiting" /\ routine[o].code \in {"none", "5xx"}
    /\ Enter(o, "backoff")
    /\ Flake(o)
    /\ UNCHANGED <<dispatcherVars, platform, patches, partner>>

\* Slip: the attempts are not counted.
NextAttemptUncounted(n) == n

NextAttempt(n) == n + 1

\* Slip: the loop's bound is off by one.
MayRetryOnceMore(n) == n <= Attempts

MayRetry(n) == n < Attempts

Retry(o) ==
    /\ routine[o].at = "backoff"
    /\ IF MayRetry(routine[o].attempt)
       THEN routine' = [routine EXCEPT ![o].at = "request", ![o].attempt = NextAttempt(@)]
       ELSE Enter(o, "gaveUp")
    /\ UNCHANGED <<dispatcherVars, platform, patches, partner, flakes>>

-----------------------------------------------------------------------------
(***************************************************************************)
(* Stopping the partner.                                                   *)
(***************************************************************************)

\* The signal cancels the lifetime; requests are taken until Shutdown has closed the listeners.
Stop ==
    /\ phase = "up"
    /\ phase' = "stopping"
    /\ UNCHANGED <<dispatcherVars, platform, patches, keyed, forced, handler, events, received,
                   routine, flakes>>

\* Shutdown returns when the handlers have, or after its timeout.
ShutDown ==
    /\ phase = "stopping"
    /\ phase' = "closing"
    /\ forced' = (\E e \in Event : handler[e] = "running")
    /\ UNCHANGED <<dispatcherVars, platform, patches, keyed, handler, events, received, routine, flakes>>

\* Slip: Close cancels but does not wait.
WaitedForNothing == TRUE

\* wg.Wait
Waited == \A o \in OrderId : ~Active(o)

Close ==
    /\ phase = "closing"
    /\ Waited
    /\ phase' = "closed"
    /\ UNCHANGED <<dispatcherVars, platform, patches, keyed, forced, handler, events, received,
                   routine, flakes>>

-----------------------------------------------------------------------------
Cook(o) == Cancelled(o) \/ SendPatch(o) \/ Advanced(o) \/ Rejected(o) \/ Flaked(o) \/ Retry(o)

Next ==
    \/ \E o \in OrderId : \/ PlaceOrder(o)
                          \/ \E t \in Statuses, a \in Others : MoveOrder(o, t, a)
                          \/ Cook(o)
    \/ \E e \in Event : \/ Notify(e) \/ EndDelivery(e) \/ LoseWebhook(e)
                        \/ ReceiveWebhook(e) \/ StartCooking(e)
    \/ \E p \in patches : HandlePatch(p)
    \/ PlatformExit
    \/ Stop \/ ShutDown \/ Close

Spec == Init /\ [][Next]_vars

\* Goroutines run, timers fire and the HTTP clients time out; the network and the platform owe
\* nothing.
Fairness ==
    /\ \A o \in OrderId : WF_vars(Cook(o))
    /\ \A e \in Event : WF_vars(EndDelivery(e))

FairSpec == Spec /\ Fairness

-----------------------------------------------------------------------------
(***************************************************************************)
(* Properties.                                                             *)
(***************************************************************************)

\* Every variable has its type.
TypeOK ==
    /\ slots \in Nat
    /\ sender \in [Event -> {"none", "skipped", "dropped", "running", "ended"}]
    /\ request \in [Event -> {"unsent", "travelling", "received", "lost"}]
    /\ history \in [OrderId -> Seq([to: Statuses, by: {"customer", "staff", "kitchen"}])]
    /\ owed \subseteq Event
    /\ patches \subseteq [order: OrderId, to: Statuses, attempt: 1 .. Attempts]
    /\ keyed \subseteq OrderId
    /\ phase \in {"up", "stopping", "closing", "closed"}
    /\ forced \in BOOLEAN
    /\ handler \in [Event -> {"none", "running", "done"}]
    /\ events \in Seq(Event) /\ received \in Seq(Event)
    /\ routine \in [OrderId -> [at: {"none", "pause", "request", "awaiting", "backoff"} \cup Ended,
                               step: 1 .. Len(Steps), attempt: 1 .. Attempts,
                               code: {"none", "2xx", "4xx", "5xx"}]]
    /\ flakes \in [OrderId -> 0 .. 2]

\* The kitchen never runs ahead of the platform: it begins a step only when the platform has
\* committed all the earlier ones, whatever was lost, retried or processed late.
AcknowledgedIsCommitted ==
    \A o \in OrderId : \A i \in 1 .. Len(Steps) :
        i < routine[o].step \/ routine[o].at = "finished" =>
            \E k \in DOMAIN history[o] : history[o][k].to = Steps[i]

\* What stopped a kitchen for good is not a matter of time: the platform would refuse the same PATCH
\* in every later state too (the comment on errPermanent: "the platform rejected the request itself
\* (bad credentials, illegal transition), so repeating it changes nothing").  It does not say that
\* nothing was left to do: OneFlakeStrandsNoOrder.
RepeatingChangesNothing ==
    \A o \in OrderId : routine[o].at = "rejected" =>
        ~Accepts([order |-> o, to |-> Steps[routine[o].step], attempt |-> routine[o].attempt])

\* ListEvents shows the last MaxEvents events, in the order they came in.
EventsAreLatest ==
    LET n == IF Len(received) < MaxEvents THEN Len(received) ELSE MaxEvents
    IN  events = SubSeq(received, Len(received) - n + 1, Len(received))

\* Once Close has returned from an orderly shutdown no routine runs, so none can still change an
\* order; StartCooking of a handler that Shutdown abandoned is the only exception.
ClosedMeansIdle == phase = "closed" /\ ~forced => \A o \in OrderId : ~Active(o)

\* A cooking routine ends, after at most Attempts failures of a step, whatever the platform does.
RoutinesEnd == \A o \in OrderId : Active(o) ~> routine[o].at \in Ended

\* One flaky answer strands no order (cjm_restaurant.puml: a 5xx or a network failure is repeated,
\* "поэтому один флаки-ответ больше не оставляет заказ висеть"): a kitchen that alone moves an
\* order it has the key of is not stopped short of "ready" by a single failure.
OneFlakeStrandsNoOrder ==
    \A o \in OrderId :
        /\ routine[o].at \in {"rejected", "gaveUp"}
        /\ o \in keyed
        /\ \A k \in 2 .. Len(history[o]) : history[o][k].by = "kitchen"
        => flakes[o] > 1

-----------------------------------------------------------------------------
Ledger == INSTANCE OrderLedger WITH
    trail <- [o \in OrderId |-> [i \in DOMAIN history[o] |-> history[o][i].to]],
    announced <- {e \in Event : sender[e] \in {"running", "ended"}}

\* The platform the kitchen works with, late PATCH requests and restarts included, does nothing
\* that OrderService's ledger does not do: what holds here holds with the real service.
ImplementsLedger == Ledger!Spec
=============================================================================
