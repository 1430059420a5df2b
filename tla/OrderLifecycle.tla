--------------------------- MODULE OrderLifecycle ---------------------------
(***************************************************************************)
(* The order state machine of internal/domain/order.go: the statuses, who  *)
(* may change them, and the two tables that are the single source of truth *)
(* for the forward lifecycle and for cancellation.  The module has no      *)
(* state; OrderStore, OrderService and PartnerKitchen are built on it.     *)
(***************************************************************************)

Statuses == {"created", "accepted", "cooking", "ready", "delivering",
             "completed", "cancelled"}

Actors == {"customer", "restaurant", "system"}

\* The pairs <<s, t>> such that t is listed under s.
forwardTransitions ==
    {<<"created", "accepted">>, <<"accepted", "cooking">>, <<"cooking", "ready">>,
     <<"ready", "delivering">>, <<"delivering", "completed">>}

\* The pairs <<a, s>> such that s is listed under a.
cancellableBy ==
    ({"customer"} \X {"created"}) \cup
    ({"restaurant"} \X {"created", "accepted", "cooking"})

CanTransitionTo(s, t) == <<s, t>> \in forwardTransitions

CanBeCancelledBy(s, actor) == <<actor, s>> \in cancellableBy

-----------------------------------------------------------------------------
\* Derived notions the properties are stated with; not code.

\* actor may take an order from status s to status t in one call.
Legal(actor, s, t) ==
    \/ t = "cancelled" /\ CanBeCancelledBy(s, actor)
    \/ actor = "restaurant" /\ CanTransitionTo(s, t)

\* An order that still holds the stock it was sold.
Live(s) == s # "cancelled"
=============================================================================
