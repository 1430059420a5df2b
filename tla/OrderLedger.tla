----------------------------- MODULE OrderLedger ----------------------------
(***************************************************************************)
(* What the platform promises of an order to those outside it: the         *)
(* statuses it has gone through, and the webhooks that announce them.      *)
(* OrderService implements it, transaction by transaction, and the         *)
(* platform that PartnerKitchen works with behaves as it does: it is the   *)
(* interface between the two.                                              *)
(***************************************************************************)
EXTENDS Sequences, OrderLifecycle

CONSTANT OrderId

VARIABLES
    trail,          \* the committed statuses of each order, oldest first
    announced       \* webhooks the dispatcher accepted

vars == <<trail, announced>>

Init ==
    /\ trail = [o \in OrderId |-> <<>>]
    /\ announced = {}

Record(o, s) ==
    /\ trail' = [trail EXCEPT ![o] = Append(@, s)]
    /\ UNCHANGED announced

Place(o) ==
    /\ trail[o] = <<>>
    /\ Record(o, "created")

\* Somebody who may make the change makes it.
Move(o, t) ==
    /\ trail[o] # <<>>
    /\ \E actor \in Actors : Legal(actor, trail[o][Len(trail[o])], t)
    /\ Record(o, t)

\* Only what is committed, perhaps late, perhaps never.
Announce(o, s) ==
    /\ s \in {trail[o][i] : i \in DOMAIN trail[o]}
    /\ announced' = announced \cup {[order |-> o, status |-> s]}
    /\ UNCHANGED trail

Next ==
    \E o \in OrderId :
        \/ Place(o)
        \/ \E t \in Statuses : Move(o, t) \/ Announce(o, t)

Spec == Init /\ [][Next]_vars
=============================================================================
