----------------------------- MODULE OrderStore -----------------------------
(***************************************************************************)
(* What the platform promises of orders and stock, without transactions:   *)
(* an order is placed, moved along its lifecycle or cancelled in one       *)
(* indivisible step that also moves the stock, and the partner's edits of  *)
(* the menu come in between.  OrderService implements it: OrderStore's     *)
(* steps are the commits of OrderService's transactions.                   *)
(*                                                                         *)
(* That the restaurant is active is not promised at the step itself: the   *)
(* service checks it when the checkout begins, without a lock.             *)
(***************************************************************************)
EXTENDS Integers, OrderLifecycle

CONSTANTS OrderId, Dish, Restaurant, Customer,
          RestaurantOf,     \* whose dish it is
          Menu0,            \* the first menu
          Quantity, Price,
          Stock,            \* the numbers of portions a shelf can hold
          None              \* an order not placed

VARIABLES menu, orders

vars == <<menu, orders>>

Init ==
    /\ menu = Menu0
    /\ orders = [o \in OrderId |-> None]

InBasket(qty) == {d \in Dish : qty[d] > 0}

Sellable(d, x, n) ==
    menu[d].exists /\ menu[d].avail /\ RestaurantOf[d] = x /\ menu[d].stock >= n

\* Every dish of the basket can be sold, and all are sold at the price of the menu.
PlaceOrder(o, u, x, qty) ==
    /\ orders[o] = None
    /\ InBasket(qty) # {}
    /\ \A d \in InBasket(qty) : Sellable(d, x, qty[d])
    /\ menu' = [d \in Dish |-> [menu[d] EXCEPT !.stock = @ - qty[d]]]
    /\ orders' = [orders EXCEPT ![o] =
           [user |-> u, rest |-> x, status |-> "created", qty |-> qty,
            price |-> [d \in Dish |-> IF d \in InBasket(qty) THEN menu[d].price ELSE 0]]]

Advance(o) ==
    /\ orders[o] # None
    /\ \E t \in Statuses : /\ CanTransitionTo(orders[o].status, t)
                           /\ orders' = [orders EXCEPT ![o].status = t]
    /\ UNCHANGED menu

\* Every portion goes back on a shelf that has the room for it.
Cancel(o) ==
    /\ orders[o] # None
    /\ \A d \in Dish : menu[d].stock + orders[o].qty[d] \in Stock
    /\ \E a \in Actors : CanBeCancelledBy(orders[o].status, a)
    /\ menu' = [d \in Dish |-> [menu[d] EXCEPT !.stock = @ + orders[o].qty[d]]]
    /\ orders' = [orders EXCEPT ![o].status = "cancelled"]

EditDish(d) ==
    /\ menu[d].exists
    /\ \E p \in Price, n \in Stock, a \in BOOLEAN :
           menu' = [menu EXCEPT ![d] = [exists |-> TRUE, price |-> p, stock |-> n, avail |-> a]]
    /\ UNCHANGED orders

RemoveDish(d) ==
    /\ menu[d].exists
    /\ \A o \in OrderId : orders[o] # None => orders[o].qty[d] = 0
    /\ menu' = [menu EXCEPT ![d].exists = FALSE]
    /\ UNCHANGED orders

Next ==
    \/ \E o \in OrderId :
           \/ \E u \in Customer, x \in Restaurant, qty \in [Dish -> Quantity] : PlaceOrder(o, u, x, qty)
           \/ Advance(o)
           \/ Cancel(o)
    \/ \E d \in Dish : EditDish(d) \/ RemoveDish(d)

Spec == Init /\ [][Next]_vars
=============================================================================
