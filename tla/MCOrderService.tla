--------------------------- MODULE MCOrderService ---------------------------
(***************************************************************************)
(* Small instances of OrderService for TLC: one restaurant with two dishes *)
(* and a foreign restaurant, one customer and a foreign one.               *)
(***************************************************************************)
EXTENDS OrderProperties, TLC

MCDish == {1, 2}
MCRestaurant == {"own", "other", "nowhere"}
MCRegistered == {"own", "other"}
MCCustomer == {"ann", "bob"}
MCRestaurantOf == [d \in MCDish |-> "own"]

\* Two portions of dish 1 and one of dish 2: the last portion is contended for.
MCMenu == [d \in MCDish |-> [exists |-> TRUE, price |-> d, stock |-> 3 - d, avail |-> TRUE]]

Symmetry == Permutations(Request)

Checkout(rest, q1, q2) ==
    [op |-> "CreateOrder", user |-> "ann", rest |-> rest,
     qty |-> [d \in MCDish |-> IF d = 1 THEN q1 ELSE q2], text |-> "plain"]

Status(rest, o, to) ==
    [op |-> "UpdateOrderStatus", rest |-> rest, order |-> o, to |-> to, text |-> "plain"]

Cancel(user, o) == [op |-> "CancelOrderByCustomer", user |-> user, order |-> o, text |-> "plain"]
WithNul(c) == [c EXCEPT !.text = "nul"]
Read(user, o) == [op |-> "GetOrderByID", user |-> user, order |-> o]
Remove(rest, d) == [op |-> "DeleteItem", rest |-> rest, dish |-> d]
Profile(active, url) == [op |-> "UpdateRestaurant", rest |-> "own", active |-> active, hook |-> url]

Edit(rest, d, fields, price, stock, avail) ==
    [op |-> "UpdateItem", rest |-> rest, dish |-> d, fields |-> fields,
     price |-> price, stock |-> stock, avail |-> avail]

\* Checkouts against each other and against everything a partner may do to the menu.  A partner
\* who restocks a sold-out dish leaves no room for the portions of a cancelled order.
MenuCalls ==
    {Checkout("own", 1, 1), Checkout("own", 2, 0), WithNul(Checkout("own", 1, 0)),
     Checkout("other", 1, 0), Checkout("nowhere", 1, 0),
     Edit("own", 1, {"price", "stock"}, 5, 2, TRUE), Edit("own", 2, {"avail"}, 0, 0, FALSE),
     Edit("other", 1, {}, 0, 0, TRUE), Remove("own", 2), Profile(FALSE, FALSE)}
    \cup {Cancel("ann", o) : o \in Request}

\* One checkout, then status changes, cancellations and reads of its order.
StatusCalls ==
    {Checkout("own", 1, 1)}
    \cup {Status("own", o, t) : o \in Request, t \in {"accepted", "cooking", "cancelled"}}
    \cup {Status("other", o, "accepted") : o \in Request}
    \cup {WithNul(Status("own", o, "cancelled")) : o \in Request}
    \cup UNION {{Cancel("ann", o), Cancel("bob", o), Read("ann", o), Read("bob", o)} : o \in Request}

\* Calls that all want the same two dishes, and one order.
LiveCalls ==
    {Checkout("own", 1, 1), Edit("own", 2, {"stock"}, 0, 2, TRUE)}
    \cup {Cancel("ann", o) : o \in Request}

\* Two status changes of one order, the second beginning while the first still runs.
AuditCalls ==
    {Checkout("own", 1, 0)}
    \cup {Status("own", o, t) : o \in Request, t \in {"accepted", "cooking"}}

\* The same text sent with a checkout, a status change and a cancellation.
TextCalls ==
    {Checkout("own", 1, 0), WithNul(Checkout("own", 1, 0))}
    \cup UNION {{WithNul(Status("own", o, "accepted")), WithNul(Cancel("ann", o))} : o \in Request}
=============================================================================
