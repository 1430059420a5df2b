-------------------------- MODULE OrderServiceProofs ------------------------
(***************************************************************************)
(* Proofs about OrderService for any number of requests, dishes, customers *)
(* and restaurants, and any menu.                                          *)
(*                                                                         *)
(* The inductive invariant says, for each request and each point of its    *)
(* transaction, which rows it has locked and that what it read of them is  *)
(* still what is committed.  A step of one request leaves the invariant of *)
(* the others alone because it changes no row they have locked: that is    *)
(* Frame, and it is why each action needs a proof about its own request    *)
(* only.                                                                   *)
(***************************************************************************)
EXTENDS OrderProperties, TLAPS

StatusOps == {"UpdateOrderStatus", "CancelOrderByCustomer"}

\* Which statements a call consists of.
Placement(r) ==
    \/ /\ call[r].op = "CreateOrder"
       /\ pc[r] \in {"restaurant", "webhookURL", "lockDishes", "decrement", "commit", "notify", "done"}
    \/ /\ call[r].op \in StatusOps
       /\ pc[r] \in {"lockOrder", "decide", "restock", "readOrder", "readHistory", "webhookURL",
                     "commit", "notify", "done"}
    \/ call[r].op = "GetOrderByID" /\ pc[r] \in {"readOrder", "readHistory", "done"}
    \/ call[r].op = "UpdateItem" /\ pc[r] \in {"assertOwned", "edit", "done"}
    \/ call[r].op = "DeleteItem" /\ pc[r] \in {"assertOwned", "remove", "done"}
    \/ call[r].op = "UpdateRestaurant" /\ pc[r] \in {"update", "done"}

\* Nothing uncommitted.
Clean(r) == draft[r] = None /\ \A d \in Dish : delta[r][d] = 0

\* The row is locked and is as it was read.
Locked(r, d) == dishLock[d] = r /\ seen[r][d] = menu[d]

\* A dish of a checkout before and after its decrement.
Wanted(r, d) == Locked(r, d) /\ menu[d].exists

Taken(r, d) ==
    /\ Wanted(r, d)
    /\ RestaurantOf[d] = call[r].rest /\ menu[d].avail /\ menu[d].stock >= call[r].qty[d]
    /\ delta[r][d] = 0 - call[r].qty[d]

CheckoutInv(r) ==
    LET B == Basket(call[r].qty)
    IN  /\ pc[r] \notin {"notify", "done"} => orders[r] = None
        /\ pc[r] \in {"restaurant", "webhookURL", "lockDishes"} => Clean(r)
        /\ pc[r] = "lockDishes" =>
               \A d \in B : d \in todo[r] \/ (seen[r][d].exists => Wanted(r, d))
        /\ pc[r] = "decrement" =>
               /\ draft[r] = None
               /\ todo[r] \subseteq B
               /\ \A d \in B : Wanted(r, d)
               /\ \A d \in B : d \in todo[r] \/ Taken(r, d)
               /\ \A d \in Dish : d \in todo[r] \/ d \notin B => delta[r][d] = 0
        /\ pc[r] = "commit" =>
               /\ draft[r] = NewOrder(r)
               /\ \A d \in B : Taken(r, d)
               /\ \A d \in Dish : d \notin B => delta[r][d] = 0

\* The dishes a cancellation returns.
Returned(r) == IF NewStatus(r) = "cancelled" THEN Basket(got[r].qty) ELSE {}

Restocked(r, d) ==
    /\ dishLock[d] = r
    /\ delta[r][d] = got[r].qty[d]
    /\ Fits(menu[d].stock + got[r].qty[d])

\* The order as read, with its new status.
Restated(r) ==
    [user |-> got[r].user, rest |-> got[r].rest, status |-> NewStatus(r),
     qty |-> got[r].qty, price |-> got[r].price]

OrderHeld(r) ==
    orderLock[call[r].order] = r /\ got[r] = orders[call[r].order] /\ got[r] # None

Restocking(r) ==
    /\ OrderRefusal(r) = ""
    /\ draft[r] = None
    /\ todo[r] \subseteq Returned(r)
    /\ \A d \in Dish : IF d \in Returned(r) \ todo[r] THEN Restocked(r, d) ELSE delta[r][d] = 0

Written(r) ==
    /\ OrderRefusal(r) = ""
    /\ draft[r] = Restated(r)
    /\ \A d \in Dish : IF d \in Returned(r) THEN Restocked(r, d) ELSE delta[r][d] = 0

StatusInv(r) ==
    /\ pc[r] \in {"lockOrder", "decide"} => Clean(r)
    /\ pc[r] \notin {"lockOrder", "notify", "done"} => OrderHeld(r)
    /\ pc[r] = "restock" => Restocking(r)
    /\ pc[r] \in {"readOrder", "readHistory", "webhookURL", "commit"} => Written(r)

RequestInv(r) ==
    /\ pc[r] = "idle" => Clean(r) /\ orders[r] = None
    /\ pc[r] # "idle" => /\ call[r] \in Call
                         /\ Placement(r)
                         /\ call[r].op = "CreateOrder" => CheckoutInv(r)
                         /\ call[r].op \in StatusOps => StatusInv(r)
                         /\ call[r].op \notin Transactional => Clean(r)

IInv ==
    /\ TypeOK
    /\ OrderedDishesKept
    /\ \A r \in Request : RequestInv(r)

-----------------------------------------------------------------------------
(***************************************************************************)
(* Lemmas about the data.                                                  *)
(***************************************************************************)

LEMMA CallTypes ==
    ASSUME NEW c \in Call
    PROVE  /\ c.op = "CreateOrder" => c \in CheckoutCall
           /\ c.op = "UpdateOrderStatus" => c \in StatusCall
           /\ c.op = "CancelOrderByCustomer" => c \in CancelCall
           /\ c.op = "GetOrderByID" => c \in ReadCall
           /\ c.op = "UpdateItem" => c \in EditCall
           /\ c.op = "DeleteItem" => c \in RemoveCall
           /\ c.op = "UpdateRestaurant" => c \in RestaurantCall
    BY DEF Call, CheckoutCall, StatusCall, CancelCall, ReadCall, EditCall, RemoveCall, RestaurantCall

LEMMA NoDeltaType == NoDelta \in [Dish -> Int]
    BY DEF NoDelta

LEMMA BasketType ==
    ASSUME NEW qty
    PROVE  Basket(qty) \in SUBSET Dish
    BY DEF Basket

LEMMA PortionsAreNumbers == Portions \subseteq Nat
    BY MaxStockAssumption DEF Portions

LEMMA RowStock ==
    ASSUME NEW row \in Row
    PROVE  row.stock \in Nat
    BY PortionsAreNumbers DEF Row

LEMMA StockedRow ==
    ASSUME NEW row \in Row, NEW n \in Portions
    PROVE  /\ Stocked(row, n) \in Row
           /\ Stocked(row, n).exists = row.exists
           /\ Stocked(row, n).price = row.price
           /\ Stocked(row, n).avail = row.avail
           /\ Stocked(row, n).stock = n
           /\ n = row.stock => Stocked(row, n) = row
    BY DEF Stocked, Row

LEMMA MovedOrder ==
    ASSUME NEW order \in Order, NEW s \in Statuses
    PROVE  /\ Moved(order, s) \in Order
           /\ Moved(order, s) = [user |-> order.user, rest |-> order.rest, status |-> s,
                                 qty |-> order.qty, price |-> order.price]
    BY DEF Moved, Order

LEMMA NoReplyType == NoReply \in Reply
    BY DEF NoReply, Reply

-----------------------------------------------------------------------------
(***************************************************************************)
(* What a step of one request leaves alone of another.                     *)
(***************************************************************************)

Frame(r) ==
    /\ pc'[r] = pc[r] /\ call'[r] = call[r]
    /\ todo'[r] = todo[r] /\ seen'[r] = seen[r] /\ got'[r] = got[r]
    /\ delta'[r] = delta[r] /\ draft'[r] = draft[r]
    /\ \A d \in Dish : dishLock[d] = r => dishLock'[d] = r /\ menu'[d] = menu[d]
    /\ \A o \in Request : orderLock[o] = r /\ orders[o] # None => orderLock'[o] = r /\ orders'[o] = orders[o]
    /\ orders[r] = None => orders'[r] = None

LEMMA FrameKeeps ==
    ASSUME TypeOK, NEW r \in Request, Frame(r), RequestInv(r)
    PROVE  RequestInv(r)'
<1> USE DEF Frame
<1>1. Clean(r) => Clean(r)'
    BY DEF Clean
<1>2. Placement(r) => Placement(r)'
    BY DEF Placement
<1>3. ASSUME call[r] \in Call, call[r].op = "CreateOrder", CheckoutInv(r)
      PROVE  CheckoutInv(r)'
    <2>1. call[r] \in CheckoutCall
        BY <1>3, CallTypes
    <2>2. \A d \in Dish : Wanted(r, d) => Wanted(r, d)'
        BY DEF Wanted, Locked
    <2>3. \A d \in Dish : Taken(r, d) => Taken(r, d)'
        BY <2>2 DEF Taken, Wanted, Locked
    <2>4. NewOrder(r)' = NewOrder(r)
        BY DEF NewOrder
    <2>5. Basket(call[r].qty) \subseteq Dish
        BY DEF Basket
    <2> QED
        BY <1>1, <1>3, <2>2, <2>3, <2>4, <2>5 DEF CheckoutInv
<1>4. ASSUME call[r] \in Call, call[r].op \in StatusOps, StatusInv(r)
      PROVE  StatusInv(r)'
    <2>1. call[r].order \in Request
        BY <1>4, CallTypes DEF StatusOps, StatusCall, CancelCall
    <2>2. OrderHeld(r) => OrderHeld(r)'
        BY <2>1 DEF OrderHeld
    <2>3. Returned(r)' = Returned(r) /\ Restated(r)' = Restated(r) /\ OrderRefusal(r)' = OrderRefusal(r)
        BY DEF Returned, Restated, OrderRefusal, Owns, NewStatus, Basket
    <2>4. \A d \in Dish : Restocked(r, d) => Restocked(r, d)'
        BY DEF Restocked
    <2>5. Restocking(r) => Restocking(r)'
        BY <2>3, <2>4 DEF Restocking
    <2>6. Written(r) => Written(r)'
        BY <2>3, <2>4 DEF Written
    <2> QED
        BY <1>1, <1>4, <2>2, <2>5, <2>6 DEF StatusInv
<1> QED
    BY <1>1, <1>2, <1>3, <1>4 DEF RequestInv

\* It is enough to look at the request that takes the step.
LEMMA StepKeeps ==
    ASSUME IInv, NEW r \in Request, TypeOK', OrderedDishesKept', RequestInv(r)',
           \A q \in Request \ {r} : Frame(q)
    PROVE  IInv'
<1>1. \A q \in Request \ {r} : RequestInv(q)'
    BY FrameKeeps DEF IInv
<1> QED
    BY <1>1 DEF IInv

-----------------------------------------------------------------------------
(***************************************************************************)
(* One lemma per action.                                                   *)
(***************************************************************************)

LEMMA AbortStep ==
    ASSUME IInv, NEW r \in Request, NEW error \in Results, pc[r] # "idle", Abort(r, error)
    PROVE  IInv'
<1> USE DEF Abort, Rollback, Release, Goto, EndTx, db
<1>1. TypeOK'
    BY NoReplyType, NoDeltaType, MenuAssumption DEF IInv, TypeOK, PCs
<1>2. RequestInv(r)'
    <2>1. pc'[r] = "done" /\ call'[r] = call[r] /\ delta'[r] = NoDelta /\ draft'[r] = None
        BY DEF IInv, TypeOK
    <2>2. Clean(r)'
        BY <2>1 DEF Clean, NoDelta
    <2>3. call[r] \in Call /\ Placement(r)
        BY DEF IInv, RequestInv
    <2> QED
        BY <2>1, <2>2, <2>3 DEF RequestInv, Placement, CheckoutInv, StatusInv
<1>3. ASSUME NEW q \in Request \ {r} PROVE Frame(q)
    BY <1>3 DEF IInv, TypeOK, Frame
<1>4. OrderedDishesKept'
    BY DEF IInv, OrderedDishesKept
<1> QED
    BY <1>1, <1>2, <1>3, <1>4, StepKeeps

LEMMA ArriveStep ==
    ASSUME IInv, NEW r \in Request, NEW c \in Calls, Arrive(r, c)
    PROVE  IInv'
<1> USE DEF Arrive, Goto, db, locks
<1>1. c \in Call
    BY CallsAssumption
<1>2. c.op \in {"CreateOrder", "UpdateOrderStatus", "CancelOrderByCustomer", "GetOrderByID",
                "UpdateItem", "DeleteItem", "UpdateRestaurant"}
    BY <1>1 DEF Call, CheckoutCall, StatusCall, CancelCall, ReadCall, EditCall, RemoveCall, RestaurantCall
<1>3. TypeOK'
    <2>1. at' \in [Request -> Nat] /\ clock' \in Nat
        <3>1. CASE c.op \in Transactional
            <4> DEFINE now == clock + 1
            <4>1. now \in Nat
                BY DEF IInv, TypeOK
            <4>2. clock' = now /\ at' = [at EXCEPT ![r] = now]
                BY <3>1
            <4> HIDE DEF now
            <4> QED
                BY <4>1, <4>2 DEF IInv, TypeOK
        <3>2. CASE c.op \notin Transactional
            BY <3>2 DEF IInv, TypeOK
        <3> QED
            BY <3>1, <3>2
    <2>2. pc' \in [Request -> PCs]
        BY <1>2 DEF IInv, TypeOK, PCs, FirstStep
    <2>3. call' \in [Request -> Call \cup {None}]
        BY <1>1 DEF IInv, TypeOK
    <2> QED
        BY <2>1, <2>2, <2>3 DEF IInv, TypeOK
<1>4. RequestInv(r)'
    <2>1. draft'[r] = draft[r] /\ delta'[r] = delta[r]
        OBVIOUS
    <2>2. Clean(r) /\ orders[r] = None
        BY DEF IInv, RequestInv
    <2>3. Clean(r)'
        BY <2>1, <2>2 DEF Clean
    <2>4. orders'[r] = orders[r] /\ call'[r] = c /\ pc'[r] = FirstStep[c.op]
        BY DEF IInv, TypeOK
    <2>5. Placement(r)'
        BY <2>4, <1>2 DEF Placement, FirstStep, StatusOps
    <2>6. c.op = "CreateOrder" => CheckoutInv(r)'
        BY <2>2, <2>3, <2>4 DEF CheckoutInv, FirstStep
    <2>7. c.op \in StatusOps => StatusInv(r)'
        BY <2>3, <2>4 DEF StatusInv, FirstStep, StatusOps
    <2> QED
        BY <1>1, <2>2, <2>3, <2>4, <2>5, <2>6, <2>7 DEF RequestInv
<1>5. ASSUME NEW q \in Request \ {r} PROVE Frame(q)
    BY <1>5 DEF IInv, TypeOK, Frame
<1>6. OrderedDishesKept'
    BY DEF IInv, OrderedDishesKept
<1> QED
    BY <1>3, <1>4, <1>5, <1>6, StepKeeps

LEMMA GetRestaurantStep ==
    ASSUME IInv, NEW r \in Request, GetRestaurant(r)
    PROVE  IInv'
<1> USE DEF GetRestaurant, Goto, db, locks, tx
<1>1. CASE \E error \in {"ErrRestaurantInactive", "ErrRestaurantNotFound"} : Abort(r, error)
    BY <1>1, AbortStep DEF Results, Refusals
<1>2. CASE /\ Goto(r, "webhookURL")
           /\ UNCHANGED <<db, locks, call, tx, result, reply, clock, sent, supply>>
    <2>1. TypeOK'
        BY <1>2 DEF IInv, TypeOK, PCs
    <2>2. RequestInv(r) /\ pc'[r] = "webhookURL"
        BY <1>2 DEF IInv, TypeOK
    <2>3. call[r].op = "CreateOrder" /\ call[r] \in Call /\ CheckoutInv(r)
        BY <2>2 DEF RequestInv, Placement
    <2>4. CheckoutInv(r)'
        BY <1>2, <2>2, <2>3 DEF CheckoutInv, Clean
    <2>5. RequestInv(r)'
        BY <1>2, <2>2, <2>3, <2>4 DEF RequestInv, Placement, Transactional, StatusOps
    <2>6. ASSUME NEW q \in Request \ {r} PROVE Frame(q)
        BY <1>2, <2>6 DEF IInv, TypeOK, Frame
    <2>7. OrderedDishesKept'
        BY <1>2 DEF IInv, OrderedDishesKept
    <2> QED
        BY <2>1, <2>5, <2>6, <2>7, StepKeeps
<1> QED
    BY <1>1, <1>2

LEMMA GetWebhookURLStep ==
    ASSUME IInv, NEW r \in Request, GetWebhookURL(r)
    PROVE  IInv'
<1> USE DEF GetWebhookURL, Goto, db, locks
<1>1. RequestInv(r) /\ call[r] \in Call /\ Placement(r)
    BY DEF IInv, RequestInv
<1>2. ASSUME NEW q \in Request \ {r} PROVE Frame(q)
    BY <1>2 DEF IInv, TypeOK, Frame
<1>3. OrderedDishesKept'
    BY DEF IInv, OrderedDishesKept
<1>4. CASE call[r].op = "CreateOrder"
    <2>1. call[r] \in CheckoutCall
        BY <1>1, <1>4, CallTypes
    <2>2. restaurants[call[r].rest].hook \in BOOLEAN
        BY <2>1 DEF CheckoutCall, IInv, TypeOK
    <2>3. TypeOK'
        <3>1. todo' \in [Request -> SUBSET Dish]
            <4> DEFINE basket == Basket(call[r].qty)
            <4>1. basket \in SUBSET Dish
                BY BasketType
            <4>2. todo' = [todo EXCEPT ![r] = basket]
                BY <1>4
            <4> HIDE DEF basket
            <4> QED
                BY <4>1, <4>2 DEF IInv, TypeOK
        <3>2. hook' \in [Request -> BOOLEAN]
            BY <1>4, <2>2 DEF IInv, TypeOK
        <3>3. pc' \in [Request -> PCs]
            BY <1>4 DEF IInv, TypeOK, PCs
        <3> QED
            BY <3>1, <3>2, <3>3 DEF IInv, TypeOK
    <2>4. CheckoutInv(r)'
        BY <1>1, <1>4 DEF CheckoutInv, Clean, RequestInv, IInv, TypeOK
    <2>5. RequestInv(r)'
        BY <1>1, <1>4, <2>4 DEF RequestInv, Placement, Transactional, StatusOps, IInv, TypeOK
    <2> QED
        BY <1>2, <1>3, <2>3, <2>5, StepKeeps
<1>5. CASE call[r].op # "CreateOrder"
    <2>1. call[r].op \in StatusOps /\ StatusInv(r)
        BY <1>1, <1>5 DEF Placement, RequestInv
    <2>2. got[r] \in Order
        BY <1>1, <2>1, CallTypes DEF StatusInv, OrderHeld, IInv, TypeOK
    <2>3. restaurants[got[r].rest].hook \in BOOLEAN
        BY <2>2 DEF Order, IInv, TypeOK
    <2>4. TypeOK'
        BY <1>5, <2>3 DEF IInv, TypeOK, PCs
    <2>5. pc'[r] = "commit" /\ call'[r] = call[r]
        BY <1>5 DEF IInv, TypeOK
    <2>6. Written(r)'
        BY <1>5, <2>1 DEF StatusInv, Written, Returned, Restated, Restocked, OrderRefusal, Owns,
            NewStatus, Basket
    <2>7. StatusInv(r)'
        BY <1>5, <2>1, <2>5, <2>6 DEF StatusInv, OrderHeld
    <2>8. RequestInv(r)'
        BY <1>1, <1>5, <2>1, <2>5, <2>7 DEF RequestInv, Placement, Transactional, StatusOps
    <2> QED
        BY <1>2, <1>3, <2>4, <2>8, StepKeeps
<1> QED
    BY <1>4, <1>5

LEMMA LockDishStep ==
    ASSUME IInv, NEW r \in Request, NEW d \in Dish, LockDish(r, d)
    PROVE  IInv'
<1> USE DEF LockDish, db
<1>1. /\ RequestInv(r) /\ call[r] \in Call /\ Placement(r)
      /\ call[r].op = "CreateOrder" /\ CheckoutInv(r)
    BY DEF IInv, RequestInv, Placement
<1>2. TypeOK'
    BY DEF IInv, TypeOK
<1>3. /\ todo'[r] = todo[r] \ {d}
      /\ seen'[r][d] = menu[d]
      /\ \A e \in Dish \ {d} : seen'[r][e] = seen[r][e] /\ dishLock'[e] = dishLock[e]
      /\ menu[d].exists => dishLock'[d] = r
    BY DEF IInv, TypeOK
<1>4. CheckoutInv(r)'
    <2>1. \A e \in Basket(call[r].qty) : e \in todo'[r] \/ (seen'[r][e].exists => Wanted(r, e)')
        BY <1>1, <1>3 DEF CheckoutInv, Wanted, Locked, Basket
    <2> QED
        BY <1>1, <2>1 DEF CheckoutInv, Clean
<1>5. RequestInv(r)'
    BY <1>1, <1>4 DEF RequestInv, Placement, Transactional, StatusOps
<1>6. ASSUME NEW q \in Request \ {r} PROVE Frame(q)
    BY <1>3, <1>6, NoneAssumption DEF IInv, TypeOK, Frame, Free
<1>7. OrderedDishesKept'
    BY DEF IInv, OrderedDishesKept
<1> QED
    BY <1>2, <1>5, <1>6, <1>7, StepKeeps

LEMMA ReceiveDishesStep ==
    ASSUME IInv, NEW r \in Request, ReceiveDishes(r)
    PROVE  IInv'
<1> USE DEF ReceiveDishes, Goto, db, locks
<1>1. CASE \E d \in Basket(call[r].qty) : ~seen[r][d].exists
    BY <1>1, AbortStep DEF Results, Refusals
<1>2. CASE \A d \in Basket(call[r].qty) : seen[r][d].exists
    <2>1. /\ RequestInv(r) /\ call[r] \in Call /\ Placement(r)
          /\ call[r].op = "CreateOrder" /\ CheckoutInv(r)
        BY DEF IInv, RequestInv, Placement
    <2>2. TypeOK'
        <3> DEFINE basket == Basket(call[r].qty)
        <3>1. basket \in SUBSET Dish
            BY BasketType
        <3>2. /\ todo' = [todo EXCEPT ![r] = basket]
              /\ pc' = [pc EXCEPT ![r] = "decrement"]
              /\ UNCHANGED <<menu, restaurants, orders, history, dishLock, orderLock, call, seen, got,
                             hook, at, delta, draft, result, reply, clock, sent, supply>>
            BY <1>2
        <3> HIDE DEF basket, ReceiveDishes
        <3> QED
            BY <3>1, <3>2 DEF IInv, TypeOK, PCs
    <2>3. pc'[r] = "decrement" /\ call'[r] = call[r] /\ todo'[r] = Basket(call[r].qty)
        BY <1>2 DEF IInv, TypeOK
    <2>4. \A d \in Basket(call[r].qty) : Wanted(r, d)'
        BY <1>2, <2>1 DEF CheckoutInv, Wanted, Locked
    <2>5. CheckoutInv(r)'
        BY <1>2, <2>1, <2>3, <2>4 DEF CheckoutInv, Clean
    <2>6. RequestInv(r)'
        BY <1>2, <2>1, <2>3, <2>5 DEF RequestInv, Placement, Transactional, StatusOps
    <2>7. ASSUME NEW q \in Request \ {r} PROVE Frame(q)
        BY <1>2, <2>7 DEF IInv, TypeOK, Frame
    <2>8. OrderedDishesKept'
        BY <1>2 DEF IInv, OrderedDishesKept
    <2> QED
        BY <2>2, <2>6, <2>7, <2>8, StepKeeps
<1> QED
    BY <1>1, <1>2

LEMMA RefuseDishStep ==
    ASSUME IInv, NEW r \in Request, NEW d \in Dish, RefuseDish(r, d)
    PROVE  IInv'
<1>1. DishRefusal(r, d) \in Results
    BY DEF DishRefusal, Results, Refusals
<1> QED
    BY <1>1, AbortStep DEF RefuseDish

LEMMA DecrementStockStep ==
    ASSUME IInv, NEW r \in Request, NEW d \in Dish, DecrementStock(r, d)
    PROVE  IInv'
<1> DEFINE sold == menu[d].exists /\ menu[d].avail /\ OwnStock(r, d) >= call[r].qty[d]
<1>1. CASE ~sold
    BY <1>1, AbortStep DEF DecrementStock, Results, Refusals
<1>2. CASE sold
    <2> DEFINE left == delta[r][d] - call[r].qty[d]
    <2>1. /\ RequestInv(r) /\ call[r] \in CheckoutCall /\ call[r] \in Call /\ pc[r] = "decrement"
          /\ call[r].op = "CreateOrder" /\ CheckoutInv(r)
        BY CallTypes DEF IInv, RequestInv, Placement, DecrementStock
    <2>2. call[r].qty \in [Dish -> Nat]
        BY <2>1 DEF CheckoutCall, Quantities
    <2>3. left \in Int
        BY <2>2 DEF IInv, TypeOK
    <2>4. /\ d \in todo[r] /\ DishRefusal(r, d) = ""
          /\ dishLock' = [dishLock EXCEPT ![d] = r]
          /\ delta' = [delta EXCEPT ![r][d] = left]
          /\ todo' = [todo EXCEPT ![r] = @ \ {d}]
          /\ UNCHANGED <<menu, restaurants, orders, history, orderLock, pc, call, seen, got, hook,
                         at, draft, result, reply, clock, sent, supply>>
        BY <1>2 DEF DecrementStock, IsFirst, db
    <2>5. Wanted(r, d) /\ delta[r][d] = 0
        BY <2>1, <2>4 DEF CheckoutInv
    <2>6. left = 0 - call[r].qty[d]
        BY <2>2, <2>5
    <2>7. /\ RestaurantOf[d] = call[r].rest /\ menu[d].avail /\ menu[d].stock >= call[r].qty[d]
        <3>1. menu[d].stock \in Nat
            BY RowStock DEF IInv, TypeOK
        <3> QED
            BY <2>2, <2>4, <2>5, <3>1 DEF DishRefusal, Wanted, Locked
    <2> HIDE DEF left, sold
    <2>8. TypeOK'
        BY <2>3, <2>4 DEF IInv, TypeOK
    <2>9. /\ delta'[r][d] = left /\ \A e \in Dish \ {d} : delta'[r][e] = delta[r][e]
          /\ todo'[r] = todo[r] \ {d} /\ \A e \in Dish : dishLock'[e] = IF e = d THEN r ELSE dishLock[e]
        BY <2>4 DEF IInv, TypeOK
    <2>10. \A e \in Dish : Wanted(r, e) => Wanted(r, e)'
        BY <2>4, <2>9 DEF Wanted, Locked
    <2>11. Taken(r, d)'
        BY <2>4, <2>5, <2>6, <2>7, <2>9, <2>10 DEF Taken
    <2>12. \A e \in Dish \ {d} : Taken(r, e) => Taken(r, e)'
        BY <2>4, <2>9, <2>10 DEF Taken
    <2>13. CheckoutInv(r)'
        <3>1. Basket(call[r].qty) \subseteq Dish
            BY BasketType
        <3>2. Basket(call[r].qty)' = Basket(call[r].qty)
            BY <2>4
        <3> QED
            BY <2>1, <2>4, <2>9, <2>10, <2>11, <2>12, <3>1, <3>2 DEF CheckoutInv
    <2>14. RequestInv(r)'
        BY <2>1, <2>4, <2>13 DEF RequestInv, Placement, Transactional, StatusOps
    <2>15. ASSUME NEW q \in Request \ {r} PROVE Frame(q)
        BY <2>4, <2>5, <2>9, <2>15 DEF IInv, TypeOK, Frame, Wanted, Locked
    <2>16. OrderedDishesKept'
        BY <2>4 DEF IInv, OrderedDishesKept
    <2> QED
        BY <2>8, <2>14, <2>15, <2>16, StepKeeps
<1> QED
    BY <1>1, <1>2

LEMMA NewOrderType ==
    ASSUME TypeOK, NEW r \in Request, call[r] \in CheckoutCall
    PROVE  NewOrder(r) \in Order
<1>1. [d \in Dish |-> IF d \in Basket(call[r].qty) THEN seen[r][d].price ELSE 0] \in [Dish -> Nat]
    BY DEF TypeOK, Row
<1>2. call[r].user \in Customer /\ call[r].rest \in Restaurant /\ call[r].qty \in Quantities
    BY DEF CheckoutCall
<1> QED
    BY <1>1, <1>2 DEF NewOrder, Order, Statuses

LEMMA PersistOrderStep ==
    ASSUME IInv, NEW r \in Request, PersistOrder(r)
    PROVE  IInv'
<1>a. SUFFICES ASSUME call[r].text = "plain" PROVE IInv'
    BY AbortStep DEF PersistOrder, Results, Refusals
<1> DEFINE first == [from |-> "", to |-> "created", actor |-> "system", at |-> at[r], by |-> r]
           answer == [status |-> "created", trail |-> {first}]
<1>1. /\ RequestInv(r) /\ call[r] \in CheckoutCall /\ call[r] \in Call /\ pc[r] = "decrement"
      /\ call[r].op = "CreateOrder" /\ CheckoutInv(r)
    BY <1>a, CallTypes DEF IInv, RequestInv, Placement, PersistOrder
<1>2. answer \in Reply
    <2>1. first \in Entry
        BY DEF Entry, Statuses, Actors, IInv, TypeOK
    <2> HIDE DEF first
    <2> QED
        BY <2>1 DEF Reply, Statuses
<1>3. /\ todo[r] = {}
      /\ pc' = [pc EXCEPT ![r] = "commit"]
      /\ draft' = [draft EXCEPT ![r] = NewOrder(r)]
      /\ reply' = [reply EXCEPT ![r] = answer]
      /\ UNCHANGED <<menu, restaurants, orders, history, dishLock, orderLock, call, todo, seen, got,
                     hook, at, delta, result, clock, sent, supply>>
    BY <1>a DEF PersistOrder, Goto, db, locks
<1> HIDE DEF answer, first
<1>4. TypeOK'
    BY <1>1, <1>2, <1>3, NewOrderType DEF IInv, TypeOK, PCs
<1>5. NewOrder(r)' = NewOrder(r) /\ draft'[r] = NewOrder(r) /\ pc'[r] = "commit"
    BY <1>3 DEF NewOrder, IInv, TypeOK
<1>6. \A d \in Dish : Taken(r, d) => Taken(r, d)'
    BY <1>3 DEF Taken, Wanted, Locked
<1>7. CheckoutInv(r)'
    BY <1>1, <1>3, <1>5, <1>6, BasketType DEF CheckoutInv
<1>8. RequestInv(r)'
    BY <1>1, <1>3, <1>5, <1>7 DEF RequestInv, Placement, Transactional, StatusOps
<1>9. ASSUME NEW q \in Request \ {r} PROVE Frame(q)
    BY <1>3, <1>9 DEF IInv, TypeOK, Frame
<1>10. OrderedDishesKept'
    BY <1>3 DEF IInv, OrderedDishesKept
<1> QED
    BY <1>4, <1>8, <1>9, <1>10, StepKeeps

-----------------------------------------------------------------------------
(***************************************************************************)
(* The commit: what the transaction knows by then, then what it writes.    *)
(***************************************************************************)

LEMMA OrderRefusalNone ==
    ASSUME NEW r \in Request, OrderRefusal(r) = ""
    PROVE  /\ Owns(r)
           /\ NewStatus(r) = "cancelled" => CanBeCancelledBy(got[r].status, ActorOf[call[r].op])
           /\ NewStatus(r) # "cancelled" => CanTransitionTo(got[r].status, NewStatus(r))
    BY DEF OrderRefusal

LEMMA NewStatusType ==
    ASSUME NEW r \in Request, call[r] \in Call, call[r].op \in StatusOps
    PROVE  NewStatus(r) \in Statuses
    BY CallTypes DEF NewStatus, StatusOps, StatusCall, Statuses

LEMMA RestatedType ==
    ASSUME NEW r \in Request, call[r] \in Call, call[r].op \in StatusOps, got[r] \in Order
    PROVE  Restated(r) \in Order
    BY NewStatusType DEF Restated, Order

LEMMA CommitKnows ==
    ASSUME IInv, NEW r \in Request, pc[r] = "commit"
    PROVE  /\ call[r] \in Call /\ Placement(r) /\ RequestInv(r)
           /\ Target(r) \in Request /\ draft[r] \in Order
           /\ \A d \in Dish : OwnStock(r, d) \in Portions
           /\ \A d \in Dish : delta[r][d] = 0 \/ dishLock[d] = r
           /\ \/ /\ call[r].op = "CreateOrder" /\ CheckoutInv(r) /\ orders[r] = None /\ Target(r) = r
                 /\ draft[r] = NewOrder(r)
              \/ /\ call[r].op \in StatusOps /\ OrderHeld(r) /\ Written(r) /\ Target(r) = call[r].order
                 /\ got[r] \in Order /\ draft[r] = Restated(r)
<1>1. call[r] \in Call /\ Placement(r) /\ RequestInv(r)
    BY DEF IInv, RequestInv
<1>2. CASE call[r].op = "CreateOrder"
    <2>1. call[r] \in CheckoutCall /\ CheckoutInv(r)
        BY <1>1, <1>2, CallTypes DEF RequestInv
    <2>2. /\ draft[r] = NewOrder(r) /\ orders[r] = None
          /\ \A d \in Basket(call[r].qty) : Taken(r, d)
          /\ \A d \in Dish : d \notin Basket(call[r].qty) => delta[r][d] = 0
        BY <2>1 DEF CheckoutInv
    <2>3. draft[r] \in Order
        BY <2>1, <2>2, NewOrderType DEF IInv
    <2>4. ASSUME NEW d \in Dish PROVE OwnStock(r, d) \in Portions
        <3>1. menu[d].stock \in 0 .. MaxStock /\ call[r].qty[d] \in Nat
            BY <2>1 DEF Portions, CheckoutCall, Quantities, IInv, TypeOK, Row
        <3>2. \/ delta[r][d] = 0
              \/ delta[r][d] = 0 - call[r].qty[d] /\ menu[d].stock >= call[r].qty[d]
            BY <2>2 DEF Taken
        <3> QED
            BY <3>1, <3>2, MaxStockAssumption DEF OwnStock, Portions
    <2>5. \A d \in Dish : delta[r][d] = 0 \/ dishLock[d] = r
        BY <2>2 DEF Taken, Wanted, Locked
    <2>6. Target(r) = r
        BY <1>2 DEF Target
    <2> QED
        BY <1>1, <1>2, <2>1, <2>2, <2>3, <2>4, <2>5, <2>6
<1>3. CASE call[r].op \in StatusOps
    <2>1. /\ OrderHeld(r) /\ Written(r) /\ call[r].order \in Request
        BY <1>1, <1>3, CallTypes DEF RequestInv, StatusInv, StatusOps, StatusCall, CancelCall
    <2>2. got[r] \in Order
        BY <2>1 DEF OrderHeld, IInv, TypeOK
    <2>3. draft[r] = Restated(r) /\ draft[r] \in Order
        BY <1>1, <1>3, <2>1, <2>2, RestatedType DEF Written
    <2>4. \A d \in Dish : \/ delta[r][d] = 0
                          \/ /\ dishLock[d] = r /\ delta[r][d] = got[r].qty[d]
                             /\ Fits(menu[d].stock + got[r].qty[d])
        BY <2>1 DEF Written, Restocked
    <2>5. ASSUME NEW d \in Dish PROVE OwnStock(r, d) \in Portions
        <3>1. menu[d].stock \in 0 .. MaxStock /\ got[r].qty[d] \in Nat
            BY <2>2 DEF Portions, Order, Quantities, IInv, TypeOK, Row
        <3> QED
            BY <2>4, <3>1, MaxStockAssumption DEF OwnStock, Portions, Fits
    <2>6. Target(r) = call[r].order
        BY <1>3 DEF Target, StatusOps
    <2> QED
        BY <1>1, <1>3, <2>1, <2>2, <2>3, <2>4, <2>5, <2>6
<1> QED
    BY <1>1, <1>2, <1>3 DEF Placement

LEMMA HistoryEntryType ==
    ASSUME IInv, NEW r \in Request, pc[r] = "commit"
    PROVE  HistoryEntry(r) \in Entry
<1>1. draft[r].status \in Statuses
    BY CommitKnows DEF Order
<1>2. call[r].op \in Transactional /\ ActorOf[call[r].op] \in Actors
    BY CommitKnows DEF ActorOf, Actors, StatusOps, Transactional
<1>3. (IF call[r].op = "CreateOrder" THEN "" ELSE got[r].status) \in Statuses \cup {""}
    BY CommitKnows DEF Order
<1>4. at[r] \in Nat
    BY DEF IInv, TypeOK
<1> QED
    BY <1>1, <1>2, <1>3, <1>4 DEF HistoryEntry, Entry

\* What a commit does to the rows, whatever becomes of the answer.
LEMMA CommitWrites ==
    ASSUME IInv, NEW r \in Request, Commit(r)
    PROVE  /\ pc[r] = "commit"
           /\ pc' \in [Request -> PCs] /\ pc'[r] \in {"notify", "done"}
           /\ \A q \in Request \ {r} : pc'[q] = pc[q]
           /\ menu' = [d \in Dish |-> Stocked(menu[d], OwnStock(r, d))]
           /\ orders' = [orders EXCEPT ![Target(r)] = draft[r]]
           /\ history' = [history EXCEPT ![Target(r)] = Append(@, HistoryEntry(r))]
           /\ dishLock' = [d \in Dish |-> IF dishLock[d] = r THEN None ELSE dishLock[d]]
           /\ orderLock' = [o \in Request |-> IF orderLock[o] = r THEN None ELSE orderLock[o]]
           /\ result' \in [Request -> Results]
           /\ reply' \in [Request -> Reply]
           /\ hook' \in [Request -> BOOLEAN]
           /\ EndTx(r)
           /\ UNCHANGED <<restaurants, call, clock, sent, supply>>
<1>1. CASE Goto(r, "notify") /\ UNCHANGED <<hook, result, reply>>
    BY <1>1 DEF Commit, Release, Goto, IInv, TypeOK, PCs
<1>2. CASE /\ Answer(r, "lost")
           /\ hook' = [hook EXCEPT ![r] = FALSE]
           /\ reply' = [reply EXCEPT ![r] = NoReply]
    BY <1>2, NoReplyType DEF Commit, Release, Answer, Goto, IInv, TypeOK, PCs, Results
<1> QED
    BY <1>1, <1>2 DEF Commit

LEMMA CommitStep ==
    ASSUME IInv, NEW r \in Request, Commit(r)
    PROVE  IInv'
<1> DEFINE left(d) == OwnStock(r, d)
<1>1. pc[r] = "commit"
    BY CommitWrites
<1>2. \A d \in Dish : left(d) \in Portions
    BY <1>1, CommitKnows
<1>3. menu' = [d \in Dish |-> Stocked(menu[d], left(d))]
    BY CommitWrites
<1>4. \A d \in Dish : delta[r][d] = 0 => left(d) = menu[d].stock
    <2>1. \A d \in Dish : menu[d].stock \in Nat
        BY RowStock DEF IInv, TypeOK
    <2> QED
        BY <2>1 DEF OwnStock
<1> HIDE DEF left
<1>5. menu' \in [Dish -> Row]
    BY <1>2, <1>3, StockedRow DEF IInv, TypeOK
<1>6. \A d \in Dish : menu'[d].exists = menu[d].exists
    BY <1>2, <1>3, StockedRow DEF IInv, TypeOK
<1>7. \A d \in Dish : delta[r][d] = 0 => menu'[d] = menu[d]
    BY <1>2, <1>3, <1>4, StockedRow DEF IInv, TypeOK
<1>8. TypeOK'
    <2>1. orders' \in [Request -> Order \cup {None}]
        BY <1>1, CommitKnows, CommitWrites DEF IInv, TypeOK
    <2>2. history' \in [Request -> Seq(Entry)]
        <3> DEFINE entry == HistoryEntry(r)
                   target == Target(r)
        <3>1. entry \in Entry /\ target \in Request
            BY <1>1, CommitKnows, HistoryEntryType
        <3>2. history' = [history EXCEPT ![target] = Append(history[target], entry)]
            BY CommitWrites
        <3>3. history \in [Request -> Seq(Entry)]
            BY DEF IInv, TypeOK
        <3> HIDE DEF entry, target
        <3>4. Append(history[target], entry) \in Seq(Entry)
            BY <3>1, <3>3
        <3> QED
            BY <3>1, <3>2, <3>3, <3>4
    <2>3. /\ dishLock' \in [Dish -> Request \cup {None}]
          /\ orderLock' \in [Request -> Request \cup {None}]
        BY CommitWrites DEF IInv, TypeOK
    <2>4. /\ todo' \in [Request -> SUBSET Dish]
          /\ seen' \in [Request -> [Dish -> Row]]
          /\ got' \in [Request -> Order \cup {None}]
          /\ at' \in [Request -> Nat]
          /\ delta' \in [Request -> [Dish -> Int]]
          /\ draft' \in [Request -> Order \cup {None}]
        <3>1. EndTx(r)
            BY CommitWrites
        <3> QED
            BY <3>1, NoDeltaType, MenuAssumption DEF EndTx, IInv, TypeOK
    <2> QED
        BY <1>5, <2>1, <2>2, <2>3, <2>4, CommitWrites DEF IInv, TypeOK
<1>9. RequestInv(r)'
    <2>1. call'[r] = call[r] /\ pc'[r] \in {"notify", "done"} /\ call[r] \in Call
        BY <1>1, CommitKnows, CommitWrites
    <2>2. Placement(r)' /\ call[r].op \in Transactional
        BY <1>1, <2>1, CommitKnows DEF Placement, Transactional, StatusOps
    <2> QED
        BY <2>1, <2>2 DEF RequestInv, CheckoutInv, StatusInv
<1>10. ASSUME NEW q \in Request \ {r} PROVE Frame(q)
    <2>1. /\ pc'[q] = pc[q] /\ call'[q] = call[q]
          /\ todo'[q] = todo[q] /\ seen'[q] = seen[q] /\ got'[q] = got[q]
          /\ delta'[q] = delta[q] /\ draft'[q] = draft[q]
        BY <1>10, CommitWrites DEF EndTx, IInv, TypeOK
    <2>2. ASSUME NEW d \in Dish, dishLock[d] = q PROVE dishLock'[d] = q /\ menu'[d] = menu[d]
        BY <1>1, <1>7, <1>10, <2>2, CommitKnows, CommitWrites
    <2>3. ASSUME NEW o \in Request, orderLock[o] = q, orders[o] # None
          PROVE  orderLock'[o] = q /\ orders'[o] = orders[o]
        <3>1. Target(r) # o
            BY <1>1, <1>10, <2>3, CommitKnows DEF OrderHeld
        <3> QED
            BY <1>10, <2>3, <3>1, CommitWrites DEF IInv, TypeOK
    <2>4. orders[q] = None => orders'[q] = None
        <3>1. orders[q] = None => Target(r) # q
            BY <1>1, <1>10, CommitKnows DEF OrderHeld
        <3> QED
            BY <3>1, CommitWrites DEF IInv, TypeOK
    <2> QED
        BY <2>1, <2>2, <2>3, <2>4 DEF Frame
<1>11. OrderedDishesKept'
    <2>1. \A d \in Basket(draft[r].qty) : menu[d].exists
        <3>1. CASE call[r].op = "CreateOrder"
            <4>1. draft[r].qty = call[r].qty /\ CheckoutInv(r)
                <5>1. draft[r] = NewOrder(r) /\ CheckoutInv(r)
                    BY <1>1, <3>1, CommitKnows DEF StatusOps
                <5> QED
                    BY <5>1 DEF NewOrder
            <4> QED
                BY <1>1, <4>1 DEF CheckoutInv, Taken, Wanted
        <3>2. CASE call[r].op # "CreateOrder"
            <4>1. /\ draft[r].qty = orders[call[r].order].qty /\ orders[call[r].order] # None
                  /\ call[r].order \in Request
                <5>1. /\ draft[r] = Restated(r) /\ OrderHeld(r) /\ Target(r) = call[r].order
                      /\ Target(r) \in Request
                    BY <1>1, <3>2, CommitKnows
                <5> QED
                    BY <5>1 DEF Restated, OrderHeld
            <4> QED
                BY <4>1 DEF IInv, OrderedDishesKept
        <3> QED
            BY <3>1, <3>2
    <2>2. ASSUME NEW o \in Request, orders'[o] # None, NEW d \in Basket(orders'[o].qty)
          PROVE  menu'[d].exists
        <3>1. d \in Dish
            BY <2>2 DEF Basket
        <3>2. CASE o = Target(r)
            <4>1. orders'[o] = draft[r]
                BY <2>2, <3>2, CommitWrites DEF IInv, TypeOK
            <4> QED
                BY <1>6, <2>1, <2>2, <3>1, <4>1
        <3>3. CASE o # Target(r)
            <4>1. orders'[o] = orders[o]
                BY <2>2, <3>3, CommitWrites DEF IInv, TypeOK
            <4> QED
                BY <1>6, <2>2, <3>1, <4>1 DEF IInv, OrderedDishesKept
        <3> QED
            BY <3>2, <3>3
    <2> QED
        BY <2>2 DEF OrderedDishesKept, Basket
<1> QED
    BY <1>8, <1>9, <1>10, <1>11, StepKeeps

-----------------------------------------------------------------------------
(***************************************************************************)
(* The other actions of a request.                                         *)
(***************************************************************************)

LEMMA FailStep ==
    ASSUME IInv, NEW r \in Request, Fail(r)
    PROVE  IInv'
    BY AbortStep DEF Fail, Results

LEMMA NotifyPartnerStep ==
    ASSUME IInv, NEW r \in Request, NotifyPartner(r)
    PROVE  IInv'
<1> USE DEF NotifyPartner, Answer, Goto, db, locks
<1>1. RequestInv(r) /\ call[r] \in Call /\ Placement(r) /\ call[r].op \in Transactional
    BY DEF IInv, RequestInv, Placement, Transactional, StatusOps
<1>2. TypeOK'
    <2> DEFINE hooked == [order |-> Target(r), status |-> reply[r].status, by |-> r]
    <2>1. sent' = sent \/ sent' = sent \cup {hooked}
        OBVIOUS
    <2>2. Target(r) \in Request
        BY <1>1, CallTypes DEF Target, Transactional, StatusCall, CancelCall
    <2>3. hooked \in Webhook
        BY <2>2 DEF IInv, TypeOK, Reply, Webhook
    <2> HIDE DEF hooked
    <2>4. sent' \subseteq Webhook
        BY <2>1, <2>3 DEF IInv, TypeOK
    <2> QED
        BY <2>4 DEF IInv, TypeOK, PCs, Results
<1>3. RequestInv(r)'
    <2>1. pc'[r] = "done" /\ call'[r] = call[r]
        BY DEF IInv, TypeOK
    <2> QED
        BY <1>1, <2>1 DEF RequestInv, Placement, CheckoutInv, StatusInv
<1>4. ASSUME NEW q \in Request \ {r} PROVE Frame(q)
    BY <1>4 DEF IInv, TypeOK, Frame
<1>5. OrderedDishesKept'
    BY DEF IInv, OrderedDishesKept
<1> QED
    BY <1>2, <1>3, <1>4, <1>5, StepKeeps

LEMMA LockOrderStep ==
    ASSUME IInv, NEW r \in Request, LockOrder(r)
    PROVE  IInv'
<1> DEFINE o == call[r].order
<1>1. CASE orders[o] = None
    BY <1>1, AbortStep DEF LockOrder, Results, Refusals
<1>2. CASE orders[o] # None
    <2>1. /\ pc[r] = "lockOrder" /\ Free(orderLock[o], r)
          /\ orderLock' = [orderLock EXCEPT ![o] = r]
          /\ got' = [got EXCEPT ![r] = orders[o]]
          /\ pc' = [pc EXCEPT ![r] = "decide"]
          /\ UNCHANGED <<menu, restaurants, orders, history, dishLock, call, todo, seen, hook, at,
                         delta, draft, result, reply, clock, sent, supply>>
        BY <1>2 DEF LockOrder, Goto, db
    <2>2. /\ RequestInv(r) /\ call[r] \in Call /\ call[r].op \in StatusOps /\ StatusInv(r)
        BY <2>1 DEF IInv, RequestInv, Placement
    <2>3. o \in Request
        BY <2>2, CallTypes DEF StatusOps, StatusCall, CancelCall
    <2>4. orders[o] \in Order
        BY <1>2, <2>3 DEF IInv, TypeOK
    <2>5. TypeOK'
        BY <2>1, <2>3, <2>4 DEF IInv, TypeOK, PCs
    <2>6. /\ pc'[r] = "decide" /\ call'[r] = call[r] /\ orderLock'[o] = r /\ got'[r] = orders'[o]
        BY <2>1, <2>3 DEF IInv, TypeOK
    <2>7. StatusInv(r)'
        BY <1>2, <2>1, <2>2, <2>6 DEF StatusInv, Clean, OrderHeld
    <2>8. RequestInv(r)'
        BY <2>2, <2>6, <2>7 DEF RequestInv, Placement, Transactional, StatusOps
    <2>9. ASSUME NEW q \in Request \ {r} PROVE Frame(q)
        BY <2>1, <2>3, <2>9, NoneAssumption DEF IInv, TypeOK, Frame, Free
    <2>10. OrderedDishesKept'
        BY <2>1 DEF IInv, OrderedDishesKept
    <2> QED
        BY <2>5, <2>8, <2>9, <2>10, StepKeeps
<1> QED
    BY <1>1, <1>2

LEMMA DecideStep ==
    ASSUME IInv, NEW r \in Request, Decide(r)
    PROVE  IInv'
<1>1. OrderRefusal(r) \in Results
    BY DEF OrderRefusal, Results, Refusals
<1>2. CASE OrderRefusal(r) # ""
    BY <1>1, <1>2, AbortStep DEF Decide
<1>3. CASE OrderRefusal(r) = ""
    <2>1. /\ pc[r] = "decide"
          /\ pc' = [pc EXCEPT ![r] = "restock"]
          /\ todo' = [todo EXCEPT ![r] = Returned(r)]
          /\ UNCHANGED <<menu, restaurants, orders, history, dishLock, orderLock, call, seen, got, hook,
                         at, delta, draft, result, reply, clock, sent, supply>>
        BY <1>3 DEF Decide, Goto, db, locks, Returned
    <2>2. /\ RequestInv(r) /\ call[r] \in Call /\ call[r].op \in StatusOps /\ StatusInv(r)
        BY <2>1 DEF IInv, RequestInv, Placement
    <2>3. Returned(r) \in SUBSET Dish
        BY BasketType DEF Returned
    <2>4. TypeOK'
        BY <2>1, <2>3 DEF IInv, TypeOK, PCs
    <2>5. pc'[r] = "restock" /\ call'[r] = call[r] /\ todo'[r] = Returned(r)
        BY <2>1 DEF IInv, TypeOK
    <2>6. Returned(r)' = Returned(r) /\ OrderRefusal(r)' = OrderRefusal(r)
        BY <2>1 DEF Returned, OrderRefusal, Owns, NewStatus, Basket
    <2>7. Restocking(r)'
        BY <1>3, <2>1, <2>2, <2>5, <2>6 DEF Restocking, StatusInv, Clean
    <2>8. StatusInv(r)'
        BY <2>1, <2>2, <2>5, <2>7 DEF StatusInv, OrderHeld
    <2>9. RequestInv(r)'
        BY <2>2, <2>5, <2>8 DEF RequestInv, Placement, Transactional, StatusOps
    <2>10. ASSUME NEW q \in Request \ {r} PROVE Frame(q)
        BY <2>1, <2>10 DEF IInv, TypeOK, Frame
    <2>11. OrderedDishesKept'
        BY <2>1 DEF IInv, OrderedDishesKept
    <2> QED
        BY <2>4, <2>9, <2>10, <2>11, StepKeeps
<1> QED
    BY <1>2, <1>3

LEMMA IncrementStockStep ==
    ASSUME IInv, NEW r \in Request, NEW d \in Dish, IncrementStock(r, d)
    PROVE  IInv'
<1> DEFINE room == Fits(OwnStock(r, d) + got[r].qty[d])
<1>1. CASE ~menu[d].exists \/ ~room
    BY <1>1, AbortStep DEF IncrementStock, Results, Refusals
<1>2. CASE menu[d].exists /\ room
    <2> DEFINE more == delta[r][d] + got[r].qty[d]
    <2>1. /\ pc[r] = "restock" /\ d \in todo[r] /\ Free(dishLock[d], r)
          /\ dishLock' = [dishLock EXCEPT ![d] = r]
          /\ delta' = [delta EXCEPT ![r][d] = more]
          /\ todo' = [todo EXCEPT ![r] = @ \ {d}]
          /\ UNCHANGED <<menu, restaurants, orders, history, orderLock, pc, call, seen, got, hook,
                         at, draft, result, reply, clock, sent, supply>>
        BY <1>2 DEF IncrementStock, IsFirst, db
    <2>2. /\ RequestInv(r) /\ call[r] \in Call /\ call[r].op \in StatusOps /\ StatusInv(r)
          /\ OrderHeld(r) /\ Restocking(r)
        BY <2>1 DEF IInv, RequestInv, Placement, StatusInv
    <2>3. got[r] \in Order
        BY <2>2 DEF OrderHeld, IInv, TypeOK
    <2>4. more = got[r].qty[d] /\ more \in Nat /\ Fits(menu[d].stock + got[r].qty[d])
        <3>1. delta[r][d] = 0
            BY <2>1, <2>2 DEF Restocking
        <3>2. got[r].qty[d] \in Nat /\ menu[d].stock \in Nat
            BY <2>3, PortionsAreNumbers DEF Order, Quantities, IInv, TypeOK, Row
        <3>3. OwnStock(r, d) = menu[d].stock
            BY <3>1, <3>2 DEF OwnStock
        <3> QED
            BY <1>2, <3>1, <3>2, <3>3
    <2> HIDE DEF more, room
    <2>5. TypeOK'
        BY <2>1, <2>4 DEF IInv, TypeOK
    <2>6. /\ delta'[r][d] = more /\ \A e \in Dish \ {d} : delta'[r][e] = delta[r][e]
          /\ todo'[r] = todo[r] \ {d} /\ \A e \in Dish : dishLock'[e] = IF e = d THEN r ELSE dishLock[e]
        BY <2>1 DEF IInv, TypeOK
    <2>7. Returned(r)' = Returned(r) /\ OrderRefusal(r)' = OrderRefusal(r)
        BY <2>1 DEF Returned, OrderRefusal, Owns, NewStatus, Basket
    <2>8. Restocking(r)'
        BY <2>1, <2>2, <2>4, <2>6, <2>7 DEF Restocking, Restocked
    <2>9. StatusInv(r)'
        BY <2>1, <2>2, <2>8 DEF StatusInv, OrderHeld
    <2>10. RequestInv(r)'
        BY <2>1, <2>2, <2>9 DEF RequestInv, Placement, Transactional, StatusOps
    <2>11. ASSUME NEW q \in Request \ {r} PROVE Frame(q)
        BY <2>1, <2>6, <2>11, NoneAssumption DEF IInv, TypeOK, Frame, Free
    <2>12. OrderedDishesKept'
        BY <2>1 DEF IInv, OrderedDishesKept
    <2> QED
        BY <2>5, <2>10, <2>11, <2>12, StepKeeps
<1> QED
    BY <1>1, <1>2

LEMMA ApplyStatusChangeStep ==
    ASSUME IInv, NEW r \in Request, ApplyStatusChange(r)
    PROVE  IInv'
<1>a. SUFFICES ASSUME call[r].text = "plain" PROVE IInv'
    BY AbortStep DEF ApplyStatusChange, Results, Refusals
<1> DEFINE o == call[r].order
           new == Moved(orders[o], NewStatus(r))
<1>1. /\ pc[r] = "restock" /\ todo[r] = {}
      /\ orderLock' = [orderLock EXCEPT ![o] = r]
      /\ draft' = [draft EXCEPT ![r] = new]
      /\ pc' = [pc EXCEPT ![r] = "readOrder"]
      /\ UNCHANGED <<menu, restaurants, orders, history, dishLock, call, todo, seen, got, hook, at,
                     delta, result, reply, clock, sent, supply>>
    BY <1>a DEF ApplyStatusChange, Goto, db
<1>2. /\ RequestInv(r) /\ call[r] \in Call /\ call[r].op \in StatusOps /\ StatusInv(r)
      /\ OrderHeld(r) /\ Restocking(r)
    BY <1>1 DEF IInv, RequestInv, Placement, StatusInv
<1>3. o \in Request /\ orderLock[o] = r
    BY <1>2, CallTypes DEF StatusOps, StatusCall, CancelCall, OrderHeld
<1>4. got[r] = orders[o] /\ got[r] \in Order
    BY <1>2, <1>3 DEF OrderHeld, IInv, TypeOK
<1>5. new = Restated(r) /\ new \in Order
    BY <1>2, <1>4, NewStatusType, MovedOrder DEF Restated
<1> HIDE DEF new
<1>6. TypeOK'
    BY <1>1, <1>3, <1>5 DEF IInv, TypeOK, PCs
<1>7. pc'[r] = "readOrder" /\ call'[r] = call[r] /\ draft'[r] = Restated(r) /\ orderLock'[o] = r
    BY <1>1, <1>3, <1>5 DEF IInv, TypeOK
<1>8. Returned(r)' = Returned(r) /\ OrderRefusal(r)' = OrderRefusal(r) /\ Restated(r)' = Restated(r)
    BY <1>1 DEF Returned, OrderRefusal, Owns, NewStatus, Basket, Restated
<1>9. Written(r)'
    BY <1>1, <1>2, <1>7, <1>8 DEF Written, Restocking, Restocked
<1>10. StatusInv(r)'
    BY <1>1, <1>2, <1>7, <1>9 DEF StatusInv, OrderHeld
<1>11. RequestInv(r)'
    BY <1>2, <1>7, <1>10 DEF RequestInv, Placement, Transactional, StatusOps
<1>12. ASSUME NEW q \in Request \ {r} PROVE Frame(q)
    BY <1>1, <1>3, <1>12 DEF IInv, TypeOK, Frame
<1>13. OrderedDishesKept'
    BY <1>1 DEF IInv, OrderedDishesKept
<1> QED
    BY <1>6, <1>11, <1>12, <1>13, StepKeeps

\* A step that only moves a reader or a status change on and fills in the reply.
LEMMA ReadingStep ==
    ASSUME IInv, NEW r \in Request, NEW next, NEW p \in Reply, NEW e \in Results,
           pc' = [pc EXCEPT ![r] = next],
           \/ /\ call[r].op = "GetOrderByID" /\ pc[r] # "idle"
              /\ next \in {"readHistory", "done"}
           \/ /\ call[r].op \in StatusOps
              /\ \/ pc[r] = "readOrder" /\ next = "readHistory"
                 \/ pc[r] = "readHistory" /\ next = "webhookURL",
           reply' = [reply EXCEPT ![r] = p],
           result' = result \/ result' = [result EXCEPT ![r] = e],
           UNCHANGED <<menu, restaurants, orders, history, dishLock, orderLock, call, todo, seen, got,
                       hook, at, delta, draft, clock, sent, supply>>
    PROVE  IInv'
<1>1. RequestInv(r) /\ call[r] \in Call /\ Placement(r)
    BY DEF IInv, RequestInv, StatusOps
<1>2. TypeOK'
    <2>1. next \in PCs
        BY DEF PCs
    <2>2. pc' \in [Request -> PCs] /\ result' \in [Request -> Results] /\ reply' \in [Request -> Reply]
        BY <2>1 DEF IInv, TypeOK
    <2> QED
        BY <2>2 DEF IInv, TypeOK
<1>3. pc'[r] = next
    BY DEF IInv, TypeOK
<1>4. RequestInv(r)'
    <2>1. CASE call[r].op = "GetOrderByID"
        BY <1>1, <1>3, <2>1 DEF RequestInv, Placement, Clean, Transactional, StatusOps
    <2>2. CASE call[r].op \in StatusOps
        <3>1. StatusInv(r) /\ Written(r) /\ OrderHeld(r)
            BY <1>1, <2>2 DEF RequestInv, StatusInv, StatusOps
        <3>2. Written(r)'
            BY <3>1 DEF Written, Returned, Restated, Restocked, OrderRefusal, Owns, NewStatus, Basket
        <3>3. StatusInv(r)'
            BY <1>3, <2>2, <3>1, <3>2 DEF StatusInv, OrderHeld, StatusOps
        <3> QED
            BY <1>1, <1>3, <2>2, <3>3 DEF RequestInv, Placement, Transactional, StatusOps
    <2> QED
        BY <2>1, <2>2
<1>5. ASSUME NEW q \in Request \ {r} PROVE Frame(q)
    BY <1>5 DEF IInv, TypeOK, Frame
<1>6. OrderedDishesKept'
    BY DEF IInv, OrderedDishesKept
<1> QED
    BY <1>2, <1>4, <1>5, <1>6, StepKeeps

LEMMA ReadOrderStep ==
    ASSUME IInv, NEW r \in Request, ReadOrder(r)
    PROVE  IInv'
<1> DEFINE o == call[r].order
           p == [reply[r] EXCEPT !.status = OwnOrder(r, o).status]
<1>1. CASE OwnOrder(r, o) = None
    BY <1>1, AbortStep DEF ReadOrder, Results, Refusals
<1>2. CASE OwnOrder(r, o) # None
    <2>1. /\ pc[r] = "readOrder"
          /\ pc' = [pc EXCEPT ![r] = "readHistory"]
          /\ reply' = [reply EXCEPT ![r] = p]
          /\ UNCHANGED <<menu, restaurants, orders, history, dishLock, orderLock, call, todo, seen, got,
                         hook, at, delta, draft, result, clock, sent, supply>>
        BY <1>2 DEF ReadOrder, Goto, db, locks, tx
    <2>2. call[r] \in Call /\ call[r].op \in StatusOps \cup {"GetOrderByID"}
        BY <2>1 DEF IInv, RequestInv, Placement
    <2>3. o \in Request
        BY <2>2, CallTypes DEF StatusOps, StatusCall, CancelCall, ReadCall
    <2>4. OwnOrder(r, o) \in Order
        BY <1>2, <2>3 DEF OwnOrder, IInv, TypeOK
    <2>5. OwnOrder(r, o).status \in Statuses
        BY <2>4 DEF Order
    <2>6. reply[r] \in Reply
        BY DEF IInv, TypeOK
    <2>7. p \in Reply
        BY <2>5, <2>6 DEF Reply
    <2> HIDE DEF p
    <2> QED
        BY <2>1, <2>2, <2>7, ReadingStep DEF Results
<1> QED
    BY <1>1, <1>2

LEMMA RowsType ==
    ASSUME TypeOK, NEW o \in Request
    PROVE  Rows(o) \in SUBSET Entry
<1>1. history[o] \in Seq(Entry)
    BY DEF TypeOK
<1>2. \A i \in DOMAIN history[o] : history[o][i] \in Entry
    BY <1>1
<1> QED
    BY <1>2 DEF Rows

LEMMA ReadHistoryStep ==
    ASSUME IInv, NEW r \in Request, ReadHistory(r)
    PROVE  IInv'
<1> DEFINE o == call[r].order
<1>1. /\ pc[r] = "readHistory" /\ call[r] \in Call /\ RequestInv(r)
      /\ call[r].op \in StatusOps \cup {"GetOrderByID"}
    BY DEF ReadHistory, IInv, RequestInv, Placement
<1>2. o \in Request
    BY <1>1, CallTypes DEF StatusOps, StatusCall, CancelCall, ReadCall
<1>3. reply[r] \in Reply /\ Rows(o) \in SUBSET Entry
    BY <1>2, RowsType DEF IInv, TypeOK
<1>4. CASE call[r].op # "GetOrderByID"
    <2> DEFINE p == [reply[r] EXCEPT !.trail = Rows(o) \cup {HistoryEntry(r)}]
    <2>1. /\ pc' = [pc EXCEPT ![r] = "webhookURL"]
          /\ reply' = [reply EXCEPT ![r] = p]
          /\ UNCHANGED <<menu, restaurants, orders, history, dishLock, orderLock, call, todo, seen, got,
                         hook, at, delta, draft, result, clock, sent, supply>>
        BY <1>4 DEF ReadHistory, Goto, db, locks, tx
    <2>2. /\ Written(r) /\ OrderHeld(r) /\ call[r].op \in StatusOps
        BY <1>1, <1>4 DEF RequestInv, StatusInv
    <2>3. HistoryEntry(r) \in Entry
        <3>1. got[r] \in Order
            BY <1>2, <2>2 DEF OrderHeld, IInv, TypeOK
        <3>2. draft[r].status \in Statuses /\ got[r].status \in Statuses
            BY <1>1, <2>2, <3>1, RestatedType DEF Written, Order
        <3>3. at[r] \in Nat /\ ActorOf[call[r].op] \in Actors
            BY <2>2 DEF IInv, TypeOK, ActorOf, Actors, StatusOps
        <3> QED
            BY <1>4, <3>2, <3>3 DEF HistoryEntry, Entry
    <2>4. p \in Reply
        <3> DEFINE trail == Rows(o) \cup {HistoryEntry(r)}
        <3>1. trail \in SUBSET Entry
            BY <1>3, <2>3
        <3> HIDE DEF trail
        <3>2. [reply[r] EXCEPT !.trail = trail] \in Reply
            BY <1>3, <3>1 DEF Reply
        <3> QED
            BY <3>2 DEF trail
    <2> HIDE DEF p
    <2> QED
        BY <1>1, <2>1, <2>2, <2>4, ReadingStep DEF Results
<1>5. CASE call[r].op = "GetOrderByID" /\ orders[o].user = call[r].user
    <2> DEFINE p == [reply[r] EXCEPT !.trail = Rows(o)]
    <2>1. /\ pc' = [pc EXCEPT ![r] = "done"]
          /\ reply' = [reply EXCEPT ![r] = p]
          /\ result' = [result EXCEPT ![r] = "ok"]
          /\ UNCHANGED <<menu, restaurants, orders, history, dishLock, orderLock, call, todo, seen, got,
                         hook, at, delta, draft, clock, sent, supply>>
        BY <1>5 DEF ReadHistory, Answer, Goto, db, locks, tx
    <2>2. p \in Reply
        <3> DEFINE trail == Rows(o)
        <3>1. trail \in SUBSET Entry
            BY <1>3
        <3> HIDE DEF trail
        <3>2. [reply[r] EXCEPT !.trail = trail] \in Reply
            BY <1>3, <3>1 DEF Reply
        <3> QED
            BY <3>2 DEF trail
    <2>3. "ok" \in Results
        BY DEF Results
    <2> HIDE DEF p
    <2> QED
        BY <1>1, <1>5, <2>1, <2>2, <2>3, ReadingStep
<1>6. CASE call[r].op = "GetOrderByID" /\ orders[o].user # call[r].user
    BY <1>1, <1>6, AbortStep DEF ReadHistory, Results, Refusals
<1> QED
    BY <1>4, <1>5, <1>6

LEMMA AssertItemOwnedStep ==
    ASSUME IInv, NEW r \in Request, AssertItemOwned(r)
    PROVE  IInv'
<1> DEFINE d == call[r].dish
           next == IF call[r].op = "UpdateItem" THEN "edit" ELSE "remove"
<1>1. CASE ~(menu[d].exists /\ RestaurantOf[d] = call[r].rest)
    BY <1>1, AbortStep DEF AssertItemOwned, Results, Refusals
<1>2. CASE menu[d].exists /\ RestaurantOf[d] = call[r].rest
    <2>1. /\ pc[r] = "assertOwned" /\ pc' = [pc EXCEPT ![r] = next]
          /\ UNCHANGED <<menu, restaurants, orders, history, dishLock, orderLock, call, todo, seen, got,
                         hook, at, delta, draft, result, reply, clock, sent, supply>>
        BY <1>2 DEF AssertItemOwned, Goto, db, locks, tx
    <2>2. RequestInv(r) /\ call[r] \in Call /\ call[r].op \in {"UpdateItem", "DeleteItem"}
        BY <2>1 DEF IInv, RequestInv, Placement
    <2>3. TypeOK'
        BY <2>1 DEF IInv, TypeOK, PCs
    <2>4. pc'[r] = next /\ call'[r] = call[r] /\ Clean(r)'
        BY <2>1, <2>2 DEF IInv, TypeOK, RequestInv, Transactional, Clean
    <2>5. RequestInv(r)'
        BY <2>2, <2>4 DEF RequestInv, Placement, StatusOps
    <2>6. ASSUME NEW q \in Request \ {r} PROVE Frame(q)
        BY <2>1, <2>6 DEF IInv, TypeOK, Frame
    <2>7. OrderedDishesKept'
        BY <2>1 DEF IInv, OrderedDishesKept
    <2> QED
        BY <2>3, <2>5, <2>6, <2>7, StepKeeps
<1> QED
    BY <1>1, <1>2

\* A partner's statement on a dish nobody else has locked, or that changes nothing.
LEMMA EditingStep ==
    ASSUME IInv, NEW r \in Request, NEW d \in Dish, NEW row \in Row,
           pc[r] \in {"edit", "remove"},
           dishLock[d] \in {None, r} \/ row = menu[d],
           menu[d].exists,
           row.exists \/ ~Ordered(d),
           menu' = [menu EXCEPT ![d] = row],
           supply' \in [Dish -> Int],
           pc' = [pc EXCEPT ![r] = "done"],
           \E v \in {"ok", "lost"} : result' = [result EXCEPT ![r] = v],
           UNCHANGED <<restaurants, orders, history, dishLock, orderLock, call, todo, seen, got,
                       hook, at, delta, draft, reply, clock, sent>>
    PROVE  IInv'
<1>1. RequestInv(r) /\ call[r] \in Call /\ call[r].op \in {"UpdateItem", "DeleteItem"}
    BY DEF IInv, RequestInv, Placement
<1>2. TypeOK'
    BY DEF IInv, TypeOK, PCs, Results
<1>3. pc'[r] = "done" /\ call'[r] = call[r] /\ Clean(r)'
    BY <1>1 DEF IInv, TypeOK, RequestInv, Transactional, Clean
<1>4. RequestInv(r)'
    BY <1>1, <1>3 DEF RequestInv, Placement, StatusOps
<1>5. ASSUME NEW q \in Request \ {r} PROVE Frame(q)
    BY <1>5, NoneAssumption DEF IInv, TypeOK, Frame
<1>6. OrderedDishesKept'
    BY DEF IInv, TypeOK, OrderedDishesKept, Ordered
<1> QED
    BY <1>2, <1>4, <1>5, <1>6, StepKeeps

LEMMA EditedRow ==
    ASSUME NEW row \in Row, NEW c \in EditCall
    PROVE  /\ Edited(row, c) \in Row
           /\ Edited(row, c).exists = row.exists
           /\ c.fields = {} => Edited(row, c) = row
<1> DEFINE price == IF "price" \in c.fields THEN c.price ELSE row.price
           stock == IF "stock" \in c.fields THEN c.stock ELSE row.stock
           avail == IF "avail" \in c.fields THEN c.avail ELSE row.avail
<1>1. price \in Nat /\ stock \in Portions /\ avail \in BOOLEAN
    BY DEF Row, EditCall
<1>2. Edited(row, c) = [row EXCEPT !.price = price, !.stock = stock, !.avail = avail]
    BY DEF Edited
<1>3. c.fields = {} => price = row.price /\ stock = row.stock /\ avail = row.avail
    OBVIOUS
<1> HIDE DEF price, stock, avail
<1> QED
    BY <1>1, <1>2, <1>3 DEF Row

LEMMA UpdateItemStep ==
    ASSUME IInv, NEW r \in Request, UpdateItem(r)
    PROVE  IInv'
<1> DEFINE d == call[r].dish
           row == Edited(menu[d], call[r])
           stocked == supply[d] + row.stock - menu[d].stock
<1>1. CASE ~menu[d].exists
    BY <1>1, AbortStep DEF UpdateItem, Results, Refusals
<1>2. CASE menu[d].exists
    <2>1. /\ pc[r] = "edit"
          /\ Free(dishLock[d], r) \/ call[r].fields = {}
          /\ menu' = [menu EXCEPT ![d] = row]
          /\ supply' = [supply EXCEPT ![d] = stocked]
          /\ pc' = [pc EXCEPT ![r] = "done"]
          /\ \E v \in {"ok", "lost"} : result' = [result EXCEPT ![r] = v]
          /\ UNCHANGED <<restaurants, orders, history, dishLock, orderLock, call, todo, seen, got,
                         hook, at, delta, draft, reply, clock, sent>>
        BY <1>2 DEF UpdateItem, Confirm, Answer, Goto, locks, tx
    <2>2. call[r] \in EditCall
        BY <2>1, CallTypes DEF IInv, RequestInv, Placement
    <2>3. d \in Dish /\ menu[d] \in Row
        BY <2>2 DEF EditCall, IInv, TypeOK
    <2>4. row \in Row /\ row.exists /\ (call[r].fields = {} => row = menu[d])
        BY <1>2, <2>2, <2>3, EditedRow
    <2> HIDE DEF row
    <2>5. stocked \in Int
        <3>1. supply[d] \in Int
            BY <2>3 DEF IInv, TypeOK
        <3> QED
            BY <2>3, <2>4, <3>1, RowStock
    <2> HIDE DEF stocked
    <2>6. supply' \in [Dish -> Int]
        BY <2>1, <2>5 DEF IInv, TypeOK
    <2>7. dishLock[d] \in {None, r} \/ row = menu[d]
        BY <2>1, <2>4 DEF Free
    <2> HIDE DEF d
    <2> QED
        BY <1>2, <2>1, <2>3, <2>4, <2>6, <2>7, EditingStep
<1> QED
    BY <1>1, <1>2

LEMMA DeleteItemStep ==
    ASSUME IInv, NEW r \in Request, DeleteItem(r)
    PROVE  IInv'
<1> DEFINE d == call[r].dish
           row == [menu[d] EXCEPT !.exists = FALSE]
<1>1. CASE ~(menu[d].exists /\ ~Ordered(d))
    BY <1>1, AbortStep DEF DeleteItem, Results, Refusals
<1>2. CASE menu[d].exists /\ ~Ordered(d)
    <2>1. /\ pc[r] = "remove"
          /\ Free(dishLock[d], r)
          /\ menu' = [menu EXCEPT ![d] = row]
          /\ pc' = [pc EXCEPT ![r] = "done"]
          /\ \E v \in {"ok", "lost"} : result' = [result EXCEPT ![r] = v]
          /\ UNCHANGED <<restaurants, orders, history, dishLock, orderLock, call, todo, seen, got,
                         hook, at, delta, draft, reply, clock, sent, supply>>
        BY <1>2 DEF DeleteItem, Confirm, Answer, Goto, locks, tx
    <2>2. call[r] \in RemoveCall
        BY <2>1, CallTypes DEF IInv, RequestInv, Placement
    <2>3. d \in Dish /\ menu[d] \in Row
        BY <2>2 DEF RemoveCall, IInv, TypeOK
    <2>4. row \in Row
        BY <2>3 DEF Row
    <2>5. supply' \in [Dish -> Int]
        BY <2>1 DEF IInv, TypeOK
    <2>6. dishLock[d] \in {None, r}
        BY <2>1 DEF Free
    <2> HIDE DEF d, row
    <2> QED
        BY <1>2, <2>1, <2>3, <2>4, <2>5, <2>6, EditingStep
<1> QED
    BY <1>1, <1>2

LEMMA UpdateRestaurantStep ==
    ASSUME IInv, NEW r \in Request, UpdateRestaurant(r)
    PROVE  IInv'
<1> USE DEF UpdateRestaurant, Confirm, Answer, Goto, locks, tx
<1>1. RequestInv(r) /\ call[r] \in Call /\ call[r].op = "UpdateRestaurant" /\ call[r] \in RestaurantCall
    BY CallTypes DEF IInv, RequestInv, Placement
<1>2. TypeOK'
    BY <1>1 DEF IInv, TypeOK, PCs, Results, RestaurantCall
<1>3. pc'[r] = "done" /\ call'[r] = call[r] /\ Clean(r)'
    BY <1>1 DEF IInv, TypeOK, RequestInv, Transactional, Clean
<1>4. RequestInv(r)'
    BY <1>1, <1>3 DEF RequestInv, Placement, StatusOps, Transactional
<1>5. ASSUME NEW q \in Request \ {r} PROVE Frame(q)
    BY <1>5 DEF IInv, TypeOK, Frame
<1>6. OrderedDishesKept'
    BY DEF IInv, OrderedDishesKept
<1> QED
    BY <1>2, <1>4, <1>5, <1>6, StepKeeps

-----------------------------------------------------------------------------
(***************************************************************************)
(* The invariant.                                                          *)
(***************************************************************************)

LEMMA InitInv == Init => IInv
<1> SUFFICES ASSUME Init PROVE IInv
    OBVIOUS
<1>1. TypeOK
    <2>1. supply \in [Dish -> Int]
        <3>1. \A d \in Dish : Menu0[d].stock \in Nat
            BY MenuAssumption, PortionsAreNumbers DEF Row
        <3>2. \A d \in Dish : Menu0[d].stock \in Int
            BY <3>1
        <3>3. supply = [d \in Dish |-> Menu0[d].stock]
            BY DEF Init
        <3> QED
            BY <3>2, <3>3
    <2>2. history \in [Request -> Seq(Entry)]
        <3>1. <<>> \in Seq(Entry)
            OBVIOUS
        <3> DEFINE none == <<>>
        <3>2. history = [o \in Request |-> none]
            BY DEF Init
        <3> HIDE DEF none
        <3>3. none \in Seq(Entry)
            BY <3>1 DEF none
        <3> QED
            BY <3>2, <3>3
    <2> QED
        BY <2>1, <2>2, MenuAssumption, NoDeltaType, NoReplyType DEF Init, TypeOK, PCs, Results
<1>2. OrderedDishesKept
    BY DEF Init, OrderedDishesKept
<1>3. \A r \in Request : RequestInv(r)
    BY DEF Init, RequestInv, Clean, NoDelta
<1> QED
    BY <1>1, <1>2, <1>3 DEF IInv

LEMMA NextInv == IInv /\ [Next]_vars => IInv'
<1> SUFFICES ASSUME IInv, [Next]_vars PROVE IInv'
    OBVIOUS
<1>1. CASE UNCHANGED vars
    <2>1. TypeOK' /\ OrderedDishesKept'
        BY <1>1 DEF vars, IInv, TypeOK, OrderedDishesKept
    <2>2. \A q \in Request : Frame(q)
        BY <1>1 DEF vars, Frame
    <2> QED
        BY <2>1, <2>2, FrameKeeps DEF IInv
<1>2. CASE \E r \in Request : \E c \in Calls : Arrive(r, c)
    BY <1>2, ArriveStep
<1>3. CASE \E r \in Request : Fail(r)
    BY <1>3, FailStep
<1>4. CASE \E r \in Request : Step(r)
    <2> PICK r \in Request : Step(r)
        BY <1>4
    <2>1. CASE CreateOrder(r)
        BY <2>1, GetRestaurantStep, GetWebhookURLStep, LockDishStep, RefuseDishStep, DecrementStockStep,
           ReceiveDishesStep, PersistOrderStep, CommitStep, NotifyPartnerStep DEF CreateOrder
    <2>2. CASE StatusChange(r)
        BY <2>2, LockOrderStep, DecideStep, IncrementStockStep, ApplyStatusChangeStep, ReadOrderStep,
           ReadHistoryStep, GetWebhookURLStep, CommitStep, NotifyPartnerStep DEF StatusChange
    <2>3. CASE GetOrderByID(r)
        BY <2>3, ReadOrderStep, ReadHistoryStep DEF GetOrderByID
    <2>4. CASE MenuEdit(r)
        BY <2>4, AssertItemOwnedStep, UpdateItemStep, DeleteItemStep, UpdateRestaurantStep DEF MenuEdit
    <2> QED
        BY <2>1, <2>2, <2>3, <2>4 DEF Step, UpdateOrderStatus, CancelOrderByCustomer
<1> QED
    BY <1>1, <1>2, <1>3, <1>4 DEF Next, Finished

\* The invariant of the transactions holds of every reachable state.
THEOREM Invariant == Spec => []IInv
    BY InitInv, NextInv, PTL DEF Spec

\* Every variable keeps its type; in particular no order, cancellation, edit or failure ever
\* drives the committed stock of a dish below zero.
THEOREM TypeCorrect == Spec => []TypeOK
<1>1. IInv => TypeOK
    BY DEF IInv
<1> QED
    BY <1>1, Invariant, PTL

\* A dish that was ever ordered stays on the menu, so every refund finds its row.
THEOREM OrderedDishes == Spec => []OrderedDishesKept
<1>1. IInv => OrderedDishesKept
    BY DEF IInv
<1> QED
    BY <1>1, Invariant, PTL

-----------------------------------------------------------------------------
(***************************************************************************)
(* Only a commit writes an order; what it writes was sold as listed, or is *)
(* a legal move.                                                           *)
(***************************************************************************)

\* What a step that writes no row for others to see leaves alone.
Unwritten == UNCHANGED <<menu, orders, history, sent, supply>>

LEMMA RowsWritten ==
    ASSUME [Next]_vars
    PROVE  \/ Unwritten
           \/ \E r \in Request : Commit(r) \/ NotifyPartner(r) \/ UpdateItem(r) \/ DeleteItem(r)
<1> USE DEF Unwritten
<1>1. CASE UNCHANGED vars
    BY <1>1 DEF vars
<1>2. ASSUME NEW r \in Request, NEW error, Abort(r, error) PROVE Unwritten
    BY <1>2 DEF Abort, Rollback, db
<1>3. ASSUME NEW r \in Request, NEW c \in Calls, Arrive(r, c) PROVE Unwritten
    BY <1>3 DEF Arrive, db
<1>4. ASSUME NEW r \in Request, Fail(r) PROVE Unwritten
    BY <1>2, <1>4 DEF Fail
<1>5. ASSUME NEW r \in Request, CreateOrder(r), ~Commit(r), ~NotifyPartner(r) PROVE Unwritten
    <2>1. GetRestaurant(r) => Unwritten
        BY <1>2 DEF GetRestaurant, db
    <2>2. GetWebhookURL(r) => Unwritten
        BY DEF GetWebhookURL, db
    <2>3. \A d \in Dish : LockDish(r, d) => Unwritten
        BY DEF LockDish, db
    <2>4. \A d \in Dish : RefuseDish(r, d) => Unwritten
        BY <1>2 DEF RefuseDish
    <2>5. \A d \in Dish : DecrementStock(r, d) => Unwritten
        BY <1>2 DEF DecrementStock, db
    <2>6. ReceiveDishes(r) => Unwritten
        BY <1>2 DEF ReceiveDishes, db
    <2>7. PersistOrder(r) => Unwritten
        BY <1>2 DEF PersistOrder, db
    <2> QED
        BY <1>5, <2>1, <2>2, <2>3, <2>4, <2>5, <2>6, <2>7 DEF CreateOrder
<1>6. ASSUME NEW r \in Request, ReadOrder(r) \/ ReadHistory(r) PROVE Unwritten
    <2>1. ReadOrder(r) => Unwritten
        BY <1>2 DEF ReadOrder, db
    <2>2. ReadHistory(r) => Unwritten
        BY <1>2 DEF ReadHistory, db
    <2> QED
        BY <1>6, <2>1, <2>2
<1>7. ASSUME NEW r \in Request, StatusChange(r), ~Commit(r), ~NotifyPartner(r) PROVE Unwritten
    <2>1. LockOrder(r) => Unwritten
        BY <1>2 DEF LockOrder, db
    <2>2. Decide(r) => Unwritten
        BY <1>2 DEF Decide, db
    <2>3. \A d \in Dish : IncrementStock(r, d) => Unwritten
        BY <1>2 DEF IncrementStock, db
    <2>4. ApplyStatusChange(r) => Unwritten
        BY <1>2 DEF ApplyStatusChange, db
    <2>5. GetWebhookURL(r) => Unwritten
        BY DEF GetWebhookURL, db
    <2> QED
        BY <1>6, <1>7, <2>1, <2>2, <2>3, <2>4, <2>5 DEF StatusChange
<1>8. ASSUME NEW r \in Request, MenuEdit(r), ~UpdateItem(r), ~DeleteItem(r) PROVE Unwritten
    <2>1. AssertItemOwned(r) => Unwritten
        BY <1>2 DEF AssertItemOwned, db
    <2>2. UpdateRestaurant(r) => Unwritten
        BY DEF UpdateRestaurant
    <2> QED
        BY <1>8, <2>1, <2>2 DEF MenuEdit
<1> QED
    BY <1>1, <1>3, <1>4, <1>5, <1>6, <1>7, <1>8
       DEF Next, Step, Finished, UpdateOrderStatus, CancelOrderByCustomer, GetOrderByID, vars

LEMMA OrdersWritten ==
    ASSUME [Next]_vars
    PROVE  orders' = orders \/ \E r \in Request : Commit(r)
<1>1. ASSUME NEW r \in Request, NotifyPartner(r) \/ UpdateItem(r) \/ DeleteItem(r)
      PROVE  orders' = orders
    BY <1>1 DEF NotifyPartner, UpdateItem, DeleteItem, Abort, Rollback, db
<1> QED
    BY <1>1, RowsWritten DEF Unwritten

LEMMA CommitSells ==
    ASSUME IInv, NEW r \in Request, Commit(r),
           NEW o \in Request, orders[o] = None, orders'[o] # None
    PROVE  Sale(o)
<1>1. pc[r] = "commit"
    BY CommitWrites
<1>2. o = Target(r)
    BY CommitWrites DEF IInv, TypeOK
<1>3. call[r].op = "CreateOrder"
    BY <1>1, <1>2, CommitKnows DEF OrderHeld
<1>4. o = r /\ CheckoutInv(r) /\ draft[r] = NewOrder(r) /\ call[r] \in CheckoutCall
    BY <1>1, <1>2, <1>3, CommitKnows, CallTypes DEF StatusOps
<1>5. orders'[o] = NewOrder(r)
    BY <1>2, <1>4, CommitWrites DEF IInv, TypeOK
<1>6. /\ orders'[o].qty = call[r].qty /\ orders'[o].rest = call[r].rest
      /\ \A d \in Basket(call[r].qty) : d \in Dish /\ orders'[o].price[d] = seen[r][d].price
    BY <1>5 DEF NewOrder, Basket
<1>7. ASSUME NEW d \in Basket(call[r].qty)
      PROVE  /\ menu[d].exists /\ menu[d].avail /\ RestaurantOf[d] = call[r].rest
             /\ seen[r][d].price = menu[d].price
             /\ menu[d].stock >= call[r].qty[d]
             /\ menu'[d].stock = menu[d].stock - call[r].qty[d]
    <2>1. Taken(r, d) /\ d \in Dish
        BY <1>1, <1>4 DEF CheckoutInv, Basket
    <2>2. menu[d] \in Row /\ menu[d].stock \in Nat /\ call[r].qty[d] \in Nat
        BY <1>4, <2>1, PortionsAreNumbers DEF IInv, TypeOK, Row, CheckoutCall, Quantities
    <2>3. menu'[d].stock = OwnStock(r, d)
        <3>1. menu'[d] = Stocked(menu[d], OwnStock(r, d)) /\ OwnStock(r, d) \in Portions
            BY <1>1, <2>1, CommitWrites, CommitKnows
        <3> QED
            BY <2>2, <3>1, StockedRow
    <2>4. OwnStock(r, d) = menu[d].stock - call[r].qty[d]
        BY <2>1, <2>2 DEF OwnStock, Taken
    <2> QED
        BY <2>1, <2>3, <2>4 DEF Taken, Wanted, Locked
<1> QED
    BY <1>6, <1>7 DEF Sale

LEMMA StandingStill ==
    ASSUME NEW o \in Request, orders[o] \in Order, orders[o] # None, orders'[o] = orders[o]
    PROVE  MovesLegally(o)
<1>1. orders[o] = [user |-> orders[o].user, rest |-> orders[o].rest, status |-> orders[o].status,
                   qty |-> orders[o].qty, price |-> orders[o].price]
    BY DEF Order
<1>2. Moved(orders[o], orders[o].status) = orders[o]
    BY <1>1, MovedOrder DEF Order
<1> QED
    BY <1>2 DEF MovesLegally, Moved

LEMMA CommitMoves ==
    ASSUME IInv, NEW r \in Request, Commit(r), NEW o \in Request, orders[o] # None
    PROVE  MovesLegally(o)
<1>1. pc[r] = "commit" /\ orders[o] \in Order
    BY CommitWrites DEF IInv, TypeOK
<1>2. CASE o # Target(r)
    BY <1>1, <1>2, StandingStill, CommitWrites DEF IInv, TypeOK
<1>3. CASE o = Target(r)
    <2>1. /\ call[r] \in Call /\ call[r].op \in StatusOps /\ OrderHeld(r) /\ Written(r)
          /\ o = call[r].order /\ draft[r] = Restated(r) /\ draft[r] \in Order
        BY <1>1, <1>3, CommitKnows
    <2>2. orders'[o] = Restated(r) /\ got[r] = orders[o] /\ Restated(r) \in Order
        <3>1. orders'[o] = draft[r]
            BY <1>3, CommitWrites DEF IInv, TypeOK
        <3> QED
            BY <2>1, <3>1 DEF OrderHeld
    <2>3. orders'[o] # None
        BY <2>2, NoneAssumption
    <2>4. Moved(orders'[o], orders[o].status) = orders[o]
        <3>1. orders[o].status \in Statuses
            BY <1>1 DEF Order
        <3>2. Moved(Restated(r), orders[o].status) =
                  [user |-> got[r].user, rest |-> got[r].rest, status |-> orders[o].status,
                   qty |-> got[r].qty, price |-> got[r].price]
            BY <2>2, <3>1, MovedOrder DEF Restated
        <3>3. orders[o] = [user |-> orders[o].user, rest |-> orders[o].rest, status |-> orders[o].status,
                           qty |-> orders[o].qty, price |-> orders[o].price]
            BY <1>1 DEF Order
        <3> QED
            BY <2>2, <3>2, <3>3
    <2>5. orders'[o].status = NewStatus(r)
        BY <2>2 DEF Restated
    <2>6. \E a \in Actors : Legal(a, orders[o].status, orders'[o].status)
        <3>1. OrderRefusal(r) = ""
            BY <2>1 DEF Written
        <3>2. CASE NewStatus(r) = "cancelled"
            <4>1. ActorOf[call[r].op] \in Actors
                BY <2>1 DEF StatusOps, ActorOf, Actors
            <4>2. CanBeCancelledBy(got[r].status, ActorOf[call[r].op])
                BY <3>1, <3>2, OrderRefusalNone
            <4> QED
                BY <2>2, <2>5, <3>2, <4>1, <4>2 DEF Legal
        <3>3. CASE NewStatus(r) # "cancelled"
            <4>1. CanTransitionTo(got[r].status, NewStatus(r))
                BY <3>1, <3>3, OrderRefusalNone
            <4> QED
                BY <2>2, <2>5, <4>1 DEF Legal, Actors
        <3> QED
            BY <3>2, <3>3
    <2> QED
        BY <2>3, <2>4, <2>6 DEF MovesLegally, Moved
<1> QED
    BY <1>2, <1>3

\* Every order is sold off the menu as it is at the commit: prices, availability and stock, for
\* any number of concurrent checkouts, cancellations and edits.
THEOREM Sold == Spec => SoldAsListed
<1>1. IInv /\ [Next]_vars =>
          [\A o \in Request : orders[o] = None /\ orders'[o] # None => Sale(o)]_vars
    BY OrdersWritten, CommitSells
<1> QED
    BY <1>1, Invariant, PTL DEF Spec, SoldAsListed

\* No order is ever lost, re-priced, or moved outside the lifecycle.
THEOREM Lifecycle == Spec => LifecycleRespected
<1>1. IInv /\ [Next]_vars => [\A o \in Request : orders[o] # None => MovesLegally(o)]_vars
    <2> SUFFICES ASSUME IInv, [Next]_vars, NEW o \in Request, orders[o] # None
                 PROVE  MovesLegally(o)
        OBVIOUS
    <2>1. orders[o] \in Order
        BY DEF IInv, TypeOK
    <2> QED
        BY <2>1, OrdersWritten, StandingStill, CommitMoves
<1> QED
    BY <1>1, Invariant, PTL DEF Spec, LifecycleRespected
=============================================================================
