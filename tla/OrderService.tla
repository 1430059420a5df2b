---------------------------- MODULE OrderService ----------------------------
(***************************************************************************)
(* OrderService (internal/service/order_service.go) over the PostgreSQL    *)
(* repositories (internal/repository/postgres), as concurrent transactions *)
(* at the granularity of SQL statements.                                   *)
(*                                                                         *)
(* A request is one service call handled by one goroutine: it arrives with *)
(* a call, runs its statements one at a time, and is answered.  Requests   *)
(* meet only in the database.  PostgreSQL itself is not under src/; what   *)
(* the code relies on is modelled here: READ COMMITTED, so a statement     *)
(* sees the rows committed when it runs and its own transaction's writes;  *)
(* an exclusive lock on every row written or read FOR UPDATE, held until   *)
(* the transaction ends, on which other writers and lockers wait;          *)
(* and commit or rollback of everything at once.                           *)
(*                                                                         *)
(* An order is identified by the checkout request that creates it (newID   *)
(* never repeats), a dish by a number (ORDER BY id is the numeric order).  *)
(***************************************************************************)
EXTENDS Integers, Sequences, FiniteSets, OrderLifecycle

CONSTANTS
    Request,        \* service calls, one per goroutine
    Dish,           \* menu_items.id
    Restaurant,     \* the ids a client may take for a restaurant's
    Registered,     \* restaurants.id: those that have a row, which is never deleted
    Customer,       \* user ids
    RestaurantOf,   \* menu_items.restaurant_id, which nothing updates
    Menu0,          \* the menu when the first request arrives
    MaxStock,       \* the largest value of stock_quantity, an INT column
    Calls,          \* the calls requests may make
    None            \* no order, no lock holder, no call

-----------------------------------------------------------------------------
(***************************************************************************)
(* Rows and calls.                                                         *)
(***************************************************************************)

Portions == 0 .. MaxStock

Row == [exists: BOOLEAN, price: Nat, stock: Portions, avail: BOOLEAN]

\* How many of each dish, with 0 for a dish that is not in the basket.
Quantities == [Dish -> Nat]

Basket(qty) == {d \in Dish : qty[d] > 0}

Order == [user: Customer, rest: Restaurant, status: Statuses,
          qty: Quantities, price: [Dish -> Nat]]

\* by is the request that wrote the entry; at is created_at, DEFAULT NOW().
Entry == [from: Statuses \cup {""}, to: Statuses, actor: Actors, at: Nat, by: Request]

\* Free text of the client, of which validation bounds only the length: a NUL passes it, and no
\* text column holds one.
Texts == {"plain", "nul"}

\* Validate has passed: the basket is not empty and no dish occurs twice.
CheckoutCall ==
    [op: {"CreateOrder"}, user: Customer, rest: Restaurant,
     qty: {q \in Quantities : Basket(q) # {}}, text: Texts]

StatusCall ==
    [op: {"UpdateOrderStatus"}, rest: Restaurant, order: Request, to: Statuses, text: Texts]

CancelCall == [op: {"CancelOrderByCustomer"}, user: Customer, order: Request, text: Texts]

ReadCall == [op: {"GetOrderByID"}, user: Customer, order: Request]

\* fields are the non-nil pointers of UpdateMenuItemInput.
EditCall ==
    [op: {"UpdateItem"}, rest: Restaurant, dish: Dish,
     fields: SUBSET {"price", "stock", "avail"},
     price: Nat, stock: Portions, avail: BOOLEAN]

RemoveCall == [op: {"DeleteItem"}, rest: Restaurant, dish: Dish]

RestaurantCall == [op: {"UpdateRestaurant"}, rest: Registered, active: BOOLEAN, hook: BOOLEAN]

Call == CheckoutCall \cup StatusCall \cup CancelCall \cup ReadCall
        \cup EditCall \cup RemoveCall \cup RestaurantCall

ASSUME NoneAssumption ==
    /\ None \notin Request
    /\ None \notin Order
    /\ None \notin Call

ASSUME DishAssumption == Dish \subseteq Nat

ASSUME MaxStockAssumption == MaxStock \in Nat

ASSUME MenuAssumption ==
    /\ Registered \subseteq Restaurant
    /\ RestaurantOf \in [Dish -> Restaurant]
    /\ Menu0 \in [Dish -> Row]

ASSUME CallsAssumption == Calls \subseteq Call

-----------------------------------------------------------------------------
VARIABLES
    \* committed rows
    menu,           \* menu_items
    restaurants,    \* restaurants
    orders,         \* orders with their order_items
    history,        \* order_status_history, in commit order
    \* row locks
    dishLock, orderLock,
    \* the goroutines
    pc,             \* the next statement
    call,           \* the arguments
    todo,           \* the dishes the current loop or statement still has to visit
    seen,           \* the menu rows as they were locked
    got,            \* the order as it was locked
    hook,           \* a webhook URL was read
    at,             \* when the transaction began: NOW() to every statement of it
    delta,          \* its uncommitted changes of the stock
    draft,          \* its uncommitted order row
    result,         \* the error returned, or "ok"
    reply,          \* the order returned: its status and its history
    \* the environment
    clock,          \* transactions begun, standing for the time of NOW()
    sent,           \* webhooks given to the dispatcher
    supply          \* ghost: what the partner stocked, sold or not

db == <<menu, restaurants, orders, history>>
locks == <<dishLock, orderLock>>
tx == <<todo, seen, got, hook, at, delta, draft>>
vars == <<menu, restaurants, orders, history, dishLock, orderLock, pc, call,
          todo, seen, got, hook, at, delta, draft, result, reply, clock, sent, supply>>

PCs == {"idle", "restaurant", "webhookURL", "lockDishes", "decrement", "lockOrder", "decide",
        "restock", "readOrder", "readHistory", "commit", "assertOwned", "edit", "remove",
        "update", "notify", "done"}

\* The errors of internal/domain/errors.go these calls return.  "internal" is an error that is none
\* of them, answered with a 500; "lost" is the 5xx, or the silence, of a call that was cut short.
Refusals == {"ErrNotFound", "ErrMenuItemNotFound", "ErrRestaurantNotFound", "ErrRestaurantInactive",
             "ErrRestaurantMismatch", "ErrItemUnavailable", "ErrOutOfStock", "ErrConflict",
             "ErrOrderAlreadyProcessed", "ErrInvalidStatusTransition", "ErrInvalidInput"}

Results == Refusals \cup {"", "ok", "internal", "lost"}

NoDelta == [d \in Dish |-> 0]

NoReply == [status |-> "", trail |-> {}]

Init ==
    /\ menu = Menu0
    /\ restaurants = [x \in Restaurant |-> [active |-> TRUE, hook |-> TRUE]]
    /\ orders = [o \in Request |-> None]
    /\ history = [o \in Request |-> <<>>]
    /\ dishLock = [d \in Dish |-> None]
    /\ orderLock = [o \in Request |-> None]
    /\ pc = [r \in Request |-> "idle"]
    /\ call = [r \in Request |-> None]
    /\ todo = [r \in Request |-> {}]
    /\ seen = [r \in Request |-> Menu0]
    /\ got = [r \in Request |-> None]
    /\ hook = [r \in Request |-> FALSE]
    /\ at = [r \in Request |-> 0]
    /\ delta = [r \in Request |-> NoDelta]
    /\ draft = [r \in Request |-> None]
    /\ result = [r \in Request |-> ""]
    /\ reply = [r \in Request |-> NoReply]
    /\ clock = 0
    /\ sent = {}
    /\ supply = [d \in Dish |-> Menu0[d].stock]

-----------------------------------------------------------------------------
(***************************************************************************)
(* Transactions.                                                           *)
(***************************************************************************)

\* The order a transaction writes.
Target(r) == IF call[r].op = "CreateOrder" THEN r ELSE call[r].order

\* Slip: the repository reads through the pool instead of the transaction in the context.
OwnOrderThroughPool(r, o) == orders[o]

\* The rows as transaction r sees them: its own writes over the committed ones.
OwnOrder(r, o) == IF draft[r] # None THEN draft[r] ELSE orders[o]

OwnStock(r, d) == menu[d].stock + delta[r][d]

\* Slip: the rows are read and written without FOR UPDATE or a row lock.
FreeUnlocked(lock, r) == TRUE

Free(lock, r) == lock \in {None, r}

\* Slip: no ORDER BY, so rows are visited in any order.
IsFirstUnordered(d, S) == d \in S

IsFirst(d, S) == d \in S /\ \A e \in S : d <= e

Stocked(row, n) == [row EXCEPT !.stock = n]

Moved(order, s) == [order EXCEPT !.status = s]

Goto(r, next) == pc' = [pc EXCEPT ![r] = next]

\* Slip: the transaction is neither committed nor rolled back on some path.
ReleaseForgotten(r) == UNCHANGED locks

Release(r) ==
    /\ dishLock' = [d \in Dish |-> IF dishLock[d] = r THEN None ELSE dishLock[d]]
    /\ orderLock' = [o \in Request |-> IF orderLock[o] = r THEN None ELSE orderLock[o]]

\* Nothing is left of the transaction but the webhook URL.
EndTx(r) ==
    /\ todo' = [todo EXCEPT ![r] = {}]
    /\ seen' = [seen EXCEPT ![r] = Menu0]
    /\ got' = [got EXCEPT ![r] = None]
    /\ at' = [at EXCEPT ![r] = 0]
    /\ delta' = [delta EXCEPT ![r] = NoDelta]
    /\ draft' = [draft EXCEPT ![r] = None]

\* The deferred Rollback undoes every write and frees every lock.
Rollback(r) ==
    /\ Goto(r, "done")
    /\ reply' = [reply EXCEPT ![r] = NoReply]
    /\ EndTx(r)
    /\ hook' = [hook EXCEPT ![r] = FALSE]
    /\ Release(r)
    /\ UNCHANGED <<db, call, clock, sent, supply>>

\* Slip: the error of fn is shadowed, and the caller is told nil.
AbortSwallowed(r, error) == Rollback(r) /\ result' = [result EXCEPT ![r] = "ok"]

\* fn returned an error, or nothing more will come of the call.
Abort(r, error) == Rollback(r) /\ result' = [result EXCEPT ![r] = error]

\* A call outside a transaction is over after its last statement.
Answer(r, value) ==
    /\ Goto(r, "done")
    /\ result' = [result EXCEPT ![r] = value]

\* A statement that is a transaction by itself took effect; its confirmation may be lost.
Confirm(r) == Answer(r, "ok") \/ Answer(r, "lost")

ActorOf == [CreateOrder |-> "system", UpdateOrderStatus |-> "restaurant",
            CancelOrderByCustomer |-> "customer"]

\* Slip: order.Status is overwritten before the entry is built from it.
HistoryEntryLate(r) ==
    [from |-> IF call[r].op = "CreateOrder" THEN "" ELSE draft[r].status,
     to |-> draft[r].status, actor |-> ActorOf[call[r].op], at |-> at[r], by |-> r]

\* Slip: the two statuses, both strings, are passed in the wrong order.
HistoryEntrySwapped(r) ==
    [from |-> draft[r].status, to |-> IF call[r].op = "CreateOrder" THEN "" ELSE got[r].status,
     actor |-> ActorOf[call[r].op], at |-> at[r], by |-> r]

\* The entry AddStatusHistory inserts for the change this transaction makes.
HistoryEntry(r) ==
    [from |-> IF call[r].op = "CreateOrder" THEN "" ELSE got[r].status,
     to |-> draft[r].status, actor |-> ActorOf[call[r].op], at |-> at[r], by |-> r]

Transactional == {"CreateOrder", "UpdateOrderStatus", "CancelOrderByCustomer"}

FirstStep ==
    [CreateOrder |-> "restaurant", UpdateOrderStatus |-> "lockOrder",
     CancelOrderByCustomer |-> "lockOrder", GetOrderByID |-> "readOrder",
     UpdateItem |-> "assertOwned", DeleteItem |-> "assertOwned", UpdateRestaurant |-> "update"]

\* The id of an order is made inside CreateOrder and shown to nobody before the commit.  Any other
\* id a client may send is of no order ever, like that of a request which is no checkout: its own.
NamesKnownOrder(r, c) ==
    c.op \in {"UpdateOrderStatus", "CancelOrderByCustomer", "GetOrderByID"} =>
        orders[c.order] # None \/ c.order = r

\* A handler calls the service; the three order operations begin a transaction at once.
Arrive(r, c) ==
    /\ pc[r] = "idle"
    /\ NamesKnownOrder(r, c)
    /\ call' = [call EXCEPT ![r] = c]
    /\ Goto(r, FirstStep[c.op])
    /\ IF c.op \in Transactional
       THEN /\ clock' = clock + 1
            /\ at' = [at EXCEPT ![r] = clock + 1]
       ELSE UNCHANGED <<clock, at>>
    /\ UNCHANGED <<db, locks, todo, seen, got, hook, delta, draft, result, reply, sent, supply>>

\* COMMIT publishes the writes and frees the locks.  The answer of the server, or the goroutine
\* waiting for it, may be lost after the commit took effect.
Commit(r) ==
    /\ pc[r] = "commit"
    /\ menu' = [d \in Dish |-> Stocked(menu[d], OwnStock(r, d))]
    /\ orders' = [orders EXCEPT ![Target(r)] = draft[r]]
    /\ history' = [history EXCEPT ![Target(r)] = Append(@, HistoryEntry(r))]
    /\ Release(r)
    /\ \/ /\ Goto(r, "notify")
          /\ UNCHANGED <<hook, result, reply>>
       \/ /\ Answer(r, "lost")
          /\ hook' = [hook EXCEPT ![r] = FALSE]
          /\ reply' = [reply EXCEPT ![r] = NoReply]
    /\ EndTx(r)
    /\ UNCHANGED <<restaurants, call, clock, sent, supply>>

\* The request's deadline, a lost connection or a crash of the process, before the answer.
Fail(r) ==
    /\ pc[r] \notin {"idle", "done"}
    /\ Abort(r, "lost")

\* notifyPartner: Dispatch takes the order, or there is no URL, or the dispatcher is saturated.
NotifyPartner(r) ==
    /\ pc[r] = "notify"
    /\ Answer(r, "ok")
    /\ \/ /\ hook[r]
          /\ sent' = sent \cup {[order |-> Target(r), status |-> reply[r].status, by |-> r]}
       \/ UNCHANGED sent
    /\ hook' = [hook EXCEPT ![r] = FALSE]
    /\ UNCHANGED <<db, locks, call, todo, seen, got, at, delta, draft, reply, clock, supply>>

-----------------------------------------------------------------------------
(***************************************************************************)
(* CreateOrder.                                                            *)
(***************************************************************************)

GetRestaurant(r) ==
    /\ pc[r] = "restaurant"
    /\ \/ /\ call[r].rest \in Registered /\ restaurants[call[r].rest].active
          /\ Goto(r, "webhookURL")
          /\ UNCHANGED <<db, locks, call, tx, result, reply, clock, sent, supply>>
       \/ /\ call[r].rest \in Registered /\ ~restaurants[call[r].rest].active
          /\ Abort(r, "ErrRestaurantInactive")
       \/ /\ call[r].rest \notin Registered
          /\ Abort(r, "ErrRestaurantNotFound")

\* The checkout asks for the URL before it locks anything, a status change at the end.
GetWebhookURL(r) ==
    /\ pc[r] = "webhookURL"
    /\ \/ /\ call[r].op = "CreateOrder"
          /\ Goto(r, "lockDishes")
          /\ hook' = [hook EXCEPT ![r] = restaurants[call[r].rest].hook]
          /\ todo' = [todo EXCEPT ![r] = Basket(call[r].qty)]
       \/ /\ call[r].op # "CreateOrder"
          /\ Goto(r, "commit")
          /\ hook' = [hook EXCEPT ![r] = restaurants[got[r].rest].hook]
          /\ UNCHANGED todo
    /\ UNCHANGED <<db, locks, call, seen, got, at, delta, draft, result, reply, clock, sent, supply>>

\* GetItemsByIDsForUpdate locks the rows in the order of their ids and returns the latest version
\* of each; a row deleted meanwhile is not returned.
LockDish(r, d) ==
    /\ pc[r] = "lockDishes"
    /\ IsFirst(d, todo[r])
    /\ Free(dishLock[d], r)
    /\ dishLock' = IF menu[d].exists THEN [dishLock EXCEPT ![d] = r] ELSE dishLock
    /\ seen' = [seen EXCEPT ![r][d] = menu[d]]
    /\ todo' = [todo EXCEPT ![r] = @ \ {d}]
    /\ UNCHANGED <<db, orderLock, pc, call, got, hook, at, delta, draft, result, reply,
                   clock, sent, supply>>

\* len(lockedItems) against len(in.Items).
ReceiveDishes(r) ==
    /\ pc[r] = "lockDishes"
    /\ todo[r] = {}
    /\ \/ /\ \A d \in Basket(call[r].qty) : seen[r][d].exists
          /\ Goto(r, "decrement")
          /\ todo' = [todo EXCEPT ![r] = Basket(call[r].qty)]
          /\ UNCHANGED <<db, locks, call, seen, got, hook, at, delta, draft, result, reply,
                         clock, sent, supply>>
       \/ /\ \E d \in Basket(call[r].qty) : ~seen[r][d].exists
          /\ Abort(r, "ErrMenuItemNotFound")

\* Slip: the dish is not compared with the restaurant of the order.
DishRefusalAnyRestaurant(r, d) ==
    IF ~seen[r][d].avail THEN "ErrItemUnavailable"
    ELSE IF seen[r][d].stock < call[r].qty[d] THEN "ErrOutOfStock"
    ELSE ""

\* The checks of the loop body, made on the row as it was locked.
DishRefusal(r, d) ==
    IF RestaurantOf[d] # call[r].rest THEN "ErrRestaurantMismatch"
    ELSE IF ~seen[r][d].avail THEN "ErrItemUnavailable"
    ELSE IF seen[r][d].stock < call[r].qty[d] THEN "ErrOutOfStock"
    ELSE ""

RefuseDish(r, d) ==
    /\ pc[r] = "decrement"
    /\ IsFirst(d, todo[r])
    /\ DishRefusal(r, d) # ""
    /\ Abort(r, DishRefusal(r, d))

\* UPDATE ... WHERE stock_quantity >= $2 AND is_available = true.
DecrementStock(r, d) ==
    /\ pc[r] = "decrement"
    /\ IsFirst(d, todo[r])
    /\ DishRefusal(r, d) = ""
    /\ Free(dishLock[d], r)
    /\ IF menu[d].exists /\ menu[d].avail /\ OwnStock(r, d) >= call[r].qty[d]
       THEN /\ dishLock' = [dishLock EXCEPT ![d] = r]
            /\ delta' = [delta EXCEPT ![r][d] = @ - call[r].qty[d]]
            /\ todo' = [todo EXCEPT ![r] = @ \ {d}]
            /\ UNCHANGED <<db, orderLock, pc, call, seen, got, hook, at, draft, result, reply,
                           clock, sent, supply>>
       ELSE Abort(r, "ErrOutOfStock")

\* The receipt has the prices of the rows as they were locked.
NewOrder(r) ==
    [user |-> call[r].user, rest |-> call[r].rest, status |-> "created", qty |-> call[r].qty,
     price |-> [d \in Dish |-> IF d \in Basket(call[r].qty) THEN seen[r][d].price ELSE 0]]

\* orderRepo.CreateOrder: the order, its items and its first history entry.
PersistOrder(r) ==
    LET first == [from |-> "", to |-> "created", actor |-> "system", at |-> at[r], by |-> r]
    IN  /\ pc[r] = "decrement"
        /\ todo[r] = {}
        /\ \/ /\ call[r].text = "plain"
              /\ Goto(r, "commit")
              /\ draft' = [draft EXCEPT ![r] = NewOrder(r)]
              /\ reply' = [reply EXCEPT ![r] = [status |-> "created", trail |-> {first}]]
              /\ UNCHANGED <<db, locks, call, todo, seen, got, hook, at, delta, result, clock,
                             sent, supply>>
           \/ /\ call[r].text = "nul"
              /\ Abort(r, "ErrInvalidInput")

-----------------------------------------------------------------------------
(***************************************************************************)
(* UpdateOrderStatus and CancelOrderByCustomer.                            *)
(***************************************************************************)

NewStatus(r) == IF call[r].op = "UpdateOrderStatus" THEN call[r].to ELSE "cancelled"

\* An order of someone else is reported as missing.
Owns(r) ==
    IF call[r].op = "UpdateOrderStatus" THEN got[r].rest = call[r].rest
                                        ELSE got[r].user = call[r].user

\* GetOrderForUpdate waits for the row and returns its latest version with the order's items.
LockOrder(r) ==
    LET o == call[r].order
    IN  /\ pc[r] = "lockOrder"
        /\ \/ /\ orders[o] = None
              /\ Abort(r, "ErrNotFound")
           \/ /\ orders[o] # None
              /\ Free(orderLock[o], r)
              /\ orderLock' = [orderLock EXCEPT ![o] = r]
              /\ got' = [got EXCEPT ![r] = orders[o]]
              /\ Goto(r, "decide")
              /\ UNCHANGED <<db, dishLock, call, todo, seen, hook, at, delta, draft, result,
                             reply, clock, sent, supply>>

\* Slip: the status is not looked at once the owner is known.
OrderRefusalUnchecked(r) == IF ~Owns(r) THEN "ErrNotFound" ELSE ""

OrderRefusal(r) ==
    IF ~Owns(r) THEN "ErrNotFound"
    ELSE IF NewStatus(r) = "cancelled"
         THEN IF CanBeCancelledBy(got[r].status, ActorOf[call[r].op])
              THEN "" ELSE "ErrOrderAlreadyProcessed"
         ELSE IF CanTransitionTo(got[r].status, NewStatus(r))
              THEN "" ELSE "ErrInvalidStatusTransition"

Decide(r) ==
    /\ pc[r] = "decide"
    /\ \/ /\ OrderRefusal(r) # ""
          /\ Abort(r, OrderRefusal(r))
       \/ /\ OrderRefusal(r) = ""
          /\ Goto(r, "restock")
          /\ todo' = [todo EXCEPT ![r] =
                          IF NewStatus(r) = "cancelled" THEN Basket(got[r].qty) ELSE {}]
          /\ UNCHANGED <<db, locks, call, seen, got, hook, at, delta, draft, result, reply,
                         clock, sent, supply>>

\* Slip: the column is wider than the number of portions it may count.
FitsAny(n) == TRUE

\* stock_quantity is an INT: a sum beyond it is numeric_value_out_of_range.
Fits(n) == n <= MaxStock

\* getOrderItems returns the items in the order of their dish ids, so dish rows are locked in
\* the same order as by a checkout.
IncrementStock(r, d) ==
    /\ pc[r] = "restock"
    /\ IsFirst(d, todo[r])
    /\ Free(dishLock[d], r)
    /\ \/ /\ menu[d].exists /\ Fits(OwnStock(r, d) + got[r].qty[d])
          /\ dishLock' = [dishLock EXCEPT ![d] = r]
          /\ delta' = [delta EXCEPT ![r][d] = @ + got[r].qty[d]]
          /\ todo' = [todo EXCEPT ![r] = @ \ {d}]
          /\ UNCHANGED <<db, orderLock, pc, call, seen, got, hook, at, draft, result, reply,
                         clock, sent, supply>>
       \/ /\ menu[d].exists /\ ~Fits(OwnStock(r, d) + got[r].qty[d])
          /\ Abort(r, "ErrInvalidInput")
       \/ /\ ~menu[d].exists
          /\ Abort(r, "ErrMenuItemNotFound")

\* applyStatusChange: the row's status and one history entry, neither committed yet.  Only the
\* entry holds the client's text, and AddStatusHistory returns PostgreSQL's error as it is.
ApplyStatusChange(r) ==
    LET o == call[r].order
    IN  /\ pc[r] = "restock"
        /\ todo[r] = {}
        /\ Free(orderLock[o], r)
        /\ \/ /\ call[r].text = "plain"
              /\ orderLock' = [orderLock EXCEPT ![o] = r]
              /\ draft' = [draft EXCEPT ![r] = Moved(orders[o], NewStatus(r))]
              /\ Goto(r, "readOrder")
              /\ UNCHANGED <<db, dishLock, call, todo, seen, got, hook, at, delta, result, reply,
                             clock, sent, supply>>
           \/ /\ call[r].text = "nul"
              /\ Abort(r, "internal")

-----------------------------------------------------------------------------
(***************************************************************************)
(* GetOrderByID of the repository: read again inside a status change, and  *)
(* on behalf of the customer outside any transaction.  The order and its   *)
(* history are read by two statements.                                     *)
(***************************************************************************)

ReadOrder(r) ==
    LET o == call[r].order
    IN  /\ pc[r] = "readOrder"
        /\ \/ /\ OwnOrder(r, o) = None
              /\ Abort(r, "ErrNotFound")
           \/ /\ OwnOrder(r, o) # None
              /\ reply' = [reply EXCEPT ![r].status = OwnOrder(r, o).status]
              /\ Goto(r, "readHistory")
              /\ UNCHANGED <<db, locks, call, tx, result, clock, sent, supply>>

\* getOrderHistory returns the rows of the order; ORDER BY created_at lists e before f if ListedBefore.
Rows(o) == {history[o][i] : i \in DOMAIN history[o]}

ListedBefore(e, f) == e.at < f.at

ReadHistory(r) ==
    LET o == call[r].order
    IN  /\ pc[r] = "readHistory"
        /\ \/ /\ call[r].op # "GetOrderByID"
              /\ reply' = [reply EXCEPT ![r].trail = Rows(o) \cup {HistoryEntry(r)}]
              /\ Goto(r, "webhookURL")
              /\ UNCHANGED <<db, locks, call, tx, result, clock, sent, supply>>
           \/ /\ call[r].op = "GetOrderByID"
              /\ orders[o].user = call[r].user
              /\ reply' = [reply EXCEPT ![r].trail = Rows(o)]
              /\ Answer(r, "ok")
              /\ UNCHANGED <<db, locks, call, tx, clock, sent, supply>>
           \/ /\ call[r].op = "GetOrderByID"
              /\ orders[o].user # call[r].user
              /\ Abort(r, "ErrNotFound")

-----------------------------------------------------------------------------
(***************************************************************************)
(* The partner's edits, one autocommitted statement each.                  *)
(***************************************************************************)

\* assertItemOwned, before UpdateItem and DeleteItem and outside any transaction.
AssertItemOwned(r) ==
    LET d == call[r].dish
    IN  /\ pc[r] = "assertOwned"
        /\ \/ /\ menu[d].exists /\ RestaurantOf[d] = call[r].rest
              /\ Goto(r, IF call[r].op = "UpdateItem" THEN "edit" ELSE "remove")
              /\ UNCHANGED <<db, locks, call, tx, result, reply, clock, sent, supply>>
           \/ /\ ~(menu[d].exists /\ RestaurantOf[d] = call[r].rest)
              /\ Abort(r, "ErrMenuItemNotFound")

\* UPDATE menu_items SET the given columns to the given values.
Edited(row, c) ==
    [row EXCEPT !.price = IF "price" \in c.fields THEN c.price ELSE @,
                !.stock = IF "stock" \in c.fields THEN c.stock ELSE @,
                !.avail = IF "avail" \in c.fields THEN c.avail ELSE @]

UpdateItem(r) ==
    LET d == call[r].dish
    IN  /\ pc[r] = "edit"
        /\ Free(dishLock[d], r) \/ call[r].fields = {}
        /\ \/ /\ menu[d].exists
              /\ menu' = [menu EXCEPT ![d] = Edited(@, call[r])]
              /\ supply' = [supply EXCEPT ![d] = @ + Edited(menu[d], call[r]).stock - menu[d].stock]
              /\ Confirm(r)
              /\ UNCHANGED <<restaurants, orders, history, locks, call, tx, reply, clock, sent>>
           \/ /\ ~menu[d].exists
              /\ Abort(r, "ErrMenuItemNotFound")

\* Slip: a cancelled order no longer protects its dishes.
OrderedLive(d) ==
    \E o \in Request : orders[o] # None /\ Live(orders[o].status) /\ d \in Basket(orders[o].qty)

\* order_items.menu_item_id REFERENCES menu_items ON DELETE RESTRICT.
Ordered(d) == \E o \in Request : orders[o] # None /\ d \in Basket(orders[o].qty)

DeleteItem(r) ==
    LET d == call[r].dish
    IN  /\ pc[r] = "remove"
        /\ Free(dishLock[d], r)
        /\ \/ /\ menu[d].exists /\ ~Ordered(d)
              /\ menu' = [menu EXCEPT ![d].exists = FALSE]
              /\ Confirm(r)
              /\ UNCHANGED <<restaurants, orders, history, locks, call, tx, reply, clock, sent, supply>>
           \/ /\ ~menu[d].exists
              /\ Abort(r, "ErrMenuItemNotFound")
           \/ /\ menu[d].exists /\ Ordered(d)
              /\ Abort(r, "ErrConflict")

\* A field the partner leaves out is a call that writes the value it has.
UpdateRestaurant(r) ==
    /\ pc[r] = "update"
    /\ restaurants' = [restaurants EXCEPT ![call[r].rest] =
                           [active |-> call[r].active, hook |-> call[r].hook]]
    /\ Confirm(r)
    /\ UNCHANGED <<menu, orders, history, locks, call, tx, reply, clock, sent, supply>>

-----------------------------------------------------------------------------
(***************************************************************************)
(* The service calls.                                                      *)
(***************************************************************************)

CreateOrder(r) ==
    /\ pc[r] # "idle" /\ call[r].op = "CreateOrder"
    /\ \/ GetRestaurant(r)
       \/ GetWebhookURL(r)
       \/ \E d \in Dish : LockDish(r, d) \/ RefuseDish(r, d) \/ DecrementStock(r, d)
       \/ ReceiveDishes(r)
       \/ PersistOrder(r)
       \/ Commit(r)
       \/ NotifyPartner(r)

StatusChange(r) ==
    \/ LockOrder(r)
    \/ Decide(r)
    \/ \E d \in Dish : IncrementStock(r, d)
    \/ ApplyStatusChange(r)
    \/ ReadOrder(r)
    \/ ReadHistory(r)
    \/ GetWebhookURL(r)
    \/ Commit(r)
    \/ NotifyPartner(r)

UpdateOrderStatus(r) ==
    pc[r] # "idle" /\ call[r].op = "UpdateOrderStatus" /\ StatusChange(r)

CancelOrderByCustomer(r) ==
    pc[r] # "idle" /\ call[r].op = "CancelOrderByCustomer" /\ StatusChange(r)

\* Slip: the history is loaded before the order it belongs to.
GetOrderByIDHistoryFirst(r) ==
    LET o == call[r].order
    IN  /\ pc[r] # "idle" /\ call[r].op = "GetOrderByID"
        /\ \/ /\ pc[r] = "readOrder"
              /\ reply' = [reply EXCEPT ![r].trail = Rows(o)]
              /\ Goto(r, "readHistory")
              /\ UNCHANGED result
           \/ /\ pc[r] = "readHistory" /\ orders[o] # None
              /\ reply' = [reply EXCEPT ![r].status = orders[o].status]
              /\ Answer(r, "ok")
        /\ UNCHANGED <<db, locks, call, tx, clock, sent, supply>>

GetOrderByID(r) ==
    pc[r] # "idle" /\ call[r].op = "GetOrderByID" /\ (ReadOrder(r) \/ ReadHistory(r))

MenuEdit(r) == AssertItemOwned(r) \/ UpdateItem(r) \/ DeleteItem(r) \/ UpdateRestaurant(r)

\* What the goroutine of r does next.
Step(r) ==
    \/ CreateOrder(r)
    \/ UpdateOrderStatus(r)
    \/ CancelOrderByCustomer(r)
    \/ GetOrderByID(r)
    \/ MenuEdit(r)

\* Every call has been answered.
Finished == (\A r \in Request : pc[r] = "done") /\ UNCHANGED vars

Next ==
    \/ \E r \in Request : \/ \E c \in Calls : Arrive(r, c)
                          \/ Step(r)
                          \/ Fail(r)
    \/ Finished

Spec == Init /\ [][Next]_vars

\* The HTTP server runs every handler, and PostgreSQL grants a row lock to the waiting
\* transactions in the order they queued.
Fairness == \A r \in Request : WF_vars(Step(r))

FairSpec == Spec /\ Fairness

=============================================================================
