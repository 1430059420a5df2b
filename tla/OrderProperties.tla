--------------------------- MODULE OrderProperties --------------------------
(***************************************************************************)
(* What OrderService promises: the properties TLC checks and the theorems  *)
(* of OrderServiceProofs, OrderPromisesProofs and OrderRowsProofs state.   *)
(***************************************************************************)
EXTENDS OrderService

Webhook == [order: Request, status: Statuses \cup {""}, by: Request]

Reply == [status: Statuses \cup {""}, trail: SUBSET Entry]

\* Every variable has its type; that committed stock is between zero and the largest INT is what
\* the CHECK (stock_quantity >= 0) and the column ask of every order and every cancellation.
TypeOK ==
    /\ menu \in [Dish -> Row]
    /\ restaurants \in [Restaurant -> [active: BOOLEAN, hook: BOOLEAN]]
    /\ orders \in [Request -> Order \cup {None}]
    /\ history \in [Request -> Seq(Entry)]
    /\ dishLock \in [Dish -> Request \cup {None}]
    /\ orderLock \in [Request -> Request \cup {None}]
    /\ pc \in [Request -> PCs]
    /\ call \in [Request -> Call \cup {None}]
    /\ todo \in [Request -> SUBSET Dish]
    /\ seen \in [Request -> [Dish -> Row]]
    /\ got \in [Request -> Order \cup {None}]
    /\ hook \in [Request -> BOOLEAN]
    /\ at \in [Request -> Nat]
    /\ delta \in [Request -> [Dish -> Int]]
    /\ draft \in [Request -> Order \cup {None}]
    /\ result \in [Request -> Results]
    /\ reply \in [Request -> Reply]
    /\ clock \in Nat
    /\ sent \subseteq Webhook
    /\ supply \in [Dish -> Int]

-----------------------------------------------------------------------------
(***************************************************************************)
(* Stock.                                                                  *)
(***************************************************************************)

\* The portions of d that order o keeps from others.
HeldBy(o, d) ==
    IF orders[o] # None /\ Live(orders[o].status) THEN {o} \X (1 .. orders[o].qty[d]) ELSE {}

Held(d) == Cardinality(UNION {HeldBy(o, d) : o \in Request})

\* Whatever checkouts, cancellations, partner edits and failures interleave, what is on the
\* shelf and what live orders hold add up to what the partner stocked: nothing is sold twice,
\* no cancelled order is refunded twice or not at all, no rolled-back checkout keeps stock.
StockConserved == \A d \in Dish : menu[d].exists => menu[d].stock + Held(d) = supply[d]

\* A dish that was ever ordered stays on the menu, so the refund of a cancellation always finds
\* its row; DeleteItem relies on the foreign key, a checkout on the row lock, to keep it so.
OrderedDishesKept ==
    \A o \in Request : orders[o] # None => \A d \in Basket(orders[o].qty) : menu[d].exists

\* A checkout commits only against the menu of that very moment: its receipt has the prices in
\* force, every dish is its restaurant's, available and in stock, although the rows were read,
\* checked and decremented by earlier statements.
Sale(o) ==
    LET new == orders'[o]
    IN  \A d \in Basket(new.qty) :
            /\ menu[d].exists /\ menu[d].avail
            /\ RestaurantOf[d] = new.rest
            /\ new.price[d] = menu[d].price
            /\ menu[d].stock >= new.qty[d]
            /\ menu'[d].stock = menu[d].stock - new.qty[d]

SoldAsListed == [][\A o \in Request : orders[o] = None /\ orders'[o] # None => Sale(o)]_vars

-----------------------------------------------------------------------------
(***************************************************************************)
(* The order lifecycle.                                                    *)
(***************************************************************************)

\* An order, once placed, is never lost or re-priced, and every step of the system moves its
\* status along the lifecycle or leaves it, even when several calls on it run at once and each
\* decided on a status read before the others committed.
MovesLegally(o) ==
    /\ orders'[o] # None
    /\ [orders'[o] EXCEPT !.status = orders[o].status] = orders[o]
    /\ \/ orders'[o].status = orders[o].status
       \/ \E a \in Actors : Legal(a, orders[o].status, orders'[o].status)

LifecycleRespected == [][\A o \in Request : orders[o] # None => MovesLegally(o)]_vars

\* h starts at the creation of an order and ends in status s; each entry starts where the one
\* before ended, and each was legal for its actor.
WholeStory(h, s) ==
    /\ h # <<>>
    /\ h[1].from = "" /\ h[1].to = "created" /\ h[1].actor = "system"
    /\ h[Len(h)].to = s
    /\ \A i \in 2 .. Len(h) : h[i].from = h[i - 1].to /\ Legal(h[i].actor, h[i].from, h[i].to)

\* The audit trail, in the order the entries were committed, tells the whole story of the order,
\* from its creation to its present status, with nothing left out and nothing twice.
AuditComplete ==
    \A o \in Request :
        IF orders[o] = None THEN history[o] = <<>> ELSE WholeStory(history[o], orders[o].status)

\* The history a caller is given is listed from old to new (openapi.yaml: "от старых к новым"),
\* so each entry starts from the status the one listed before it ended in.
AuditOldestFirst ==
    \A r \in Request : \A e, f \in reply[r].trail :
        ( /\ ListedBefore(e, f)
          /\ ~\E g \in reply[r].trail : ListedBefore(e, g) /\ ListedBefore(g, f) )
        => f.from = e.to

\* GetOrderByID reads an order and its history by separate statements.  The history may be
\* newer than the status but never older: the status returned is one the history explains.
HistoryCoversStatus ==
    \A r \in Request :
        result[r] = "ok" /\ reply[r] # NoReply =>
            \E e \in reply[r].trail : e.to = reply[r].status

-----------------------------------------------------------------------------
(***************************************************************************)
(* Answers and webhooks.                                                   *)
(***************************************************************************)

\* A caller told "ok" finds its change committed exactly once, and a caller that was refused left
\* no trace: no history entry, and no order.  Only a call that was cut short may have done either.
Traces(r) == UNION {{<<o, i>> : i \in {j \in DOMAIN history[o] : history[o][j].by = r}} : o \in Request}

AnswersAreTrue ==
    \A r \in Request :
        /\ result[r] = "ok" /\ call[r].op \in Transactional => Cardinality(Traces(r)) = 1
        /\ result[r] \in Refusals \cup {"internal"} => Traces(r) = {}
        /\ result[r] = "ok" /\ call[r].op = "CreateOrder" => orders[r] # None

\* The partner is told only of what was committed: a webhook never announces a change that was
\* rolled back, and it reports the status its own transaction wrote.
WebhooksAreTrue ==
    \A w \in sent : \E i \in DOMAIN history[w.order] :
        history[w.order][i].by = w.by /\ history[w.order][i].to = w.status

\* A client's mistake is a 4xx: no text a client may send makes the server answer as if it had
\* failed itself (tx_manager.go: "Every one of them starts as something a client sent, so every one
\* of them is a 400").
ClientMistakesAre4xx ==
    \A r \in Request :
        pc[r] = "done" /\ call[r].op \in Transactional /\ call[r].text = "nul" => result[r] # "internal"

-----------------------------------------------------------------------------
(***************************************************************************)
(* Progress.                                                               *)
(***************************************************************************)

\* The row the next statement of r needs and somebody else holds, as its holder.
BlockedBy(r) ==
    {dishLock[d] : d \in {e \in Dish : \/ /\ pc[r] \in {"lockDishes", "decrement", "restock"}
                                          /\ IsFirst(e, todo[r])
                                       \/ pc[r] \in {"edit", "remove"} /\ e = call[r].dish}}
    \cup {orderLock[o] : o \in {p \in Request : pc[r] = "lockOrder" /\ p = call[r].order}}

\* No set of requests waits only for each other: baskets in any order, cancellations and partner
\* edits never make PostgreSQL's deadlock detector abort one of them.
NoLockCycle ==
    \A S \in (SUBSET Request) \ {{}} : \E r \in S : BlockedBy(r) \cap (S \ {r}) = {}

\* A request that arrived is answered, however the others contend for its rows.
EveryCallAnswered == \A r \in Request : pc[r] # "idle" ~> pc[r] = "done"

-----------------------------------------------------------------------------
(***************************************************************************)
(* What OrderService implements.                                           *)
(***************************************************************************)

\* All the quantities checkouts ask for, and all the prices the menu may show.
AskedQuantities == UNION {{c.qty[d] : d \in Dish} : c \in {k \in Calls : k.op = "CreateOrder"}}

ListedPrices ==
    {Menu0[d].price : d \in Dish} \cup {c.price : c \in {k \in Calls : k.op = "UpdateItem"}}

Store == INSTANCE OrderStore WITH
    OrderId <- Request,
    Quantity <- AskedQuantities,
    Price <- ListedPrices,
    Stock <- Portions

\* OrderService implements the atomic specification: every step of every transaction leaves
\* menu and orders alone or is one whole step of OrderStore, although the code takes many
\* statements, other requests run between them, and any of them may be the last.
ImplementsStore == Store!Spec

Ledger == INSTANCE OrderLedger WITH
    OrderId <- Request,
    trail <- [o \in Request |-> [i \in DOMAIN history[o] |-> history[o][i].to]],
    announced <- {[order |-> w.order, status |-> w.status] : w \in sent}

\* OrderService keeps the promise PartnerKitchen relies on: whatever calls interleave and wherever
\* they are cut short, the audit trails grow by one legal change at a time, and a webhook announces
\* a status its order's trail already has.
ImplementsLedger == Ledger!Spec
=============================================================================
