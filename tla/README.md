# Go.Kitchen in TLA+

TLA+ modules, TLC models and TLAPS proofs for Go.Kitchen, a food-delivery
platform (Go, PostgreSQL) and the simulated kitchen of a partner restaurant
that works with it over HTTP. Everything is translated from the code; paths
below are relative to the repository.

## The system

| Component | Code | State it keeps | Operations |
|---|---|---|---|
| Order lifecycle | `internal/domain/order.go` | none | `CanTransitionTo`, `CanBeCancelledBy` |
| Order service | `internal/service/order_service.go` over `internal/repository/postgres/{order_repo,menu_repo,restaurant_repo,tx_manager}.go` | orders with items, status history, stock of dishes | checkout, status change, cancellation, read of an order |
| Menu service | `internal/service/menu_service.go`, `menu_repo.go` | categories, dishes | create, edit, delete, the full menu, search |
| Restaurant service | `internal/service/restaurant_service.go`, `restaurant_repo.go` | profile, webhook address, API key, all in one row | create, look up by key, update, listing |
| Partner authentication | `internal/handler/http/partner_auth.go` | none | key to restaurant, before every partner endpoint |
| HTTP layer | `internal/handler/http` | none | decoding, the ownership check of a path, the request deadline, errors to status codes |
| Webhook dispatcher | `internal/service/webhook_client.go` | slots of deliveries in flight | `Dispatch` |
| Platform process | `cmd/kitchen-service/main.go`, `config`, `pool.go` | the running server | start, graceful shutdown |
| Partner kitchen | `cmd/partner-restaurant/main.go` | ring of received events, one cooking goroutine per order | `HandleWebhook`, cooking with retries, `Close` |
| Schema | `migrations` | the tables | keys, CHECKs, ON DELETE rules |
| Test doubles | `internal/repository/inmem` | maps | none linked into a binary |

How they interact. A handler calls a service in the goroutine of its request,
under a deadline. A service works through repositories; for the three
operations on orders a transaction travels in the context
(`TxManager.WithinTransaction`, `getExecutor`). Requests share nothing but the
database. After the commit the service hands a webhook to the dispatcher, which
posts it from a goroutine of its own or drops it. The partner's process answers
the webhook, starts a cooking goroutine for a new order, and that goroutine
calls the platform back with PATCH requests, which are status changes of the
order service.

What is hard: checkouts, cancellations, status changes and edits of the menu
interleave statement by statement; any call may be cut short between two of
them; several rows are locked by each of them; the history is written and read
apart from the order; ownership in the menu service is asserted by one statement
and used by another; pages of a list are queries of their own, with nothing
between them but an offset; webhooks and answers are lost, late or dropped; both
processes stop while the other one works; totals wrap. `PROJECT.json` lists
these hazards at their lines.

## The modules

| Module | Models | Used by |
|---|---|---|
| `OrderLifecycle` | the status graph and who may cancel | `OrderService`, `OrderStore`, `OrderLedger`, `PartnerKitchen`, `RestaurantService` |
| `OrderService` | the order service over PostgreSQL, one action per SQL statement | `OrderProperties` |
| `OrderProperties` | what `OrderService` promises and implements | `MCOrderService`, `OrderServiceProofs` |
| `OrderStore` | the abstract service: orders placed, moved and cancelled in one step each | `OrderProperties` |
| `OrderLedger` | an order as the world outside sees it: the trail of its statuses and the webhooks about them | `OrderProperties`, `PartnerKitchen` |
| `Listing` | a client that pages through a changing list | `RestaurantService`, `ListingProofs` |
| `RestaurantService` | registration, keys, the owner's edits, and the three paged lists | `MCRestaurantService`, `RestaurantServiceProofs` |
| `OrderTotal` | the sum of a basket in a fixed width | `OrderTotalProofs` |
| `MenuService` | the catalogue, one action per SQL statement | `MCMenuService`, `MenuServiceProofs` |
| `WebhookDispatcher` | slots, delivery goroutines and their POSTs | `PartnerKitchen` |
| `PartnerKitchen` | the kitchen, the dispatcher and the commits of the platform together | `MCPartnerKitchen`, `PartnerKitchenProofs` |
| `OrderServiceProofs` | proofs: the invariant of the transactions, and what follows from it alone | `OrderPromisesProofs`, `OrderRowsProofs` |
| `OrderPromisesProofs` | proofs: the audit trail, answers, webhooks, both refinements | |
| `OrderRowsProofs` | proofs: portions add up, locks make no circle | |
| `MenuServiceProofs`, `PartnerKitchenProofs`, `OrderTotalProofs` | proofs about the module of that name | |
| `ListingProofs` | lemmas on ranks and pages of a changing list | `RestaurantServiceProofs` |
| `RestaurantServiceProofs` | proofs: keys, owners, paging | |
| `MCOrderService`, `MCMenuService`, `MCPartnerKitchen`, `MCRestaurantService` | the instances TLC checks | |

Definitions commented "Slip" are plausible bugs of the code in the place of the
definition that follows them. No specification uses them; putting one in makes
a property fail, which shows the property looks at that code.

### OrderService

A request is a goroutine: `pc` is its next statement, `call` its arguments,
`todo` the dishes its current loop has left, `seen` and `got` the rows it read,
`draft` and `delta` the writes of its transaction that are not committed.
`menu`, `restaurants`, `orders` and `history` are the committed tables.
`dishLock` and `orderLock` are PostgreSQL's row locks. PostgreSQL is modelled by what
the code relies on: READ COMMITTED (a statement sees what is committed when it
runs, and its own transaction's writes), an exclusive lock on each row written
or read `FOR UPDATE`, held to the end of the transaction, and all-or-nothing
commit. `NOW()` is the time the transaction began.

| Code | Actions |
|---|---|
| `OrderService.CreateOrder` | `GetRestaurant`, `GetWebhookURL`, `LockDish` for each dish in id order, `ReceiveDishes`, `RefuseDish` or `DecrementStock` for each dish, `PersistOrder`, `Commit`, `NotifyPartner` |
| `UpdateOrderStatus`, `CancelOrderByCustomer` | `LockOrder`, `Decide`, `IncrementStock` for each dish, `ApplyStatusChange`, `ReadOrder`, `ReadHistory`, `GetWebhookURL`, `Commit`, `NotifyPartner` |
| `GetOrderByID` | `ReadOrder`, `ReadHistory`, no transaction |
| `MenuService.UpdateItem`, `DeleteItem` | `AssertItemOwned`, then `UpdateItem` or `DeleteItem` |
| `RestaurantService.Update` | `UpdateRestaurant` |
| request deadline, client gone, crash | `Fail` at every step; `Commit` may lose its confirmation |

An order is named by the request that creates it, since identifiers are never
issued twice. Nobody knows an identifier before the checkout that made it has
committed, so a call arrives with that of a committed order or with one that is
no order's (`NamesKnownOrder`: its own name, which no checkout will ever use).
`Registered` are the restaurants there are; a checkout may name another one.
Validation is the set of calls: positive quantities, distinct dishes. `supply`
is a ghost that counts what the partner put on the shelf.

A statement outside a transaction commits by itself, and its confirmation can be
lost as well as that of a COMMIT: `Confirm` answers a write that took effect
with success or as cut short, here and in `MenuService`.

Two limits of the columns show. A shelf holds `MaxStock` portions, the INT of
`stock_quantity`: a cancellation whose portions no longer fit, because the
partner restocked meanwhile, is rolled back with `ErrInvalidInput`. And a text
is plain or has a NUL in it, which passes validation and which PostgreSQL
refuses: at the INSERT of an order with `ErrInvalidInput`, at the INSERT of a
history entry, the only one whose error is not mapped, as `internal`.

### OrderStore

The same tables without requests, locks or transactions: `PlaceOrder`,
`Advance`, `Cancel`, `EditDish` and `RemoveDish` are one indivisible step each.
The refinement mapping is the identity on `menu` and `orders`, the committed
tables of `OrderService`: a transaction is invisible until its commit, and then
must be one whole step.

### OrderLedger

The interface between the order service and the kitchen, which the two detailed
modules see from its two sides. Its state is the sequence of statuses each order
has had (`trail`) and the webhooks the dispatcher took (`announced`): an order
is placed, moved by somebody who may, and announced, perhaps late or never, with
a status it has had. `OrderService` implements it with `trail` read off the
audit history and `announced` off `sent`; `PartnerKitchen`, whose platform is
the commits of `OrderService` and nothing more, implements it with its own
`history`. So the platform the kitchen is checked against does nothing the
checked order service does not: every behaviour of either is one of the ledger.

### RestaurantService and Listing

A request registers a restaurant (`Create`, `Registered`: the row is written and
later committed, and the answer with the only copy of the key may be lost) or
edits one (`PartnerAuth`, then `Update`). A restaurant is named by the request
that registers it, and a key by the restaurant it was issued to, since both are
random and never repeat; `Keyless` are the rows migration 2 gave the empty key.
The rest of the module is what lists depend on: `EditDish` is what the catalogue
may do to a dish (on sale, off sale, renamed), `BeginOrder`, `CommitOrder` and
`MoveOrder` what the order service does to an order. `created_at` is the time a
transaction began, in a clock coarse enough for two to share it.

`Listing` is the client: `OpenList` chooses a query and a page size, `NextPage`
runs the query on what is committed then and moves the offset on. `Sorted` are
the orders in which PostgreSQL may return the rows, all permutations of rows
that ORDER BY leaves tied. `standing`, `joined` and `left` are ghosts: which
rows were in the list all along, and how many came and went.

### MenuService

The catalogue has no transactions: an operation is a row of statements, each
atomic by itself. `AssertItemOwned` and `AssertCategoryOwned` read,
`CreateCategory` to `DeleteItem` write what the schema lets them, and
`ListCategories` and `ListItems` are the two queries of `GetFullMenu`. The
foreign key from dishes to categories, the unique category name and the
RESTRICT rules are guards of those writes. An identifier is `None` before it is
issued and `Gone` after its row is deleted, so it never comes back. `OrderDish`
stands for the checkout that makes a dish undeletable. Stock and price are left
to `OrderService`. `touched` is a ghost: the dishes written since a request
began.

### WebhookDispatcher and PartnerKitchen

`Dispatch` takes a slot or drops the event; the delivering goroutine (`sender`)
and its POST (`request`) are apart, because the client may give up on a request
that still arrives. `PartnerKitchen` adds the platform as the commits of
`OrderService` (`Change`, each owing a webhook), `ReceiveWebhook` and
`StartCooking` for `HandleWebhook`, and the cooking routine: `SendPatch`,
`Advanced`, `Rejected`, `Flaked`, `Retry`, `Cancelled` over the three steps.
`HandlePatch` may happen after the kitchen stopped waiting, may commit and then
answer with a 5xx, or fail without committing. `Stop`, `ShutDown` and `Close` stop the
partner; `PlatformExit` is the platform's restart with deliveries in flight.
A PATCH is refused for its key first (401, or 404 for another restaurant's order)
and for the transition then (422), and the kitchen takes each for permanent.
`keyed` are the orders of the restaurant whose key it was started with: none
under the default configuration, which has no key. It is chosen at the start, so
a run covers every setting of it, and never changes. A partner that fails to listen at start, or
that is started again after `Close`, is not modelled.

### OrderTotal

`AddLine` is the loop's addition in two's complement, `Persist` the INSERT with
the column's CHECK. The integers are `-Half .. Half - 1`; in the code `Half` is
2^63. `Exact` and `Portions` are the true sums, by a recursive function.

## The runs

| Run | Instance | Distinct states | Shows |
|---|---|---|---|
| `order_menu` | 3 requests out of checkouts, cancellations, edits and a deletion; 2 dishes, 2 portions and 1 portion, shelves of 3; 2 restaurants and an unknown one | 140,107 | stock conserved, ordered dishes kept, no lock cycle, true answers, sales at the listed price, `ImplementsStore` |
| `order_status` | 3 requests out of a checkout, status changes, cancellations and reads by owner and stranger | 71,960 | complete audit trail, reads whose history covers their status, true webhooks, legal lifecycle, `ImplementsLedger` |
| `order_live` | 3 requests for the same two dishes and order, with fairness, no symmetry | 42,861 | every call is answered |
| `order_audit_order` | 3 requests out of a checkout and, once it has committed, status changes of its order | violated | the finding on the order of the history |
| `order_text` | 2 requests out of checkouts, a status change and a cancellation with a NUL in their text | violated | the finding on the status of a refusal |
| `kitchen` | 1 order, webhooks of its creation and acceptance, 1 slot, 2 attempts, a ring of 1, with a key and without | 1,478,686 | slots, kitchen never ahead, rejections that are final, the latest events, nothing cooks after `Close` |
| `kitchen_live` | the same with the customer as the only other actor, with fairness | 56,880 | routines and deliveries end, `ImplementsLedger` |
| `kitchen_flake` | 3 attempts | violated | the finding on a flaky answer |
| `menu` | 3 requests, 2 restaurants, 4 category and 2 dish identifiers | 805,640 | the catalogue stays whole, owners alone write, foreign rows are never betrayed, untouched dishes are shown |
| `restaurants` | 2 requests, 2 old restaurants, 1 of them without a key, 3 dishes that start with one name, 3 orders, 3 writes, 1 client with pages of 2 | 1,026,463 | keys open their own row, owners alone edit, a list misses or repeats no more than left or joined it |
| `order_total` | baskets of up to 2 dishes and 4 portions of each in 4 bits | 4,192 | two portions never store a wrong total; a total that fits is never refused |
| `order_total_wrap` | the same | violated | the finding on the total |

Why the bounds suffice. Two dishes with two portions and one are the least in
which baskets overlap without being equal, a portion is the last one, and locks
can be taken in two orders. Three requests let one change, while a second is in
the middle of its statements, what a third made before. Another restaurant and
another customer give every ownership check a stranger. One slot and two
webhooks make the dispatcher saturate, a ring of one makes it overflow, and two
attempts make a retry both possible and exhaustible. In the catalogue three
requests are a stale assertion, the deletion behind its back and one more writer
or reader; four category identifiers leave one to be created. A shelf of three
holds the starting stock and is too small for a restocked dish and a cancelled
order together. Two requests are enough to register a restaurant and edit it
with its own key; three dishes of one name, in pages of two, put the tie on the
boundary of a page, and three writes (`MaxWrites`, which counts the requests as
well) let rows join and leave between any two pages. `ImplementsLedger` of the
kitchen runs in the smaller instance, where it holds as it does in that of
`kitchen`. The four bits of `OrderTotal` leave room for the sum to wrap past the
sign more than once. Request symmetry is used in safety runs only; requests are
interchangeable in every initial state.

The kitchen, menu, restaurant and total runs switch the deadlock check off: those systems
may really stop, when all calls are answered or the kitchen is closed.
`OrderService` has `Finished` for that, so its deadlock check is on and also
means that no set of transactions is stuck.

### Fairness

`OrderService`: weak fairness of each goroutine's next statement. The HTTP
server runs every handler, and a row lock is given to its waiters in turn; a
request that never arrives is no failure. `Fail` is not fair: liveness does not
lean on a deadline to break a wait.

`PartnerKitchen`: weak fairness of each cooking routine and of the end of each
delivery. Timers fire and both HTTP clients have timeouts, which is what ends a
wait on a peer that says nothing. The network, the platform, the handlers and
the operator owe nothing.

## What the code does otherwise than it says

- `order_audit_order`: the history is sorted by `created_at`, the time the
  transaction began. If two status changes begin in one order and take the row
  lock in the other, the history lists the later change first.
  `api/openapi.yaml:1136` promises "от старых к новым".
- `order_text`: the comment of a status change, or the reason of a cancellation,
  with a NUL in it is answered with a 500, because `AddStatusHistory`
  (`order_repo.go:310`) does not map its error. `tx_manager.go:81` says that
  every one of these mistakes is a 400. The transaction is rolled back as it
  should be (`AnswersAreTrue`).
- `kitchen_flake`: if a PATCH of a kitchen with a valid key commits and its answer
  is lost, the retry gets a 422 and the kitchen stops for good with the steps it
  had left. (What is true of a permanent rejection is `RepeatingChangesNothing`:
  the same PATCH would be refused again. `cmd/partner-restaurant/main.go:189` says
  more, that somebody else moved the order.) `docs/diagrams/cjm_restaurant.puml:87` says
  that one flaky answer no longer leaves an order hanging.
- `order_total_wrap`: `tx_manager.go:76` explains why an overflowing total breaks
  the CHECK. With two portions it does. With more the sum can wrap back to a
  non-negative number and is stored.

## What is proved

`tlapm` checks each of the eight `*Proofs` modules by itself, for every value of
the constants: any number of requests, dishes, categories, restaurants, orders,
customers, clients, slots, attempts and events, any starting tables, and
integers of any width. Every safety property and both refinements of the passing
runs are theorems.

| Theorem | Property |
|---|---|
| `OrderServiceProofs!TypeCorrect` | `TypeOK`, with it that stock is never negative |
| `OrderServiceProofs!OrderedDishes` | `OrderedDishesKept` |
| `OrderServiceProofs!Sold` | `SoldAsListed` |
| `OrderServiceProofs!Lifecycle` | `LifecycleRespected` |
| `OrderPromisesProofs!Audit` | `AuditComplete` |
| `OrderPromisesProofs!Webhooks` | `WebhooksAreTrue` |
| `OrderPromisesProofs!HistoryCovers` | `HistoryCoversStatus` |
| `OrderPromisesProofs!Answers` | `AnswersAreTrue` |
| `OrderPromisesProofs!StoreImplemented` | `ImplementsStore` |
| `OrderPromisesProofs!LedgerImplemented` | `ImplementsLedger` of the order service |
| `OrderRowsProofs!Stock` | `StockConserved` |
| `OrderRowsProofs!NoCycle` | `NoLockCycle` |
| `MenuServiceProofs!TypeCorrect` | `TypeOK` |
| `MenuServiceProofs!Whole` | `CatalogueWhole` |
| `MenuServiceProofs!OwnRowsOnly` | `OnlyOwnersWrite` |
| `MenuServiceProofs!Unseen` | `ForeignIsNotFound` |
| `MenuServiceProofs!MenuShown` | `StandingDishesShown` |
| `MenuServiceProofs!Conflicts` | `ConflictMeansDeleted` |
| `PartnerKitchenProofs!TypeCorrect` | `TypeOK` |
| `PartnerKitchenProofs!Slots` | `SlotsMatchDeliveries` |
| `PartnerKitchenProofs!LatestEvents` | `EventsAreLatest` |
| `PartnerKitchenProofs!Acknowledged` | `AcknowledgedIsCommitted` |
| `PartnerKitchenProofs!RejectedForGood` | `RepeatingChangesNothing` |
| `PartnerKitchenProofs!ClosedIdle` | `ClosedMeansIdle` |
| `PartnerKitchenProofs!LedgerImplemented` | `ImplementsLedger` of the kitchen |
| `RestaurantServiceProofs!TypeCorrect` | `TypeOK` |
| `RestaurantServiceProofs!KeysOpen` | `KeysOpenTheirRow` |
| `RestaurantServiceProofs!OwnersOnly` | `OnlyOwnersEdit` |
| `RestaurantServiceProofs!Missing` | `MissedAtMostLeft` |
| `RestaurantServiceProofs!Repeating` | `RepeatedAtMostJoined` |
| `OrderTotalProofs!TwoPortions` | `TwoPortionsExact` |
| `OrderTotalProofs!Fitting` | `FittingIsStored` |

### Assumptions

Only the `ASSUME`s of the modules, which TLC evaluates on every run. `None`,
`Gone`, `NoKey` and `Unasked` are not rows, requests, calls or queries; dishes
are numbered, since their ids are ordered; starting tables, calls and queries are
well-formed; every registered restaurant is a restaurant; there is at least one slot, attempt and event kept; an old
restaurant is none that a request registers; the rows a list may hold are
finitely many. Requests, orders and events may be infinitely many, but for
`Stock` and `Slots`, which count sets the proofs show to be finite.

### The transactions (`OrderServiceProofs`)

None of the properties is inductive: a commit is right because of what earlier
statements checked, and what they checked is still true because of the locks.
`IInv` therefore says, for each request and each value of its `pc`, which rows
it holds and that what it read of them is what is committed now (`Wanted`,
`Taken`, `OrderHeld`, `Restocked`), and that the uncommitted order is the one
the call asks for. `Frame` lists what a step of one request leaves to the
others: the rows they have locked. So each action needs a lemma about its own
request (`LockDishStep` to `UpdateRestaurantStep`), `FrameKeeps` does the rest,
and `NextInv` puts them together. `Sold` and `Lifecycle` then only look at
`Commit`, the one action that writes orders (`OrdersWritten`), where `IInv` says
that what was checked still holds.

### The audit trail and the refinements (`OrderPromisesProofs`)

`AuditInv` adds to `IInv` where a request's own change is: in no history before
its commit, in exactly one entry after it, in either if its confirmation was
lost; and how the reply it is preparing relates to the history. Histories only
grow, by entries of the request that commits, so a step of one request leaves
this part of the others alone. `HistoryCovers` needs only that growth: the
second query sees at least what the first saw.

With it both refinements are short. A commit, an edit of a dish and a webhook
are steps of `OrderStore` or `OrderLedger`, every other statement stutters, and
what `IInv` says of a transaction at its commit is the guard of the abstract
step. `SourceInv` adds that every price on the menu comes from the starting menu
or an edit somebody asked for.

### Stock and locks (`OrderRowsProofs`)

`StockConserved` is proved by counting: the portions an order holds are the set
`HeldBy(o, d)`, so a checkout adds a disjoint set of its own, a cancellation
takes one away, and what was committed to the shelf changes by the same number.

For `NoLockCycle`, `LockInv` says that a transaction takes its order's row
before any dish, takes dishes in the order of their ids, and waits for none it
holds, and that an edit holds nothing while it waits. Of requests that wait for
each other, take the greatest dish one of them waits for: whoever holds it waits
for a greater one. There is a greatest, since only finitely many dishes are ever
locked at once, however many there are (`Least`, `Greatest`).

### The catalogue (`MenuServiceProofs`)

`CatalogueWhole` is kept by the guards of the writes alone, which is the point:
it owes nothing to the assertions. Ownership does, and there are no locks. What
saves it is that a row never changes its restaurant (`KeepsOwner`), so that an
assertion can go stale only by a deletion, and a deleted row is nobody's. `IInv`
adds to every request what it has asserted in that weak form (`Asserted`).
`MenuShown` has an invariant of its own, that the categories read cover those of
every dish not touched since. `Conflicts` needs that a deleted row stays deleted.

### The kitchen (`PartnerKitchenProofs`)

A routine knows the platform only by answers that are lost, late or wrong.
`IInv` says what each can mean: a 2xx that the asked status is in the history, a
4xx that the key is no good or the status cannot be reached any more, and a
request still travelling nothing at all. Each stays true because the platform
moves orders forward only and the key is the one the process was started with. The
slots are counted by the deliveries in flight, and after `Close` has waited no
handler is left that could start a routine.

### Keys and lists (`ListingProofs`, `RestaurantServiceProofs`)

Keys are issued once, to the row of the request that registers it, so `Holders`
of a key is that row or nobody (`KeysOpen`), and the path check does the rest
(`OwnersOnly`).

For the lists, the rank of a row is the number of rows before it, and a page is
the rows of the ranks from its offset on. A client misses the rows whose rank
sank below its offset before it saw them, and is shown again those it saw
whose rank has risen to the offset. `ListingProofs` shows that a change that
removes `m` rows lets at most `m` unseen ones sink, and one that adds `n` lets
at most `n` seen ones rise, whatever rows are touched and however long the list
is. `PInv` is that account for every client at every moment; it speaks of lists
without a common date only, and a list with one keeps it (`Tied`).

### The total (`OrderTotalProofs`)

The wrapped total differs from the true sum by a multiple of `2 * Half`. Up to
two portions the sum is less than `2 * Half`, so it is the total or the total is
negative, which the CHECK refuses; and a negative total means that the sum is
`Half` or more.

### Only model-checked

Liveness under fairness (`EveryCallAnswered`, `RoutinesEnd`, `DeliveriesEnd`),
because ENABLED is beyond the prover. The four violated properties need no
proof: a counterexample is one behaviour. What the recursive sums of
`OrderTotal` amount to is used only through their defining equation, by the
least index at which a claim about them fails.

## What is not modelled

- What a search matches, and the items loaded with a page of orders: the first is
  the matching of strings, and items never change once their order is committed.
- Lists whose rows have a date in common are modelled, and no property speaks of
  them: the queries by `created_at` have no tie-breaker, so PostgreSQL owes them
  nothing, and in the instance of `restaurants` such a list does lose rows nobody touched.
- Text limits, address validation, JSON, routes and the wording of errors: string
  processing. A refusal is kept as its error, and as its class (2xx, 4xx, 5xx)
  where the kitchen reacts to it.
- A crash of the database, the connection pool and configuration. A crash of the
  platform's process is `Fail` of all its requests, and `PlatformExit`.
- A restart of the partner's process: it keeps nothing on disk and does not ask
  for the orders it had, so after `Close` or `ShutDown` there is nothing left to model.
- The in-memory repositories: doubles for tests, without transactions or locks by
  their own package comment, and linked into no binary.
- The promise that a restaurant is active when its order commits: the code reads
  the flag without a lock and does not make it.

## Plan

Done, in this order, the most important first: `OrderLifecycle`,
`OrderService` with its properties and `OrderStore`; the proofs about it; the
dispatcher and the kitchen; the catalogue and its proofs; the total; the limits
of stock and text in `OrderService`; `OrderLedger` between the order service and the
kitchen; restaurants, keys and lists; proofs of every safety property and of
both refinements.

Next:

1. Lemmas that say what the abstract specifications are worth: that `OrderStore`
   by itself conserves stock and `OrderLedger` keeps the lifecycle, so that what
   is promised to a client can be read off them alone.
2. The proviso of lists with a common date, with a tie-breaker in the query as
   a named variant: what the property becomes when the code sorts by id as well.
3. The parts of the liveness arguments that are safety: that a request that
   waits always has another one to wait for which can take a step, and that the
   attempts of a routine only grow.
