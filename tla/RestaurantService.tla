-------------------------- MODULE RestaurantService -------------------------
(***************************************************************************)
(* Restaurants: their registration, the keys their partners authenticate   *)
(* with, their own edits (internal/service/restaurant_service.go,          *)
(* internal/handler/http/partner_auth.go), and the three lists clients     *)
(* page through: active restaurants, dishes on sale, somebody's orders.    *)
(*                                                                         *)
(* A restaurant is identified by the request that registered it, or is one *)
(* of Old; its key is random and never repeats, so it is named by the      *)
(* restaurant's id too.  Dishes and orders belong to MenuService and       *)
(* OrderService: here is only what decides their place in a list.          *)
(***************************************************************************)
EXTENDS Listing, OrderLifecycle

CONSTANTS
    Request,        \* calls of POST and PATCH /partner/restaurants
    Old,            \* restaurants there are when the first call arrives
    Keyless,        \* those of them migration 2 gave the key ''
    RestaurantOf,   \* menu_items.restaurant_id
    Dishes0, Orders0,
    Names,          \* dish names that match the search, in their order
    MaxWrites,      \* a bound on the calls and writes of a behaviour
    Calls,          \* the calls requests may make
    None            \* no call, no caller

Restaurant == Old \cup Request

Dish == DOMAIN Dishes0

Order == DOMAIN Orders0

NoKey == 0          \* the empty key

Keys == Restaurant \cup {NoKey}

RestaurantRow == [state: {"absent", "writing", "stored"}, active: BOOLEAN, key: Keys, at: Nat]

DishRow == [listed: BOOLEAN, name: Names]

OrderRow == [state: {"absent", "writing", "stored"}, status: Statuses, at: Nat]

\* Calls are those that pass Validate; the others are refused before anything is read or written.
RegisterCall == [op: {"Create"}, token: BOOLEAN]

\* fields are the non-nil pointers of UpdateRestaurantInput; the others change no list but one cut
\* down by ?search.
UpdateCall ==
    [op: {"Update"}, key: Keys, id: Restaurant, fields: SUBSET {"active"}, active: BOOLEAN]

ListRestaurants == [list |-> "restaurants"]
SearchItems == [list |-> "dishes"]
ListOrders(status) == [list |-> "orders", status |-> status]

ASSUME RestaurantAssumption ==
    /\ Restaurant \cup Dish \cup Order \subseteq Row
    /\ NoKey \notin Restaurant
    /\ Old \cap Request = {} /\ Keyless \subseteq Old
    /\ Names \subseteq Nat /\ MaxWrites \in Nat
    /\ Dishes0 \in [Dish -> DishRow] /\ Orders0 \in [Order -> OrderRow]
    /\ RestaurantOf \in [Dish -> Restaurant]
    /\ Calls \subseteq RegisterCall \cup UpdateCall
    /\ Query \subseteq {ListRestaurants, SearchItems}
                       \cup {ListOrders(s) : s \in Statuses \cup {"any"}}
    /\ None \notin RegisterCall \cup UpdateCall \cup Restaurant

VARIABLES
    restaurants, dishes, orders,    \* rows; "writing" is one whose transaction has not committed
    pc, call, result,               \* the partner's requests
    caller,                         \* partnerID: the restaurant behind the key
    clock,                          \* the time of NOW()
    writes

tables == <<restaurants, dishes, orders>>
requests == <<pc, call, result, caller>>
vars == <<restaurants, dishes, orders, pc, call, result, caller, clock, writes, reader>>

PCs == {"idle", "token", "commit", "authenticate", "update", "done"}

Results == {"", "created", "ok", "ErrUnauthorized", "ErrRestaurantNotFound", "lost"}

Init ==
    /\ restaurants = [x \in Restaurant |->
           [state |-> IF x \in Old THEN "stored" ELSE "absent", active |-> TRUE,
            key |-> IF x \in Old \ Keyless THEN x ELSE NoKey, at |-> IF x \in Old THEN x ELSE 0]]
    /\ dishes = Dishes0
    /\ orders = Orders0
    /\ pc = [r \in Request |-> "idle"]
    /\ call = [r \in Request |-> None]
    /\ result = [r \in Request |-> ""]
    /\ caller = [r \in Request |-> None]
    /\ clock = Cardinality(Old)
    /\ writes = 0
    /\ ListingInit

-----------------------------------------------------------------------------
(***************************************************************************)
(* The lists.                                                              *)
(***************************************************************************)

Active(x) == restaurants[x].state = "stored" /\ restaurants[x].active

\* The WHERE clause of each query; Order is what user_id or restaurant_id selects.
Listed(q) ==
    CASE q.list = "restaurants" -> {x \in Restaurant : Active(x)}
      [] q.list = "dishes"      -> {d \in Dish : dishes[d].listed /\ Active(RestaurantOf[d])}
      [] q.list = "orders"      ->
             {o \in Order : orders[o].state = "stored" /\ q.status \in {"any", orders[o].status}}

\* ORDER BY created_at DESC.
Newer(rows) == [x \in DOMAIN rows |-> {y \in DOMAIN rows : rows[y].at > rows[x].at}]

\* Slip: the search is sorted by name only.
ByNameOnly == [d \in Dish |-> {e \in Dish : dishes[e].name < dishes[d].name}]

\* ORDER BY name ASC, id ASC.
ByName ==
    [d \in Dish |-> {e \in Dish : \/ dishes[e].name < dishes[d].name
                                  \/ dishes[e].name = dishes[d].name /\ e < d}]

First(q) ==
    CASE q.list = "restaurants" -> Newer(restaurants)
      [] q.list = "dishes"      -> ByName
      [] q.list = "orders"      -> Newer(orders)

OpenList(c, q, limit) ==
    /\ Ask(c, q, limit, Listed(q))
    /\ UNCHANGED <<tables, requests, clock, writes>>

NextPage(c) ==
    /\ reader[c].query # Unasked
    /\ ReadPage(c, Listed(reader[c].query), First(reader[c].query))
    /\ UNCHANGED <<tables, requests, clock, writes>>

\* The ghosts of the readers follow every write.
Lists == [q \in Query |-> Listed(q)]

Renamed(q) == IF q.list = "dishes" THEN {d \in Dish : dishes'[d].name # dishes[d].name} ELSE {}

Track ==
    reader' = [c \in Reader |->
        LET q == reader[c].query
        IN  IF q = Unasked THEN reader[c]
            ELSE Changed(c, Lists[q], Lists'[q], Renamed(q) \cap Lists[q] \cap Lists'[q])]

-----------------------------------------------------------------------------
(***************************************************************************)
(* Registration.                                                           *)
(***************************************************************************)

Write == writes < MaxWrites /\ writes' = writes + 1

Goto(r, next) == pc' = [pc EXCEPT ![r] = next]

Answer(r, value) ==
    /\ Goto(r, "done")
    /\ result' = [result EXCEPT ![r] = value]

\* A transaction's NOW() is when it begins; two may begin in one microsecond.
Now == {clock, clock + 1}

Arrive(r, c) ==
    /\ Write
    /\ pc[r] = "idle"
    /\ call' = [call EXCEPT ![r] = c]
    /\ Goto(r, IF c.op = "Create" THEN "token" ELSE "authenticate")
    /\ UNCHANGED <<tables, result, caller, clock, reader>>

\* Slip: the error of the generator is not looked at, and no key is written.
IssuedKeyMissing(r) == NoKey

\* generateAPIKey
IssuedKey(r) == r

Bootstrapped(r) == call[r].token

\* The bootstrap token, then the INSERT; the row is there for others when it commits.
Create(r) ==
    /\ pc[r] = "token"
    /\ \/ /\ ~Bootstrapped(r)
          /\ Answer(r, "ErrUnauthorized")
          /\ UNCHANGED <<restaurants, clock>>
       \/ /\ Bootstrapped(r)
          /\ \E t \in Now :
                 /\ clock' = t
                 /\ restaurants' = [restaurants EXCEPT ![r] =
                        [state |-> "writing", active |-> TRUE, key |-> IssuedKey(r), at |-> t]]
          /\ Goto(r, "commit")
          /\ UNCHANGED result
    /\ UNCHANGED <<dishes, orders, call, caller, writes, reader>>

\* The answer, the only one that ever carries the key, may be lost with the row in place.
Registered(r) ==
    /\ pc[r] = "commit"
    /\ restaurants' = [restaurants EXCEPT ![r].state = "stored"]
    /\ Answer(r, "created") \/ Answer(r, "lost")
    /\ UNCHANGED <<dishes, orders, call, caller, clock, writes>>
    /\ Track

\* The deadline, or the client has gone; nothing is stored.
Fail(r) ==
    /\ pc[r] \notin {"idle", "done"}
    /\ restaurants' = [restaurants EXCEPT ![r].state = IF @ = "writing" THEN "absent" ELSE @]
    /\ Answer(r, "lost")
    /\ UNCHANGED <<dishes, orders, call, caller, clock, writes, reader>>

-----------------------------------------------------------------------------
(***************************************************************************)
(* A partner's edit: PartnerAuth, then UpdateRestaurant.                   *)
(***************************************************************************)

\* Slip: the empty key is looked up like any other.
HoldersOfAny(key) == {x \in Restaurant : restaurants[x].state = "stored" /\ restaurants[x].key = key}

\* GetByAPIKey, behind the check of PartnerAuth that there is a key at all.
Holders(key) ==
    IF key = NoKey THEN {}
    ELSE {x \in Restaurant : restaurants[x].state = "stored" /\ restaurants[x].key = key}

\* Slip: the middleware answers and then goes on to the handler.
RefusedButServed(r) == FALSE

Refused(r) == Holders(call[r].key) = {}

PartnerAuth(r) ==
    /\ pc[r] = "authenticate"
    /\ \/ /\ Refused(r)
          /\ Answer(r, "ErrUnauthorized")
          /\ UNCHANGED caller
       \/ /\ ~Refused(r)
          /\ caller' = [caller EXCEPT ![r] =
                 IF Holders(call[r].key) = {} THEN None ELSE CHOOSE x \in Holders(call[r].key) : TRUE]
          /\ Goto(r, "update")
          /\ UNCHANGED result
    /\ UNCHANGED <<tables, call, clock, writes, reader>>

\* Slip: any partner edits any card.
OwnsAny(r) == TRUE

Owns(r) == call[r].id = caller[r]

\* Without a field to set the repository only reads the row.
Update(r) ==
    LET x == call[r].id
    IN  /\ pc[r] = "update"
        /\ \/ /\ Owns(r) /\ restaurants[x].state = "stored"
              /\ restaurants' = IF call[r].fields = {} THEN restaurants
                                ELSE [restaurants EXCEPT ![x].active = call[r].active]
              /\ Answer(r, "ok") \/ Answer(r, "lost")
           \/ /\ ~(Owns(r) /\ restaurants[x].state = "stored")
              /\ Answer(r, "ErrRestaurantNotFound")
              /\ UNCHANGED restaurants
        /\ UNCHANGED <<dishes, orders, call, caller, clock, writes>>
        /\ Track

-----------------------------------------------------------------------------
(***************************************************************************)
(* What the other services write, as far as the lists show it.             *)
(***************************************************************************)

\* A dish comes on the menu or goes off it, or has another name.
EditDish(d, row) ==
    /\ Write
    /\ row # dishes[d]
    /\ dishes' = [dishes EXCEPT ![d] = row]
    /\ UNCHANGED <<restaurants, orders, requests, clock>>
    /\ Track

\* A checkout: created_at is when it began, which says nothing about when it commits.
BeginOrder(o) ==
    /\ Write
    /\ orders[o].state = "absent"
    /\ \E t \in Now :
           /\ clock' = t
           /\ orders' = [orders EXCEPT ![o].state = "writing", ![o].at = t]
    /\ UNCHANGED <<restaurants, dishes, requests, reader>>

CommitOrder(o) ==
    /\ orders[o].state = "writing"
    /\ orders' = [orders EXCEPT ![o].state = "stored"]
    /\ UNCHANGED <<restaurants, dishes, requests, clock, writes>>
    /\ Track

MoveOrder(o, t) ==
    /\ Write
    /\ orders[o].state = "stored"
    /\ \E a \in Actors : Legal(a, orders[o].status, t)
    /\ orders' = [orders EXCEPT ![o].status = t]
    /\ UNCHANGED <<restaurants, dishes, requests, clock>>
    /\ Track

-----------------------------------------------------------------------------
Next ==
    \/ \E r \in Request : \/ \E c \in Calls : Arrive(r, c)
                          \/ Create(r) \/ Registered(r) \/ PartnerAuth(r) \/ Update(r) \/ Fail(r)
    \/ \E d \in Dish, row \in DishRow : EditDish(d, row)
    \/ \E o \in Order : BeginOrder(o) \/ CommitOrder(o) \/ \E t \in Statuses : MoveOrder(o, t)
    \/ \E c \in Reader : NextPage(c) \/ \E q \in Query, n \in Limits : OpenList(c, q, n)

Spec == Init /\ [][Next]_vars

-----------------------------------------------------------------------------
(***************************************************************************)
(* Properties.                                                             *)
(***************************************************************************)

\* Every variable has its type, and no handler behind PartnerAuth runs without a caller.
TypeOK ==
    /\ restaurants \in [Restaurant -> RestaurantRow]
    /\ dishes \in [Dish -> DishRow]
    /\ orders \in [Order -> OrderRow]
    /\ pc \in [Request -> PCs]
    /\ call \in [Request -> Calls \cup {None}]
    /\ result \in [Request -> Results]
    /\ caller \in [Request -> Restaurant \cup {None}]
    /\ \A r \in Request : pc[r] = "update" => caller[r] \in Restaurant
    /\ clock \in Nat
    /\ writes \in 0 .. MaxWrites
    /\ reader \in [Reader -> Progress]

\* The key a registration was answered with is good for that restaurant and for no other, and the
\* restaurants without a key are nobody's: whatever a caller presents, it becomes the one
\* restaurant the key was issued to.
KeysOpenTheirRow ==
    /\ \A r \in Request : result[r] = "created" => Holders(restaurants[r].key) = {r}
    /\ \A r \in Request : caller[r] # None =>
           call[r].key = restaurants[caller[r]].key /\ restaurants[caller[r]].key # NoKey

\* A restaurant's row, once stored, changes only by a call that presented its key.
OnlyOwnersEdit ==
    [][\A x \in Restaurant :
           restaurants[x].state = "stored" /\ restaurants'[x] # restaurants[x] =>
               \E r \in Request : /\ pc[r] = "update" /\ pc'[r] = "done"
                                  /\ call[r].key = restaurants[x].key /\ call[r].key # NoKey]_vars

\* Two rows of a list by date have the same date, and no tie-breaker orders them.
Tied(q) ==
    LET Twins(rows) == \E x, y \in DOMAIN rows :
            x # y /\ rows[x].state = "stored" /\ rows[y].state = "stored" /\ rows[x].at = rows[y].at
    IN  \/ q.list = "restaurants" /\ Twins(restaurants)
        \/ q.list = "orders" /\ Twins(orders)

\* A client that reads a list to its end without a date in common misses no more of the rows that
\* were there all the time than rows left the list meanwhile: an order history without a status
\* filter, which nothing leaves, is shown whole although checkouts commit out of the order they
\* began in; dishes of one name need no such proviso.
MissedAtMostLeft ==
    \A c \in Reader :
        reader[c].over /\ ~Tied(reader[c].query) => Cardinality(Missed(c)) <= reader[c].left

\* Nor is it shown more rows twice than rows joined the list meanwhile.
RepeatedAtMostJoined ==
    \A c \in Reader :
        reader[c].query # Unasked /\ ~Tied(reader[c].query) => Repeats(c) <= reader[c].joined
=============================================================================
