----------------------------- MODULE MenuService ----------------------------
(***************************************************************************)
(* The catalogue of MenuService (internal/service/menu_service.go) with    *)
(* its PostgreSQL repository: categories, the dishes filed under them, and *)
(* the menu a customer reads.  There is no transaction here: every method  *)
(* is a row of statements, each atomic by itself, and what an earlier one  *)
(* asserted may no longer hold when a later one writes.  What keeps the    *)
(* catalogue whole is the schema.                                          *)
(***************************************************************************)
EXTENDS Integers

CONSTANTS
    Request,        \* concurrent API calls
    Restaurant,     \* registered; nothing ever deletes one
    Category, Dish, \* identifiers; none is issued twice
    Name,           \* names of categories
    Calls,          \* the calls that may come in
    None,           \* an identifier not issued yet, a field not sent
    Gone            \* what a deleted row leaves

-----------------------------------------------------------------------------
CategoryRow == [restaurant: Restaurant, name: Name]
DishRow == [restaurant: Restaurant, category: Category, available: BOOLEAN]

\* "by" is the restaurant behind the API key, "at" the one in the path.
Call ==
    [op: {"createCategory"}, by: Restaurant, at: Restaurant, name: Name]
    \cup [op: {"updateCategory"}, by: Restaurant, category: Category, name: Name \cup {None}]
    \cup [op: {"deleteCategory"}, by: Restaurant, category: Category]
    \cup [op: {"createItem"}, by: Restaurant, at: Restaurant, category: Category, available: BOOLEAN]
    \cup [op: {"updateItem"}, by: Restaurant, dish: Dish, category: Category \cup {None},
          available: BOOLEAN \cup {None}]
    \cup [op: {"deleteItem"}, by: Restaurant, dish: Dish]
    \cup [op: {"getFullMenu"}, at: Restaurant, onlyAvailable: BOOLEAN]

ASSUME MenuAssumption ==
    /\ Calls \subseteq Call
    /\ None \notin Category \cup Dish \cup Name \cup BOOLEAN \cup CategoryRow \cup DishRow
    /\ Gone \notin CategoryRow \cup DishRow
    /\ None # Gone

VARIABLES
    categories, dishes,     \* the tables menu_categories and menu_items
    ordered,                \* dishes that a row of order_items references
    pc, call, answer,       \* each request: the next statement, its input, its response
    seen,                   \* the categories GetFullMenu has read
    menu,                   \* the dishes it answers with, each under a category
    touched                 \* ghost: dishes changed since the request came in

tables == <<categories, dishes, ordered>>
vars == <<categories, dishes, ordered, pc, call, answer, seen, menu, touched>>

IsRow(x) == x \notin {None, Gone}

CategoryOf(rest, c) == IsRow(categories[c]) /\ categories[c].restaurant = rest
DishOf(rest, d) == IsRow(dishes[d]) /\ dishes[d].restaurant = rest

-----------------------------------------------------------------------------
(***************************************************************************)
(* The constraints of the schema.                                          *)
(***************************************************************************)

\* uq_menu_categories_restaurant_name
NameTaken(rest, n, c) ==
    \E k \in Category \ {c} : CategoryOf(rest, k) /\ categories[k].name = n

\* fk_menu_items_restaurant_category, seen from the dish that is written
Filed(rest, c) == CategoryOf(rest, c)

\* Slip: ON DELETE of that key does not restrict.
HoldsNothing(c) == FALSE

\* the same key, ON DELETE RESTRICT
HoldsDishes(c) == \E d \in Dish : IsRow(dishes[d]) /\ dishes[d].category = c

-----------------------------------------------------------------------------
(***************************************************************************)
(* Requests.                                                               *)
(***************************************************************************)
Init ==
    /\ categories \in [Category -> CategoryRow \cup {None}]
    /\ \A c, k \in Category :
           c # k /\ IsRow(categories[c]) /\ IsRow(categories[k]) => categories[c] # categories[k]
    /\ dishes \in [Dish -> DishRow \cup {None}]
    /\ \A d \in Dish : IsRow(dishes[d]) => Filed(dishes[d].restaurant, dishes[d].category)
    /\ ordered = {}
    /\ pc = [r \in Request |-> "idle"]
    /\ call = [r \in Request |-> None]
    /\ answer = [r \in Request |-> None]
    /\ seen = [r \in Request |-> {}]
    /\ menu = [r \in Request |-> {}]
    /\ touched = [r \in Request |-> {}]

Answer(r, a) ==
    /\ pc' = [pc EXCEPT ![r] = "done"]
    /\ answer' = [answer EXCEPT ![r] = a]

\* A write took effect; the request may be cut short before it is confirmed.
Confirm(r) == Answer(r, "ok") \/ Answer(r, "failed")

Goto(r, label) ==
    /\ pc' = [pc EXCEPT ![r] = label]
    /\ UNCHANGED answer

\* A statement wrote table rows of these dishes.
Touch(ds) ==
    touched' = [q \in Request |-> IF pc[q] = "idle" THEN {} ELSE touched[q] \cup ds]

\* Slip: a new dish is written without looking at its category first.
FirstStepUnasserted(c) ==
    CASE c.op \in {"createCategory", "createItem"} -> IF c.at = c.by THEN "write" ELSE "refused"
      [] c.op \in {"updateCategory", "deleteCategory"} -> "category"
      [] c.op \in {"updateItem", "deleteItem"} -> "item"
      [] c.op = "getFullMenu" -> "categories"

\* ownRestaurantParam: a path that names another restaurant is "not found".
FirstStep(c) ==
    CASE c.op = "createCategory" -> IF c.at = c.by THEN "write" ELSE "refused"
      [] c.op = "createItem" -> IF c.at = c.by THEN "category" ELSE "refused"
      [] c.op \in {"updateCategory", "deleteCategory"} -> "category"
      [] c.op \in {"updateItem", "deleteItem"} -> "item"
      [] c.op = "getFullMenu" -> "categories"

Receive(r) ==
    /\ pc[r] = "idle"
    /\ \E c \in Calls :
           /\ call' = [call EXCEPT ![r] = c]
           /\ IF FirstStep(c) = "refused" THEN Answer(r, "notFound") ELSE Goto(r, FirstStep(c))
    /\ UNCHANGED <<tables, seen, menu, touched>>

\* The request is cut short before its next statement: by its timeout, its client or the pool.
Fail(r) ==
    /\ pc[r] \notin {"idle", "done"}
    /\ Answer(r, "failed")
    /\ UNCHANGED <<tables, call, seen, menu, touched>>

\* Slip: the dish only has to exist.
OwnsItemAny(rest, d) == IsRow(dishes[d])

OwnsItem(rest, d) == DishOf(rest, d)

AssertItemOwned(r) ==
    /\ pc[r] = "item"
    /\ IF ~OwnsItem(call[r].by, call[r].dish) THEN Answer(r, "notFound")
       ELSE Goto(r, IF call[r].op = "updateItem" /\ call[r].category # None THEN "category" ELSE "write")
    /\ UNCHANGED <<tables, call, seen, menu, touched>>

\* Slip: the category is left to the foreign key.
OwnsCategoryByKey(rest, c) == TRUE

OwnsCategory(rest, c) == CategoryOf(rest, c)

AssertCategoryOwned(r) ==
    /\ pc[r] = "category"
    /\ IF ~OwnsCategory(call[r].by, call[r].category) THEN Answer(r, "notFound") ELSE Goto(r, "write")
    /\ UNCHANGED <<tables, call, seen, menu, touched>>

-----------------------------------------------------------------------------
(***************************************************************************)
(* The statements that write; each is a transaction of its own.            *)
(***************************************************************************)
CreateCategory(r) ==
    LET c == call[r] IN
    /\ pc[r] = "write" /\ c.op = "createCategory"
    /\ \E k \in Category :
           /\ categories[k] = None
           /\ IF NameTaken(c.by, c.name, k)
              THEN Answer(r, "conflict") /\ UNCHANGED categories
              ELSE /\ Confirm(r)
                   /\ categories' = [categories EXCEPT ![k] = [restaurant |-> c.by, name |-> c.name]]
    /\ UNCHANGED <<dishes, ordered, call, seen, menu, touched>>

UpdateCategory(r) ==
    LET c == call[r] IN
    /\ pc[r] = "write" /\ c.op = "updateCategory"
    /\ \/ /\ ~IsRow(categories[c.category])
          /\ Answer(r, "notFound") /\ UNCHANGED categories
       \/ /\ IsRow(categories[c.category])
          /\ c.name # None
          /\ NameTaken(categories[c.category].restaurant, c.name, c.category)
          /\ Answer(r, "conflict") /\ UNCHANGED categories
       \/ /\ IsRow(categories[c.category])
          /\ c.name # None => ~NameTaken(categories[c.category].restaurant, c.name, c.category)
          /\ Confirm(r)
          /\ categories' = [categories EXCEPT ![c.category].name = IF c.name = None THEN @ ELSE c.name]
    /\ UNCHANGED <<dishes, ordered, call, seen, menu, touched>>

DeleteCategory(r) ==
    LET c == call[r] IN
    /\ pc[r] = "write" /\ c.op = "deleteCategory"
    /\ \/ /\ ~IsRow(categories[c.category])
          /\ Answer(r, "notFound") /\ UNCHANGED categories
       \/ /\ IsRow(categories[c.category]) /\ HoldsDishes(c.category)
          /\ Answer(r, "conflict") /\ UNCHANGED categories
       \/ /\ IsRow(categories[c.category]) /\ ~HoldsDishes(c.category)
          /\ Confirm(r)
          /\ categories' = [categories EXCEPT ![c.category] = Gone]
    /\ UNCHANGED <<dishes, ordered, call, seen, menu, touched>>

CreateItem(r) ==
    LET c == call[r] IN
    /\ pc[r] = "write" /\ c.op = "createItem"
    /\ \/ /\ ~Filed(c.by, c.category)
          /\ Answer(r, "conflict") /\ UNCHANGED <<dishes, touched>>
       \/ /\ Filed(c.by, c.category)
          /\ Confirm(r)
          /\ \E d \in Dish :
                 /\ dishes[d] = None
                 /\ dishes' = [dishes EXCEPT ![d] = [restaurant |-> c.by, category |-> c.category,
                                                     available |-> c.available]]
                 /\ Touch({d})
    /\ UNCHANGED <<categories, ordered, call, seen, menu>>

\* Slip: a field that was not sent is written too.
EditedBlank(row, c) == [row EXCEPT !.category = c.category, !.available = c.available]

\* UPDATE sets the fields that were sent.
Edited(row, c) ==
    [row EXCEPT !.category = IF c.category = None THEN @ ELSE c.category,
                !.available = IF c.available = None THEN @ ELSE c.available]

UpdateItem(r) ==
    LET c == call[r] IN
    /\ pc[r] = "write" /\ c.op = "updateItem"
    /\ \/ /\ ~IsRow(dishes[c.dish])
          /\ Answer(r, "notFound") /\ UNCHANGED <<dishes, touched>>
       \/ /\ IsRow(dishes[c.dish])
          /\ c.category # None /\ ~Filed(dishes[c.dish].restaurant, c.category)
          /\ Answer(r, "conflict") /\ UNCHANGED <<dishes, touched>>
       \/ /\ IsRow(dishes[c.dish])
          /\ c.category # None => Filed(dishes[c.dish].restaurant, c.category)
          /\ Confirm(r)
          /\ dishes' = [dishes EXCEPT ![c.dish] = Edited(@, c)]
          /\ Touch({c.dish})
    /\ UNCHANGED <<categories, ordered, call, seen, menu>>

DeleteItem(r) ==
    LET c == call[r] IN
    /\ pc[r] = "write" /\ c.op = "deleteItem"
    /\ \/ /\ ~IsRow(dishes[c.dish])
          /\ Answer(r, "notFound") /\ UNCHANGED <<dishes, touched>>
       \/ /\ IsRow(dishes[c.dish]) /\ c.dish \in ordered
          /\ Answer(r, "conflict") /\ UNCHANGED <<dishes, touched>>
       \/ /\ IsRow(dishes[c.dish]) /\ c.dish \notin ordered
          /\ Confirm(r)
          /\ dishes' = [dishes EXCEPT ![c.dish] = Gone]
          /\ Touch({c.dish})
    /\ UNCHANGED <<categories, ordered, call, seen, menu>>

\* A checkout commits (module OrderService).
OrderDish(d) ==
    /\ IsRow(dishes[d]) /\ dishes[d].available
    /\ d \notin ordered
    /\ ordered' = ordered \cup {d}
    /\ UNCHANGED <<categories, dishes, pc, call, answer, seen, menu, touched>>

-----------------------------------------------------------------------------
(***************************************************************************)
(* GetFullMenu: two queries, each of a state of its own.                   *)
(***************************************************************************)
ListCategories(r) ==
    /\ pc[r] = "categories"
    /\ seen' = [seen EXCEPT ![r] = {c \in Category : CategoryOf(call[r].at, c)}]
    /\ Goto(r, "items")
    /\ UNCHANGED <<tables, call, menu, touched>>

\* Slip: dishes on the stop list are shown to customers too.
ListedAll(rest, onlyAvailable) == {d \in Dish : DishOf(rest, d)}

Listed(rest, onlyAvailable) ==
    {d \in Dish : DishOf(rest, d) /\ (onlyAvailable => dishes[d].available)}

ListItems(r) ==
    /\ pc[r] = "items"
    /\ menu' = [menu EXCEPT ![r] =
           {<<d, dishes[d].category>> : d \in {x \in Listed(call[r].at, call[r].onlyAvailable) :
                                                   dishes[x].category \in seen[r]}}]
    /\ Answer(r, "ok")
    /\ UNCHANGED <<tables, call, seen, touched>>

-----------------------------------------------------------------------------
Next ==
    \/ \E r \in Request :
           \/ Receive(r) \/ Fail(r) \/ AssertItemOwned(r) \/ AssertCategoryOwned(r)
           \/ CreateCategory(r) \/ UpdateCategory(r) \/ DeleteCategory(r)
           \/ CreateItem(r) \/ UpdateItem(r) \/ DeleteItem(r)
           \/ ListCategories(r) \/ ListItems(r)
    \/ \E d \in Dish : OrderDish(d)

Spec == Init /\ [][Next]_vars

-----------------------------------------------------------------------------
(***************************************************************************)
(* Properties.                                                             *)
(***************************************************************************)

\* Every variable has its type.
TypeOK ==
    /\ categories \in [Category -> CategoryRow \cup {None, Gone}]
    /\ dishes \in [Dish -> DishRow \cup {None, Gone}]
    /\ ordered \subseteq Dish
    /\ pc \in [Request -> {"idle", "item", "category", "write", "categories", "items", "done"}]
    /\ call \in [Request -> Calls \cup {None}]
    /\ answer \in [Request -> {None, "ok", "notFound", "conflict", "failed"}]
    /\ seen \in [Request -> SUBSET Category]
    /\ menu \in [Request -> SUBSET (Dish \X Category)]
    /\ touched \in [Request -> SUBSET Dish]

\* Whatever edits, moves and deletions race, every dish is filed under a category that exists and
\* is its own restaurant's, and a restaurant's category names differ: the assertions of MenuService
\* may be stale when its statements write, and this does not rest on them.
CatalogueWhole ==
    /\ \A d \in Dish : IsRow(dishes[d]) => CategoryOf(dishes[d].restaurant, dishes[d].category)
    /\ \A c, k \in Category :
           c # k /\ IsRow(categories[c]) /\ IsRow(categories[k]) => categories[c] # categories[k]

\* The restaurants a row belonged to, before and after a step.
Owners(x, y) == {z.restaurant : z \in {x, y} \ {None, Gone}}

\* A row changes only by a call of the restaurant it belongs to (the comment on MenuService: every
\* method "refuses to touch data owned by anyone else"), though ownership is asserted in an earlier
\* statement than the one that writes.
OwnersAlone ==
    \A c \in Category, d \in Dish :
        \A rest \in (IF categories'[c] # categories[c] THEN Owners(categories[c], categories'[c]) ELSE {})
                    \cup (IF dishes'[d] # dishes[d] THEN Owners(dishes[d], dishes'[d]) ELSE {}) :
            \E r \in Request : pc[r] = "write" /\ pc'[r] = "done" /\ call[r].by = rest

OnlyOwnersWrite == [][OwnersAlone]_vars

\* x is an identifier the caller does not own: never issued, or another restaurant's.
Foreign(x, rest) == x = None \/ (IsRow(x) /\ x.restaurant # rest)

NamesForeign(c) ==
    \/ /\ c.op \in {"updateCategory", "deleteCategory", "createItem"}
       /\ Foreign(categories[c.category], c.by)
    \/ /\ c.op = "updateItem" /\ c.category # None
       /\ Foreign(categories[c.category], c.by)
    \/ /\ c.op \in {"updateItem", "deleteItem"}
       /\ Foreign(dishes[c.dish], c.by)

\* A foreign resource looks exactly like one that does not exist, whichever field names it and
\* whatever happens meanwhile: "not found", never a conflict that would betray it (the comment on
\* MenuService).
ForeignIsNotFound ==
    \A r \in Request :
        pc[r] = "done" /\ answer[r] \in {"ok", "conflict"} => ~NamesForeign(call[r])

\* Filing a dish conflicts only if its category was deleted between the assertion and the write.
ConflictMeansDeleted ==
    \A r \in Request :
        pc[r] = "done" /\ answer[r] = "conflict" /\ call[r].op \in {"createItem", "updateItem"} =>
            categories[call[r].category] = Gone

\* GetFullMenu reads categories and dishes apart, yet a dish that nobody changed since the call came
\* in is shown exactly if it is on the menu, and under its category.
StandingDishesShown ==
    \A r \in Request :
        pc[r] = "done" /\ call[r].op = "getFullMenu" /\ answer[r] = "ok" =>
            \A d \in Dish \ touched[r], c \in Category :
                <<d, c>> \in menu[r] <=>
                    /\ DishOf(call[r].at, d) /\ dishes[d].category = c
                    /\ call[r].onlyAvailable => dishes[d].available
=============================================================================
