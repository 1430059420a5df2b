-------------------------- MODULE MenuServiceProofs -------------------------
(***************************************************************************)
(* Proofs about MenuService for any number of requests, restaurants,       *)
(* categories and dishes.                                                  *)
(*                                                                         *)
(* The schema keeps the catalogue whole by itself.  That only owners write *)
(* rests on rows never changing hands: what a request has asserted of a    *)
(* row can go stale in one way only, by the row's deletion, and a deleted  *)
(* row is nobody's.                                                        *)
(***************************************************************************)
EXTENDS MenuService, TLAPS

\* Which statements a call consists of.
Placement(r) ==
    /\ pc[r] # "idle" => call[r] \in Calls
    /\ pc[r] = "item" => call[r].op \in {"updateItem", "deleteItem"}
    /\ pc[r] = "category" =>
           \/ call[r].op \in {"updateCategory", "deleteCategory", "createItem"}
           \/ call[r].op = "updateItem" /\ call[r].category # None
    /\ pc[r] = "write" => call[r].op # "getFullMenu"
    /\ pc[r] \in {"categories", "items"} => call[r].op = "getFullMenu"

\* What a request has asserted is of its own restaurant, or gone.
Asserted(r) ==
    /\ pc[r] = "category" /\ call[r].op = "updateItem" => ~Foreign(dishes[call[r].dish], call[r].by)
    /\ pc[r] = "write" => ~NamesForeign(call[r])
    /\ pc[r] = "done" /\ answer[r] \in {"ok", "conflict"} => ~NamesForeign(call[r])

IInv ==
    /\ TypeOK
    /\ CatalogueWhole
    /\ \A r \in Request : Placement(r) /\ Asserted(r)

-----------------------------------------------------------------------------
(***************************************************************************)
(* Rows keep their restaurant.                                             *)
(***************************************************************************)
KeepsOwner(x, y) ==
    \/ y = x
    \/ x = None /\ IsRow(y)
    \/ IsRow(x) /\ y = Gone
    \/ IsRow(x) /\ IsRow(y) /\ y.restaurant = x.restaurant

RowsKeepOwners ==
    /\ \A c \in Category : KeepsOwner(categories[c], categories'[c])
    /\ \A d \in Dish : KeepsOwner(dishes[d], dishes'[d])

\* What is not foreign stays so.
LEMMA StaysOwn ==
    ASSUME NEW x, NEW y, NEW rest, KeepsOwner(x, y), ~Foreign(x, rest)
    PROVE  ~Foreign(y, rest)
  BY MenuAssumption DEF KeepsOwner, Foreign, IsRow

\* The fields of a call.
LEMMA Fields ==
    ASSUME NEW c \in Calls
    PROVE  /\ c.op \in {"createCategory", "updateCategory", "deleteCategory", "createItem",
                        "updateItem", "deleteItem", "getFullMenu"}
           /\ c.op # "getFullMenu" => c.by \in Restaurant
           /\ c.op = "createCategory" => c.at \in Restaurant /\ c.name \in Name
           /\ c.op = "updateCategory" => c.category \in Category /\ c.name \in Name \cup {None}
           /\ c.op = "deleteCategory" => c.category \in Category
           /\ c.op = "createItem" =>
                  c.at \in Restaurant /\ c.category \in Category /\ c.available \in BOOLEAN
           /\ c.op = "updateItem" =>
                  /\ c.dish \in Dish /\ c.category \in Category \cup {None}
                  /\ c.available \in BOOLEAN \cup {None}
           /\ c.op = "deleteItem" => c.dish \in Dish
           /\ c.op = "getFullMenu" => c.at \in Restaurant /\ c.onlyAvailable \in BOOLEAN
  <1>1. c \in Call
    BY MenuAssumption
  <1>. QED
    BY <1>1 DEF Call

\* A call that named nothing foreign still names nothing foreign.
LEMMA NamesStayOwn ==
    ASSUME NEW r \in Request, call[r] \in Calls, call'[r] = call[r],
           RowsKeepOwners, ~NamesForeign(call[r])
    PROVE  ~NamesForeign(call[r])'
  <1>. DEFINE c == call[r]
  <1>1. ASSUME c.op \in {"updateCategory", "deleteCategory", "createItem"}
        PROVE  ~Foreign(categories'[c.category], c.by)
    BY <1>1, Fields, StaysOwn DEF RowsKeepOwners, NamesForeign
  <1>2. ASSUME c.op = "updateItem", c.category # None
        PROVE  ~Foreign(categories'[c.category], c.by)
    BY <1>2, Fields, StaysOwn DEF RowsKeepOwners, NamesForeign
  <1>3. ASSUME c.op \in {"updateItem", "deleteItem"}
        PROVE  ~Foreign(dishes'[c.dish], c.by)
    BY <1>3, Fields, StaysOwn DEF RowsKeepOwners, NamesForeign
  <1>. QED
    BY <1>1, <1>2, <1>3 DEF NamesForeign, Foreign, IsRow

\* Requests that do not move keep what they know.
LEMMA OthersKeep ==
    ASSUME TypeOK, NEW r \in Request, Placement(r), Asserted(r), RowsKeepOwners,
           pc'[r] = pc[r], call'[r] = call[r], answer'[r] = answer[r]
    PROVE  Placement(r)' /\ Asserted(r)'
  <1>1. Placement(r)'
    BY DEF Placement
  <1>2. CASE pc[r] = "idle"
    BY <1>1, <1>2 DEF Asserted
  <1>3. CASE pc[r] # "idle"
    <2>1. call[r] \in Calls
      BY <1>3 DEF Placement
    <2>2. ASSUME ~NamesForeign(call[r])
          PROVE  ~NamesForeign(call[r])'
      BY <2>1, <2>2, NamesStayOwn
    <2>3. ASSUME call[r].op = "updateItem", ~Foreign(dishes[call[r].dish], call[r].by)
          PROVE  ~Foreign(dishes'[call[r].dish], call[r].by)
      BY <2>1, <2>3, Fields, StaysOwn DEF RowsKeepOwners
    <2>. QED
      BY <1>1, <2>2, <2>3 DEF Asserted
  <1>. QED
    BY <1>1, <1>2, <1>3

\* A step of request q keeps the invariant if its writes keep the catalogue whole and its own
\* knowledge right: the others keep theirs.
LEMMA StepKeeps ==
    ASSUME IInv, NEW q \in Request, TypeOK', CatalogueWhole', RowsKeepOwners,
           Placement(q)', Asserted(q)',
           \A r \in Request \ {q} : pc'[r] = pc[r] /\ call'[r] = call[r] /\ answer'[r] = answer[r]
    PROVE  IInv'
  <1>1. ASSUME NEW r \in Request \ {q}
        PROVE  Placement(r)' /\ Asserted(r)'
    BY <1>1, OthersKeep DEF IInv
  <1>. QED
    BY <1>1 DEF IInv

\* A statement that only reads leaves the catalogue as it is.
LEMMA TablesStand ==
    ASSUME IInv, UNCHANGED tables
    PROVE  CatalogueWhole' /\ RowsKeepOwners
  BY DEF IInv, tables, CatalogueWhole, RowsKeepOwners, KeepsOwner, CategoryOf, IsRow

-----------------------------------------------------------------------------
(***************************************************************************)
(* One lemma for each action.                                              *)
(***************************************************************************)
LEMMA ReceiveStep ==
    ASSUME IInv, NEW q \in Request, Receive(q)
    PROVE  IInv'
  <1>1. PICK c \in Calls :
            /\ call' = [call EXCEPT ![q] = c]
            /\ IF FirstStep(c) = "refused" THEN Answer(q, "notFound") ELSE Goto(q, FirstStep(c))
    BY DEF Receive
  <1>2. FirstStep(c) \in {"refused", "write", "category", "item", "categories"}
    BY Fields DEF FirstStep
  <1>3. TypeOK'
    BY <1>1, <1>2 DEF IInv, TypeOK, Receive, Answer, Goto, tables
  <1>4. call'[q] = c /\ pc'[q] \in {"done", FirstStep(c)} /\ (pc'[q] = "done" => answer'[q] = "notFound")
    BY <1>1, <1>2 DEF IInv, TypeOK, Answer, Goto
  <1>5. Placement(q)'
    BY <1>2, <1>4, Fields DEF Placement, FirstStep
  <1>6. Asserted(q)'
    BY <1>2, <1>4, Fields DEF Asserted, FirstStep, NamesForeign
  <1>7. \A r \in Request \ {q} : pc'[r] = pc[r] /\ call'[r] = call[r] /\ answer'[r] = answer[r]
    BY <1>1 DEF IInv, TypeOK, Answer, Goto
  <1>8. UNCHANGED tables
    BY DEF Receive
  <1>. QED
    BY <1>3, <1>5, <1>6, <1>7, <1>8, TablesStand, StepKeeps

LEMMA FailStep ==
    ASSUME IInv, NEW q \in Request, Fail(q)
    PROVE  IInv'
  <1>1. TypeOK'
    BY DEF IInv, TypeOK, Fail, Answer, tables
  <1>2. Placement(q)' /\ Asserted(q)'
    BY DEF IInv, TypeOK, Fail, Answer, Placement, Asserted
  <1>3. \A r \in Request \ {q} : pc'[r] = pc[r] /\ call'[r] = call[r] /\ answer'[r] = answer[r]
    BY DEF IInv, TypeOK, Fail, Answer
  <1>4. UNCHANGED tables
    BY DEF Fail
  <1>. QED
    BY <1>1, <1>2, <1>3, <1>4, TablesStand, StepKeeps

LEMMA AssertItemOwnedStep ==
    ASSUME IInv, NEW q \in Request, AssertItemOwned(q)
    PROVE  IInv'
  <1>. DEFINE next == IF call[q].op = "updateItem" /\ call[q].category # None THEN "category" ELSE "write"
  <1>1. TypeOK'
    BY DEF IInv, TypeOK, AssertItemOwned, Answer, Goto, tables
  <1>2. call[q] \in Calls /\ call[q].op \in {"updateItem", "deleteItem"}
    BY DEF IInv, Placement, AssertItemOwned
  <1>3. \/ pc'[q] = "done" /\ answer'[q] = "notFound"
        \/ DishOf(call[q].by, call[q].dish) /\ pc'[q] = next
    BY DEF IInv, TypeOK, AssertItemOwned, Answer, Goto, OwnsItem
  <1>4. UNCHANGED <<tables, call>>
    BY DEF AssertItemOwned
  <1>5. Placement(q)'
    BY <1>2, <1>3, <1>4 DEF Placement
  <1>6. Asserted(q)'
    BY <1>2, <1>3, <1>4, MenuAssumption DEF Asserted, NamesForeign, Foreign, DishOf, IsRow, tables
  <1>7. \A r \in Request \ {q} : pc'[r] = pc[r] /\ call'[r] = call[r] /\ answer'[r] = answer[r]
    BY DEF IInv, TypeOK, AssertItemOwned, Answer, Goto
  <1>. QED
    BY <1>1, <1>4, <1>5, <1>6, <1>7, TablesStand, StepKeeps

LEMMA AssertCategoryOwnedStep ==
    ASSUME IInv, NEW q \in Request, AssertCategoryOwned(q)
    PROVE  IInv'
  <1>1. TypeOK'
    BY DEF IInv, TypeOK, AssertCategoryOwned, Answer, Goto, tables
  <1>2. /\ call[q] \in Calls
        /\ \/ call[q].op \in {"updateCategory", "deleteCategory", "createItem"}
           \/ call[q].op = "updateItem" /\ call[q].category # None
    BY DEF IInv, Placement, AssertCategoryOwned
  <1>3. \/ pc'[q] = "done" /\ answer'[q] = "notFound"
        \/ CategoryOf(call[q].by, call[q].category) /\ pc'[q] = "write"
    BY DEF IInv, TypeOK, AssertCategoryOwned, Answer, Goto, OwnsCategory
  <1>4. UNCHANGED <<tables, call>>
    BY DEF AssertCategoryOwned
  <1>5. call[q].op = "updateItem" => ~Foreign(dishes[call[q].dish], call[q].by)
    BY DEF IInv, Asserted, AssertCategoryOwned
  <1>6. Placement(q)'
    BY <1>2, <1>3, <1>4 DEF Placement
  <1>7. Asserted(q)'
    BY <1>2, <1>3, <1>4, <1>5, MenuAssumption DEF Asserted, NamesForeign, Foreign, CategoryOf, IsRow, tables
  <1>8. \A r \in Request \ {q} : pc'[r] = pc[r] /\ call'[r] = call[r] /\ answer'[r] = answer[r]
    BY DEF IInv, TypeOK, AssertCategoryOwned, Answer, Goto
  <1>. QED
    BY <1>1, <1>4, <1>6, <1>7, <1>8, TablesStand, StepKeeps

-----------------------------------------------------------------------------
(***************************************************************************)
(* The statements that write.                                              *)
(***************************************************************************)

\* Rows change only if they are of this restaurant.
OnlyOf(rest) ==
    /\ \A c \in Category :
           categories'[c] = categories[c] \/ Owners(categories[c], categories'[c]) \subseteq {rest}
    /\ \A d \in Dish :
           dishes'[d] = dishes[d] \/ Owners(dishes[d], dishes'[d]) \subseteq {rest}

\* A write that keeps the tables whole keeps everything.
LEMMA WriteKeeps ==
    ASSUME IInv, NEW q \in Request, pc[q] = "write",
           TypeOK', CatalogueWhole', RowsKeepOwners, OnlyOf(call[q].by),
           UNCHANGED call, pc' = [pc EXCEPT ![q] = "done"],
           NEW a, answer' = [answer EXCEPT ![q] = a]
    PROVE  IInv' /\ OwnersAlone
  <1>1. call[q] \in Calls /\ ~NamesForeign(call[q])
    BY DEF IInv, Placement, Asserted
  <1>2. pc'[q] = "done" /\ call'[q] = call[q]
    BY DEF IInv, TypeOK
  <1>3. Placement(q)'
    BY <1>1, <1>2 DEF Placement
  <1>4. Asserted(q)'
    <2>1. ~NamesForeign(call[q])'
      BY <1>1, <1>2, NamesStayOwn
    <2>. QED
      BY <1>2, <2>1 DEF Asserted
  <1>5. \A r \in Request \ {q} : pc'[r] = pc[r] /\ call'[r] = call[r] /\ answer'[r] = answer[r]
    BY DEF IInv, TypeOK
  <1>6. OwnersAlone
    BY <1>2 DEF OwnersAlone, OnlyOf
  <1>. QED
    BY <1>3, <1>4, <1>5, <1>6, StepKeeps

\* An answer that changes no row.
LEMMA RefusalKeeps ==
    ASSUME IInv, NEW q \in Request, pc[q] = "write",
           NEW a \in {"ok", "failed", "notFound", "conflict"}, Answer(q, a),
           UNCHANGED <<tables, call, seen, menu, touched>>
    PROVE  IInv' /\ OwnersAlone
  <1>1. TypeOK'
    BY DEF IInv, TypeOK, Answer, tables
  <1>2. OnlyOf(call[q].by)
    BY DEF OnlyOf, tables
  <1>. QED
    BY <1>1, <1>2, TablesStand, WriteKeeps DEF Answer

LEMMA CreateCategoryStep ==
    ASSUME IInv, NEW q \in Request, CreateCategory(q)
    PROVE  IInv' /\ OwnersAlone
  <1>. DEFINE c == call[q]
  <1>1. pc[q] = "write" /\ c.op = "createCategory" /\ c \in Calls
    BY DEF CreateCategory, IInv, Placement
  <1>2. PICK k \in Category :
            /\ categories[k] = None
            /\ IF NameTaken(c.by, c.name, k)
               THEN Answer(q, "conflict") /\ UNCHANGED categories
               ELSE /\ Confirm(q)
                    /\ categories' = [categories EXCEPT ![k] = [restaurant |-> c.by, name |-> c.name]]
    BY DEF CreateCategory
  <1>3. CASE NameTaken(c.by, c.name, k)
    BY <1>1, <1>2, <1>3, RefusalKeeps DEF CreateCategory, tables
  <1>4. CASE ~NameTaken(c.by, c.name, k)
    <2>. DEFINE row == [restaurant |-> c.by, name |-> c.name]
    <2>1. row \in CategoryRow
      BY <1>1, Fields DEF CategoryRow
    <2>2. IsRow(row)
      BY <2>1, MenuAssumption DEF IsRow
    <2>3. categories' = [categories EXCEPT ![k] = row] /\ Confirm(q) /\ UNCHANGED <<dishes, ordered, call, seen, menu, touched>>
      BY <1>2, <1>4 DEF CreateCategory
    <2>4. TypeOK'
      BY <2>1, <2>3 DEF IInv, TypeOK, Confirm, Answer
    <2>5. RowsKeepOwners
      BY <1>2, <2>2, <2>3 DEF IInv, TypeOK, RowsKeepOwners, KeepsOwner
    <2>6. CatalogueWhole'
      <3>1. ASSUME NEW d \in Dish, IsRow(dishes[d])
            PROVE  CategoryOf(dishes[d].restaurant, dishes[d].category)'
        <4>1. CategoryOf(dishes[d].restaurant, dishes[d].category)
          BY <3>1 DEF IInv, CatalogueWhole
        <4>2. dishes[d].category \in Category /\ dishes[d].category # k
          BY <1>2, <3>1, <4>1 DEF IInv, TypeOK, IsRow, DishRow, CategoryOf
        <4>. QED
          BY <2>3, <4>1, <4>2 DEF IInv, TypeOK, CategoryOf, IsRow
      <3>2. ASSUME NEW x \in Category \ {k}, IsRow(categories[x])
            PROVE  categories[x] # row
        BY <1>4, <3>2 DEF NameTaken, CategoryOf
      <3>3. ASSUME NEW x \in Category, NEW y \in Category, x # y,
                   IsRow(categories'[x]), IsRow(categories'[y])
            PROVE  categories'[x] # categories'[y]
        BY <2>3, <3>2, <3>3 DEF IInv, TypeOK, CatalogueWhole
      <3>. QED
        BY <2>3, <3>1, <3>3 DEF CatalogueWhole, IsRow
    <2>7. OnlyOf(c.by)
      BY <1>2, <2>3 DEF IInv, TypeOK, OnlyOf, Owners
    <2>. QED
      BY <1>1, <2>3, <2>4, <2>5, <2>6, <2>7, WriteKeeps DEF Confirm, Answer
  <1>. QED
    BY <1>3, <1>4

LEMMA UpdateCategoryStep ==
    ASSUME IInv, NEW q \in Request, UpdateCategory(q)
    PROVE  IInv' /\ OwnersAlone
  <1>. DEFINE c == call[q]
              k == c.category
              row == [categories[k] EXCEPT !.name = IF c.name = None THEN @ ELSE c.name]
  <1>1. pc[q] = "write" /\ c.op = "updateCategory" /\ c \in Calls /\ k \in Category
    BY Fields DEF UpdateCategory, IInv, Placement
  <1>2. CASE Answer(q, "notFound") /\ UNCHANGED categories
    BY <1>1, <1>2, RefusalKeeps DEF UpdateCategory, tables
  <1>3. CASE Answer(q, "conflict") /\ UNCHANGED categories
    BY <1>1, <1>3, RefusalKeeps DEF UpdateCategory, tables
  <1>4. CASE /\ IsRow(categories[k])
             /\ c.name # None => ~NameTaken(categories[k].restaurant, c.name, k)
             /\ Confirm(q)
             /\ categories' = [categories EXCEPT ![k] = row]
    <2>1. categories[k] \in CategoryRow
      BY <1>1, <1>4 DEF IInv, TypeOK, IsRow
    <2>2. row \in CategoryRow /\ row.restaurant = categories[k].restaurant
      BY <1>1, <2>1, Fields DEF CategoryRow
    <2>3. IsRow(row)
      BY <2>2, MenuAssumption DEF IsRow
    <2>4. UNCHANGED <<dishes, ordered, call, seen, menu, touched>>
      BY DEF UpdateCategory
    <2>5. TypeOK'
      BY <1>4, <2>2, <2>4 DEF IInv, TypeOK, Confirm, Answer
    <2>6. RowsKeepOwners
      BY <1>1, <1>4, <2>2, <2>3, <2>4 DEF IInv, TypeOK, RowsKeepOwners, KeepsOwner
    <2>7. CatalogueWhole'
      <3>1. ASSUME NEW d \in Dish, IsRow(dishes[d])
            PROVE  CategoryOf(dishes[d].restaurant, dishes[d].category)'
        <4>1. CategoryOf(dishes[d].restaurant, dishes[d].category) /\ dishes[d].category \in Category
          BY <3>1 DEF IInv, TypeOK, CatalogueWhole, IsRow, DishRow
        <4>. QED
          BY <1>1, <1>4, <2>2, <2>3, <2>4, <4>1 DEF IInv, TypeOK, CategoryOf
      <3>2. ASSUME NEW x \in Category \ {k}, IsRow(categories[x])
            PROVE  categories[x] # row
        <4>1. categories[x] # categories[k] /\ categories[x] \in CategoryRow
          BY <1>1, <1>4, <3>2 DEF IInv, TypeOK, CatalogueWhole, IsRow
        <4>2. CASE c.name = None
          BY <2>1, <4>1, <4>2 DEF CategoryRow
        <4>3. CASE c.name # None
          <5>1. row.name = c.name
            BY <2>1, <4>3 DEF CategoryRow
          <5>. QED
            BY <1>4, <2>2, <3>2, <4>3, <5>1 DEF NameTaken, CategoryOf
        <4>. QED
          BY <4>2, <4>3
      <3>3. ASSUME NEW x \in Category, NEW y \in Category, x # y,
                   IsRow(categories'[x]), IsRow(categories'[y])
            PROVE  categories'[x] # categories'[y]
        BY <1>4, <3>2, <3>3 DEF IInv, TypeOK, CatalogueWhole
      <3>. QED
        BY <2>4, <3>1, <3>3 DEF CatalogueWhole, IsRow
    <2>8. OnlyOf(c.by)
      <3>1. categories[k].restaurant = c.by
        BY <1>1, <1>4 DEF IInv, Asserted, NamesForeign, Foreign
      <3>2. Owners(categories[k], row) \subseteq {c.by}
        BY <2>2, <3>1 DEF Owners
      <3>. HIDE DEF row
      <3>. QED
        BY <1>1, <1>4, <2>4, <3>2 DEF IInv, TypeOK, OnlyOf
    <2>. QED
      BY <1>1, <1>4, <2>4, <2>5, <2>6, <2>7, <2>8, WriteKeeps DEF Confirm, Answer
  <1>. QED
    BY <1>2, <1>3, <1>4 DEF UpdateCategory

LEMMA DeleteCategoryStep ==
    ASSUME IInv, NEW q \in Request, DeleteCategory(q)
    PROVE  IInv' /\ OwnersAlone
  <1>. DEFINE c == call[q]
              k == c.category
  <1>1. pc[q] = "write" /\ c.op = "deleteCategory" /\ c \in Calls /\ k \in Category
    BY Fields DEF DeleteCategory, IInv, Placement
  <1>2. CASE Answer(q, "notFound") /\ UNCHANGED categories
    BY <1>1, <1>2, RefusalKeeps DEF DeleteCategory, tables
  <1>3. CASE Answer(q, "conflict") /\ UNCHANGED categories
    BY <1>1, <1>3, RefusalKeeps DEF DeleteCategory, tables
  <1>4. CASE /\ IsRow(categories[k]) /\ ~HoldsDishes(k)
             /\ Confirm(q)
             /\ categories' = [categories EXCEPT ![k] = Gone]
    <2>1. UNCHANGED <<dishes, ordered, call, seen, menu, touched>>
      BY DEF DeleteCategory
    <2>2. TypeOK'
      BY <1>4, <2>1 DEF IInv, TypeOK, Confirm, Answer
    <2>3. RowsKeepOwners
      BY <1>1, <1>4, <2>1 DEF IInv, TypeOK, RowsKeepOwners, KeepsOwner
    <2>4. CatalogueWhole'
      <3>1. ASSUME NEW d \in Dish, IsRow(dishes[d])
            PROVE  CategoryOf(dishes[d].restaurant, dishes[d].category)'
        <4>1. CategoryOf(dishes[d].restaurant, dishes[d].category) /\ dishes[d].category \in Category
          BY <3>1 DEF IInv, TypeOK, CatalogueWhole, IsRow, DishRow
        <4>2. dishes[d].category # k
          BY <1>4, <3>1 DEF HoldsDishes
        <4>. QED
          BY <1>4, <2>1, <4>1, <4>2 DEF IInv, TypeOK, CategoryOf
      <3>2. ASSUME NEW x \in Category, NEW y \in Category, x # y,
                   IsRow(categories'[x]), IsRow(categories'[y])
            PROVE  categories'[x] # categories'[y]
        <4>1. x # k /\ y # k
          BY <1>1, <1>4, <3>2 DEF IInv, TypeOK, IsRow
        <4>. QED
          BY <1>4, <3>2, <4>1 DEF IInv, TypeOK, CatalogueWhole
      <3>. QED
        BY <2>1, <3>1, <3>2 DEF CatalogueWhole, IsRow
    <2>5. OnlyOf(c.by)
      <3>1. categories[k].restaurant = c.by
        BY <1>1, <1>4 DEF IInv, Asserted, NamesForeign, Foreign
      <3>. QED
        BY <1>1, <1>4, <2>1, <3>1 DEF IInv, TypeOK, OnlyOf, Owners
    <2>. QED
      BY <1>1, <1>4, <2>1, <2>2, <2>3, <2>4, <2>5, WriteKeeps DEF Confirm, Answer
  <1>. QED
    BY <1>2, <1>3, <1>4 DEF DeleteCategory

\* Writing one dish that is filed correctly keeps the catalogue whole.
LEMMA DishWritten ==
    ASSUME IInv, NEW d \in Dish, NEW row \in DishRow, dishes' = [dishes EXCEPT ![d] = row],
           UNCHANGED categories, Filed(row.restaurant, row.category)
    PROVE  CatalogueWhole'
  <1>1. ASSUME NEW x \in Dish, IsRow(dishes'[x])
        PROVE  CategoryOf(dishes'[x].restaurant, dishes'[x].category)
    BY <1>1 DEF IInv, TypeOK, CatalogueWhole, Filed
  <1>. QED
    BY <1>1 DEF IInv, CatalogueWhole, CategoryOf, IsRow

LEMMA CreateItemStep ==
    ASSUME IInv, NEW q \in Request, CreateItem(q)
    PROVE  IInv' /\ OwnersAlone
  <1>. DEFINE c == call[q]
  <1>1. pc[q] = "write" /\ c.op = "createItem" /\ c \in Calls
    BY DEF CreateItem, IInv, Placement
  <1>2. CASE Answer(q, "conflict") /\ UNCHANGED <<dishes, touched>>
    BY <1>1, <1>2, RefusalKeeps DEF CreateItem, tables
  <1>3. CASE Filed(c.by, c.category) /\ Confirm(q)
    <2>. DEFINE row == [restaurant |-> c.by, category |-> c.category, available |-> c.available]
    <2>1. PICK d \in Dish : dishes[d] = None /\ dishes' = [dishes EXCEPT ![d] = row] /\ Touch({d})
      BY <1>3 DEF CreateItem, Confirm, Answer, IInv, TypeOK
    <2>2. row \in DishRow
      BY <1>1, Fields DEF DishRow
    <2>3. IsRow(row)
      BY <2>2, MenuAssumption DEF IsRow
    <2>4. UNCHANGED <<categories, ordered, call, seen, menu>>
      BY DEF CreateItem
    <2>5. TypeOK'
      BY <1>3, <2>1, <2>2, <2>4 DEF IInv, TypeOK, Confirm, Answer, Touch
    <2>6. RowsKeepOwners
      BY <2>1, <2>3, <2>4 DEF IInv, TypeOK, RowsKeepOwners, KeepsOwner
    <2>7. CatalogueWhole'
      BY <1>3, <2>1, <2>2, <2>4, DishWritten
    <2>8. OnlyOf(c.by)
      BY <2>1, <2>4 DEF IInv, TypeOK, OnlyOf, Owners
    <2>. QED
      BY <1>1, <1>3, <2>4, <2>5, <2>6, <2>7, <2>8, WriteKeeps DEF Confirm, Answer
  <1>. QED
    BY <1>2, <1>3 DEF CreateItem

LEMMA UpdateItemStep ==
    ASSUME IInv, NEW q \in Request, UpdateItem(q)
    PROVE  IInv' /\ OwnersAlone
  <1>. DEFINE c == call[q]
              d == c.dish
              row == Edited(dishes[d], c)
  <1>1. pc[q] = "write" /\ c.op = "updateItem" /\ c \in Calls /\ d \in Dish
    BY Fields DEF UpdateItem, IInv, Placement
  <1>2. CASE Answer(q, "notFound") /\ UNCHANGED <<dishes, touched>>
    BY <1>1, <1>2, RefusalKeeps DEF UpdateItem, tables
  <1>3. CASE Answer(q, "conflict") /\ UNCHANGED <<dishes, touched>>
    BY <1>1, <1>3, RefusalKeeps DEF UpdateItem, tables
  <1>4. CASE /\ IsRow(dishes[d])
             /\ c.category # None => Filed(dishes[d].restaurant, c.category)
             /\ Confirm(q)
             /\ dishes' = [dishes EXCEPT ![d] = row]
             /\ Touch({d})
    <2>1. dishes[d] \in DishRow
      BY <1>1, <1>4 DEF IInv, TypeOK, IsRow
    <2>2. /\ row \in DishRow
          /\ row.restaurant = dishes[d].restaurant
          /\ row.category = IF c.category = None THEN dishes[d].category ELSE c.category
      BY <1>1, <2>1, Fields DEF DishRow, Edited
    <2>3. IsRow(row)
      BY <2>2, MenuAssumption DEF IsRow
    <2>4. UNCHANGED <<categories, ordered, call, seen, menu>>
      BY DEF UpdateItem
    <2>5. Filed(row.restaurant, row.category)
      BY <1>1, <1>4, <2>2 DEF IInv, CatalogueWhole, Filed
    <2>6. dishes[d].restaurant = c.by
      BY <1>1, <1>4 DEF IInv, Asserted, NamesForeign, Foreign
    <2>7. Owners(dishes[d], row) \subseteq {c.by}
      BY <2>2, <2>6 DEF Owners
    <2>. HIDE DEF row
    <2>8. TypeOK'
      BY <1>1, <1>4, <2>2, <2>4 DEF IInv, TypeOK, Confirm, Answer, Touch
    <2>9. RowsKeepOwners
      BY <1>1, <1>4, <2>2, <2>3, <2>4 DEF IInv, TypeOK, RowsKeepOwners, KeepsOwner
    <2>10. CatalogueWhole'
      BY <1>1, <1>4, <2>2, <2>4, <2>5, DishWritten
    <2>11. OnlyOf(c.by)
      BY <1>1, <1>4, <2>4, <2>7 DEF IInv, TypeOK, OnlyOf
    <2>. QED
      BY <1>1, <1>4, <2>4, <2>8, <2>9, <2>10, <2>11, WriteKeeps DEF Confirm, Answer
  <1>. QED
    BY <1>2, <1>3, <1>4 DEF UpdateItem

LEMMA DeleteItemStep ==
    ASSUME IInv, NEW q \in Request, DeleteItem(q)
    PROVE  IInv' /\ OwnersAlone
  <1>. DEFINE c == call[q]
              d == c.dish
  <1>1. pc[q] = "write" /\ c.op = "deleteItem" /\ c \in Calls /\ d \in Dish
    BY Fields DEF DeleteItem, IInv, Placement
  <1>2. CASE Answer(q, "notFound") /\ UNCHANGED <<dishes, touched>>
    BY <1>1, <1>2, RefusalKeeps DEF DeleteItem, tables
  <1>3. CASE Answer(q, "conflict") /\ UNCHANGED <<dishes, touched>>
    BY <1>1, <1>3, RefusalKeeps DEF DeleteItem, tables
  <1>4. CASE /\ IsRow(dishes[d])
             /\ Confirm(q)
             /\ dishes' = [dishes EXCEPT ![d] = Gone]
             /\ Touch({d})
    <2>1. UNCHANGED <<categories, ordered, call, seen, menu>>
      BY DEF DeleteItem
    <2>2. TypeOK'
      BY <1>1, <1>4, <2>1 DEF IInv, TypeOK, Confirm, Answer, Touch
    <2>3. RowsKeepOwners
      BY <1>1, <1>4, <2>1 DEF IInv, TypeOK, RowsKeepOwners, KeepsOwner
    <2>4. CatalogueWhole'
      BY <1>1, <1>4, <2>1 DEF IInv, TypeOK, CatalogueWhole, CategoryOf, IsRow
    <2>5. dishes[d].restaurant = c.by
      BY <1>1, <1>4 DEF IInv, Asserted, NamesForeign, Foreign
    <2>6. OnlyOf(c.by)
      BY <1>1, <1>4, <2>1, <2>5 DEF IInv, TypeOK, OnlyOf, Owners
    <2>. QED
      BY <1>1, <1>4, <2>1, <2>2, <2>3, <2>4, <2>6, WriteKeeps DEF Confirm, Answer
  <1>. QED
    BY <1>2, <1>3, <1>4 DEF DeleteItem

-----------------------------------------------------------------------------
(***************************************************************************)
(* The reads, and the orders.                                              *)
(***************************************************************************)
LEMMA ListCategoriesStep ==
    ASSUME IInv, NEW q \in Request, ListCategories(q)
    PROVE  IInv'
  <1>1. TypeOK'
    BY DEF IInv, TypeOK, ListCategories, Goto, tables
  <1>2. Placement(q)' /\ Asserted(q)'
    BY DEF IInv, TypeOK, ListCategories, Goto, Placement, Asserted
  <1>3. \A r \in Request \ {q} : pc'[r] = pc[r] /\ call'[r] = call[r] /\ answer'[r] = answer[r]
    BY DEF IInv, TypeOK, ListCategories, Goto
  <1>4. UNCHANGED tables
    BY DEF ListCategories
  <1>. QED
    BY <1>1, <1>2, <1>3, <1>4, TablesStand, StepKeeps

LEMMA ListItemsStep ==
    ASSUME IInv, NEW q \in Request, ListItems(q)
    PROVE  IInv'
  <1>. DEFINE shown == {<<d, dishes[d].category>> : d \in {x \in Listed(call[q].at, call[q].onlyAvailable) :
                                                              dishes[x].category \in seen[q]}}
  <1>1. shown \subseteq Dish \X Category
    BY DEF Listed, DishOf, IsRow, DishRow, IInv, TypeOK
  <1>2. TypeOK'
    <2>1. menu' = [menu EXCEPT ![q] = shown] /\ Answer(q, "ok") /\ UNCHANGED <<tables, call, seen, touched>>
      BY DEF ListItems
    <2>. HIDE DEF shown
    <2>. QED
      BY <1>1, <2>1 DEF IInv, TypeOK, Answer, tables
  <1>3. call[q].op = "getFullMenu" /\ pc'[q] = "done" /\ call'[q] = call[q] /\ call[q] \in Calls
    BY DEF IInv, TypeOK, Placement, ListItems, Answer
  <1>4. Placement(q)' /\ Asserted(q)'
    BY <1>3 DEF Placement, Asserted, NamesForeign
  <1>5. \A r \in Request \ {q} : pc'[r] = pc[r] /\ call'[r] = call[r] /\ answer'[r] = answer[r]
    BY DEF IInv, TypeOK, ListItems, Answer
  <1>6. UNCHANGED tables
    BY DEF ListItems
  <1>. QED
    BY <1>2, <1>4, <1>5, <1>6, TablesStand, StepKeeps

\* A step after which the requests and the catalogue are as before.
LEMMA StandingStill ==
    ASSUME IInv, TypeOK', UNCHANGED <<categories, dishes, pc, call, answer>>
    PROVE  IInv'
  BY DEF IInv, CatalogueWhole, CategoryOf, IsRow, Placement, Asserted, NamesForeign, Foreign

LEMMA OrderDishStep ==
    ASSUME IInv, NEW d \in Dish, OrderDish(d)
    PROVE  IInv'
  <1>1. TypeOK'
    BY DEF IInv, TypeOK, OrderDish
  <1>. QED
    BY <1>1, StandingStill DEF OrderDish

\* A step that writes no row concerns no owner.
LEMMA NobodysRow ==
    ASSUME UNCHANGED <<categories, dishes>>
    PROVE  OwnersAlone
  BY DEF OwnersAlone

LEMMA InitInv ==
    ASSUME Init
    PROVE  IInv
  <1>1. TypeOK
    BY DEF Init, TypeOK
  <1>2. CatalogueWhole
    BY DEF Init, CatalogueWhole, Filed
  <1>. QED
    BY <1>1, <1>2 DEF Init, IInv, Placement, Asserted

LEMMA NextInv ==
    ASSUME IInv, [Next]_vars
    PROVE  IInv' /\ OwnersAlone
  <1>1. CASE UNCHANGED vars
    <2>1. TypeOK'
      BY <1>1 DEF IInv, TypeOK, vars
    <2>. QED
      BY <1>1, <2>1, StandingStill, NobodysRow DEF vars
  <1>2. ASSUME NEW d \in Dish, OrderDish(d)
        PROVE  IInv' /\ OwnersAlone
    BY <1>2, OrderDishStep, NobodysRow DEF OrderDish
  <1>3. ASSUME NEW r \in Request,
               Receive(r) \/ Fail(r) \/ AssertItemOwned(r) \/ AssertCategoryOwned(r)
                   \/ ListCategories(r) \/ ListItems(r)
        PROVE  IInv' /\ OwnersAlone
    <2>1. IInv'
      BY <1>3, ReceiveStep, FailStep, AssertItemOwnedStep, AssertCategoryOwnedStep,
         ListCategoriesStep, ListItemsStep
    <2>2. UNCHANGED <<categories, dishes>>
      BY <1>3 DEF Receive, Fail, AssertItemOwned, AssertCategoryOwned, ListCategories, ListItems, tables
    <2>. QED
      BY <2>1, <2>2, NobodysRow
  <1>4. ASSUME NEW r \in Request,
               CreateCategory(r) \/ UpdateCategory(r) \/ DeleteCategory(r)
                   \/ CreateItem(r) \/ UpdateItem(r) \/ DeleteItem(r)
        PROVE  IInv' /\ OwnersAlone
    BY <1>4, CreateCategoryStep, UpdateCategoryStep, DeleteCategoryStep,
       CreateItemStep, UpdateItemStep, DeleteItemStep
  <1>. QED
    BY <1>1, <1>2, <1>3, <1>4 DEF Next

-----------------------------------------------------------------------------
(***************************************************************************)
(* What is proved of every behaviour.                                      *)
(***************************************************************************)

\* The inductive invariant holds throughout, whatever calls the handlers of MenuService serve.
THEOREM Invariant == Spec => []IInv
  BY InitInv, NextInv, PTL DEF Spec

\* Every variable keeps its type, with any number of calls in flight.
THEOREM TypeCorrect == Spec => []TypeOK
  <1>1. IInv => TypeOK
    BY DEF IInv
  <1>. QED
    BY <1>1, Invariant, PTL

\* Stale assertions of MenuService never break the catalogue: its keys hold in every state.
THEOREM Whole == Spec => []CatalogueWhole
  <1>1. IInv => CatalogueWhole
    BY DEF IInv
  <1>. QED
    BY <1>1, Invariant, PTL

\* No call of MenuService changes a row of another restaurant.
THEOREM OwnRowsOnly == Spec => OnlyOwnersWrite
  <1>1. IInv /\ [Next]_vars => OwnersAlone
    BY NextInv
  <1>. QED
    BY <1>1, Invariant, PTL DEF Spec, OnlyOwnersWrite

\* No answer tells another restaurant's categories and dishes from ones that do not exist.
THEOREM Unseen == Spec => []ForeignIsNotFound
  <1>1. IInv => ForeignIsNotFound
    BY DEF IInv, Asserted, ForeignIsNotFound
  <1>. QED
    BY <1>1, Invariant, PTL

-----------------------------------------------------------------------------
(***************************************************************************)
(* The menu.  A dish that nobody changed since the call came in is, at the *)
(* second query, in a category that the first one has seen: at that time   *)
(* the dish was already filed there, and the key kept the category.        *)
(***************************************************************************)
SeenEnough(r) ==
    pc[r] = "items" =>
        \A d \in Dish \ touched[r] : DishOf(call[r].at, d) => dishes[d].category \in seen[r]

Shown(r) ==
    pc[r] = "done" /\ call[r].op = "getFullMenu" /\ answer[r] = "ok" =>
        \A d \in Dish \ touched[r], c \in Category :
            <<d, c>> \in menu[r] <=>
                /\ DishOf(call[r].at, d) /\ dishes[d].category = c
                /\ call[r].onlyAvailable => dishes[d].available

MInv == IInv /\ \A r \in Request : SeenEnough(r) /\ Shown(r)

\* Once a request has come in, every dish that changes is noted.
LEMMA ChangesNoted ==
    ASSUME IInv, [Next]_vars, NEW r \in Request, pc[r] # "idle"
    PROVE  /\ touched[r] \subseteq touched'[r]
           /\ \A d \in Dish \ touched'[r] : dishes'[d] = dishes[d]
           /\ call'[r] = call[r]
  <1>1. CASE UNCHANGED <<dishes, touched, call>>
    BY <1>1
  <1>2. ASSUME NEW q \in Request, CreateItem(q) \/ UpdateItem(q) \/ DeleteItem(q)
        PROVE  /\ UNCHANGED call
               /\ \/ UNCHANGED <<dishes, touched>>
                  \/ \E d \in Dish : \E row : dishes' = [dishes EXCEPT ![d] = row] /\ Touch({d})
    <2>1. call[q] \in Calls
      BY <1>2 DEF IInv, Placement, CreateItem, UpdateItem, DeleteItem
    <2>. QED
      BY <1>2, <2>1, Fields DEF CreateItem, UpdateItem, DeleteItem
  <1>3. ASSUME UNCHANGED call, NEW d \in Dish, NEW row, dishes' = [dishes EXCEPT ![d] = row], Touch({d})
        PROVE  /\ touched[r] \subseteq touched'[r]
               /\ \A x \in Dish \ touched'[r] : dishes'[x] = dishes[x]
               /\ call'[r] = call[r]
    BY <1>3 DEF IInv, TypeOK, Touch
  <1>4. ASSUME NEW q \in Request, Receive(q)
        PROVE  UNCHANGED <<dishes, touched>> /\ call'[r] = call[r]
    BY <1>4 DEF IInv, TypeOK, Receive, tables
  <1>5. ASSUME NEW q \in Request,
               Fail(q) \/ AssertItemOwned(q) \/ AssertCategoryOwned(q) \/ CreateCategory(q)
                   \/ UpdateCategory(q) \/ DeleteCategory(q) \/ ListCategories(q) \/ ListItems(q)
        PROVE  UNCHANGED <<dishes, touched, call>>
    BY <1>5 DEF Fail, AssertItemOwned, AssertCategoryOwned, CreateCategory, UpdateCategory,
                DeleteCategory, ListCategories, ListItems, tables
  <1>. QED
    BY <1>1, <1>2, <1>3, <1>4, <1>5 DEF Next, OrderDish, vars

\* Apart from its two queries a request's reading stands.
Standing(r) ==
    /\ pc'[r] = "items" => pc[r] = "items" /\ seen'[r] = seen[r]
    /\ pc'[r] = "done" /\ call'[r].op = "getFullMenu" /\ answer'[r] = "ok" =>
           pc[r] = "done" /\ answer[r] = "ok" /\ menu'[r] = menu[r]

LEMMA ReadingStands ==
    ASSUME IInv, [Next]_vars, NEW r \in Request
    PROVE  ListCategories(r) \/ ListItems(r) \/ Standing(r)
  <1>1. CASE UNCHANGED vars \/ \E d \in Dish : OrderDish(d)
    BY <1>1 DEF vars, OrderDish, Standing
  <1>2. ASSUME NEW q \in Request, Receive(q)
        PROVE  Standing(r)
    <2>1. PICK c \in Calls :
              /\ call' = [call EXCEPT ![q] = c]
              /\ IF FirstStep(c) = "refused" THEN Answer(q, "notFound") ELSE Goto(q, FirstStep(c))
      BY <1>2 DEF Receive
    <2>2. FirstStep(c) \in {"refused", "write", "category", "item", "categories"}
      BY Fields DEF FirstStep
    <2>. QED
      BY <1>2, <2>1, <2>2 DEF Receive, Standing, IInv, TypeOK, Answer, Goto
  <1>3. ASSUME NEW q \in Request, Fail(q) \/ AssertItemOwned(q) \/ AssertCategoryOwned(q)
        PROVE  Standing(r)
    BY <1>3 DEF Fail, AssertItemOwned, AssertCategoryOwned, Standing, IInv, TypeOK, Answer, Goto
  <1>4. ASSUME NEW q \in Request,
               CreateCategory(q) \/ UpdateCategory(q) \/ DeleteCategory(q)
                   \/ CreateItem(q) \/ UpdateItem(q) \/ DeleteItem(q)
        PROVE  Standing(r)
    <2>1. call[q].op # "getFullMenu" /\ UNCHANGED <<call, seen, menu>> /\ \E a : Answer(q, a)
      BY <1>4 DEF CreateCategory, UpdateCategory, DeleteCategory, CreateItem, UpdateItem, DeleteItem,
                  Confirm
    <2>. QED
      BY <2>1 DEF Standing, IInv, TypeOK, Answer
  <1>5. ASSUME NEW q \in Request \ {r}, ListCategories(q) \/ ListItems(q)
        PROVE  Standing(r)
    BY <1>5 DEF ListCategories, ListItems, Standing, IInv, TypeOK, Answer, Goto
  <1>. QED
    BY <1>1, <1>2, <1>3, <1>4, <1>5 DEF Next

LEMMA MenuStep ==
    ASSUME MInv, [Next]_vars, NEW r \in Request
    PROVE  SeenEnough(r)' /\ Shown(r)'
  <1>1. IInv /\ IInv' /\ SeenEnough(r) /\ Shown(r)
    BY NextInv DEF MInv
  <1>2. CASE ListCategories(r)
    <2>1. /\ pc'[r] = "items" /\ call'[r] = call[r] /\ UNCHANGED <<dishes, categories>>
          /\ seen'[r] = {c \in Category : CategoryOf(call[r].at, c)}
      BY <1>1, <1>2 DEF ListCategories, Goto, IInv, TypeOK, tables
    <2>2. ASSUME NEW d \in Dish, DishOf(call[r].at, d)
          PROVE  dishes[d].category \in seen'[r]
      BY <1>1, <2>1, <2>2 DEF IInv, TypeOK, CatalogueWhole, DishOf, IsRow, DishRow
    <2>. QED
      BY <2>1, <2>2 DEF SeenEnough, Shown, DishOf, IsRow
  <1>3. CASE ListItems(r)
    <2>1. /\ pc[r] = "items" /\ pc'[r] = "done" /\ UNCHANGED <<dishes, call, touched>>
          /\ menu'[r] = {<<d, dishes[d].category>> :
                             d \in {x \in Listed(call[r].at, call[r].onlyAvailable) :
                                        dishes[x].category \in seen[r]}}
      BY <1>1, <1>3 DEF ListItems, Answer, IInv, TypeOK, tables
    <2>2. ASSUME NEW d \in Dish \ touched[r], NEW c \in Category
          PROVE  <<d, c>> \in menu'[r] <=>
                     /\ DishOf(call[r].at, d) /\ dishes[d].category = c
                     /\ call[r].onlyAvailable => dishes[d].available
      BY <1>1, <2>1 DEF SeenEnough, Listed
    <2>. QED
      BY <2>1, <2>2 DEF SeenEnough, Shown, DishOf, IsRow
  <1>4. CASE Standing(r)
    <2>1. CASE pc[r] = "idle"
      BY <1>4, <2>1 DEF Standing, SeenEnough, Shown
    <2>2. CASE pc[r] # "idle"
      <3>1. /\ touched[r] \subseteq touched'[r] /\ call'[r] = call[r]
            /\ \A d \in Dish \ touched'[r] : dishes'[d] = dishes[d]
        BY <1>1, <2>2, ChangesNoted
      <3>2. SeenEnough(r)'
        BY <1>1, <1>4, <3>1 DEF Standing, SeenEnough, DishOf, IsRow
      <3>3. Shown(r)'
        <4>1. SUFFICES ASSUME pc'[r] = "done", call[r].op = "getFullMenu", answer'[r] = "ok",
                              NEW d \in Dish \ touched'[r], NEW c \in Category
                       PROVE  <<d, c>> \in menu'[r] <=>
                                  /\ DishOf(call[r].at, d)' /\ dishes'[d].category = c
                                  /\ call[r].onlyAvailable => dishes'[d].available
          BY <3>1 DEF Shown, DishOf, IsRow
        <4>2. d \in Dish \ touched[r] /\ dishes'[d] = dishes[d]
          BY <3>1
        <4>3. pc[r] = "done" /\ answer[r] = "ok" /\ menu'[r] = menu[r]
          BY <1>4, <3>1, <4>1 DEF Standing
        <4>. QED
          BY <1>1, <3>1, <4>1, <4>2, <4>3 DEF Shown, DishOf, IsRow
      <3>. QED
        BY <3>2, <3>3
    <2>. QED
      BY <2>1, <2>2
  <1>. QED
    BY <1>1, <1>2, <1>3, <1>4, ReadingStands

\* The two queries of GetFullMenu miss and misfile no dish that is left alone meanwhile.
THEOREM MenuShown == Spec => []StandingDishesShown
  <1>1. Init => MInv
    BY InitInv DEF Init, MInv, SeenEnough, Shown
  <1>2. MInv /\ [Next]_vars => MInv'
    BY NextInv, MenuStep DEF MInv
  <1>3. MInv => StandingDishesShown
    BY DEF MInv, Shown, StandingDishesShown
  <1>. QED
    BY <1>1, <1>2, <1>3, PTL DEF Spec

-----------------------------------------------------------------------------
(***************************************************************************)
(* Conflicts.  When a statement files a dish, its request has asserted     *)
(* that the category and the dish are its restaurant's, so the key can     *)
(* refuse it for one reason only, and what is deleted stays deleted.       *)
(***************************************************************************)
Clashed(r) ==
    pc[r] = "done" /\ answer[r] = "conflict" /\ call[r].op \in {"createItem", "updateItem"} =>
        call[r].category \in Category /\ categories[call[r].category] = Gone

CInv == IInv /\ \A r \in Request : Clashed(r)

LEMMA GoneForGood ==
    ASSUME IInv, [Next]_vars, NEW c \in Category, categories[c] = Gone
    PROVE  categories'[c] = Gone
  <1>1. ASSUME NEW q \in Request, CreateCategory(q) PROVE categories'[c] = Gone
    <2>1. \/ categories' = categories
          \/ \E k \in Category : categories[k] = None /\
                 \E row : categories' = [categories EXCEPT ![k] = row]
      BY <1>1 DEF CreateCategory
    <2>. QED
      BY <2>1, MenuAssumption DEF IInv, TypeOK
  <1>2. ASSUME NEW q \in Request, UpdateCategory(q) PROVE categories'[c] = Gone
    <2>. DEFINE k == call[q].category
    <2>1. \/ categories' = categories
          \/ IsRow(categories[k]) /\ \E row : categories' = [categories EXCEPT ![k] = row]
      BY <1>2 DEF UpdateCategory
    <2>. QED
      BY <2>1 DEF IsRow, IInv, TypeOK
  <1>3. ASSUME NEW q \in Request, DeleteCategory(q) PROVE categories'[c] = Gone
    <2>1. categories' = categories \/ categories' = [categories EXCEPT ![call[q].category] = Gone]
      BY <1>3 DEF DeleteCategory
    <2>. QED
      BY <2>1 DEF IInv, TypeOK
  <1>4. \/ UNCHANGED categories
        \/ \E q \in Request : CreateCategory(q) \/ UpdateCategory(q) \/ DeleteCategory(q)
    BY DEF Next, vars, OrderDish, Receive, Fail, AssertItemOwned, AssertCategoryOwned, CreateItem,
           UpdateItem, DeleteItem, ListCategories, ListItems, tables
  <1>. QED
    BY <1>1, <1>2, <1>3, <1>4

\* The key refuses to file a dish only under a category that is gone.
LEMMA Refused ==
    ASSUME IInv, NEW r \in Request, CreateItem(r) \/ UpdateItem(r), answer'[r] = "conflict"
    PROVE  call[r].category \in Category /\ categories[call[r].category] = Gone
  <1>. DEFINE c == call[r]
  <1>1. pc[r] = "write" /\ c \in Calls /\ ~NamesForeign(c) /\ c.op \in {"createItem", "updateItem"}
    BY DEF CreateItem, UpdateItem, IInv, Placement, Asserted
  <1>2. ASSUME NEW k \in Category, ~Foreign(categories[k], c.by), ~CategoryOf(c.by, k)
        PROVE  categories[k] = Gone
    BY <1>2 DEF IInv, TypeOK, Foreign, CategoryOf, IsRow
  <1>3. \A a : Answer(r, a) => answer'[r] = a
    BY DEF Answer, IInv, TypeOK
  <1>4. CASE CreateItem(r)
    <2>1. ~Filed(c.by, c.category)
      BY <1>3, <1>4 DEF CreateItem, Confirm
    <2>2. c.op = "createItem" /\ c.category \in Category
      BY <1>1, <1>4, Fields DEF CreateItem
    <2>3. ~Foreign(categories[c.category], c.by)
      BY <1>1, <2>2 DEF NamesForeign
    <2>. QED
      BY <1>2, <2>1, <2>2, <2>3 DEF Filed
  <1>5. CASE UpdateItem(r)
    <2>1. /\ IsRow(dishes[c.dish]) /\ c.category # None
          /\ ~Filed(dishes[c.dish].restaurant, c.category)
      BY <1>3, <1>5 DEF UpdateItem, Confirm
    <2>2. c.op = "updateItem" /\ c.category \in Category
      BY <1>1, <1>5, <2>1, Fields DEF UpdateItem
    <2>3. ~Foreign(categories[c.category], c.by) /\ dishes[c.dish].restaurant = c.by
      BY <1>1, <2>1, <2>2 DEF NamesForeign, Foreign
    <2>. QED
      BY <1>2, <2>1, <2>2, <2>3 DEF Filed
  <1>. QED
    BY <1>4, <1>5

\* Every other step leaves the conflicts there are.
SameConflict(r) ==
    pc'[r] = "done" /\ answer'[r] = "conflict" /\ call'[r].op \in {"createItem", "updateItem"} =>
        pc[r] = "done" /\ answer[r] = "conflict" /\ call'[r] = call[r]

LEMMA ConflictsStand ==
    ASSUME IInv, [Next]_vars, NEW r \in Request
    PROVE  CreateItem(r) \/ UpdateItem(r) \/ SameConflict(r)
  <1>1. CASE UNCHANGED vars \/ \E d \in Dish : OrderDish(d)
    BY <1>1 DEF vars, OrderDish, SameConflict
  <1>2. ASSUME NEW q \in Request, Receive(q)
        PROVE  SameConflict(r)
    <2>1. PICK c \in Calls :
              /\ call' = [call EXCEPT ![q] = c]
              /\ IF FirstStep(c) = "refused" THEN Answer(q, "notFound") ELSE Goto(q, FirstStep(c))
      BY <1>2 DEF Receive
    <2>2. FirstStep(c) \in {"refused", "write", "category", "item", "categories"}
      BY Fields DEF FirstStep
    <2>. QED
      BY <1>2, <2>1, <2>2 DEF Receive, SameConflict, IInv, TypeOK, Answer, Goto
  <1>3. ASSUME NEW q \in Request, Fail(q) \/ AssertItemOwned(q) \/ AssertCategoryOwned(q)
        PROVE  SameConflict(r)
    BY <1>3 DEF Fail, AssertItemOwned, AssertCategoryOwned, SameConflict, IInv, TypeOK, Answer, Goto
  <1>4. ASSUME NEW q \in Request, CreateCategory(q) \/ UpdateCategory(q) \/ DeleteCategory(q) \/ DeleteItem(q)
        PROVE  SameConflict(r)
    <2>1. call[q].op \notin {"createItem", "updateItem"} /\ UNCHANGED call /\ \E a : Answer(q, a)
      BY <1>4 DEF CreateCategory, UpdateCategory, DeleteCategory, DeleteItem, Confirm
    <2>. QED
      BY <2>1 DEF SameConflict, IInv, TypeOK, Answer
  <1>5. ASSUME NEW q \in Request \ {r}, CreateItem(q) \/ UpdateItem(q)
        PROVE  SameConflict(r)
    <2>1. UNCHANGED call /\ \E a : Answer(q, a)
      BY <1>5 DEF CreateItem, UpdateItem, Confirm
    <2>. QED
      BY <2>1 DEF SameConflict, IInv, TypeOK, Answer
  <1>6. ASSUME NEW q \in Request, ListCategories(q) \/ ListItems(q)
        PROVE  SameConflict(r)
    BY <1>6 DEF ListCategories, ListItems, SameConflict, IInv, TypeOK, Answer, Goto
  <1>. QED
    BY <1>1, <1>2, <1>3, <1>4, <1>5, <1>6 DEF Next

LEMMA ClashedStep ==
    ASSUME IInv, [Next]_vars, NEW r \in Request, Clashed(r)
    PROVE  Clashed(r)'
  <1>1. CASE CreateItem(r) \/ UpdateItem(r)
    <2>1. call'[r] = call[r] /\ UNCHANGED categories
      BY <1>1 DEF CreateItem, UpdateItem
    <2>. QED
      BY <1>1, <2>1, Refused DEF Clashed
  <1>2. CASE SameConflict(r)
    BY <1>2, GoneForGood DEF SameConflict, Clashed
  <1>. QED
    BY <1>1, <1>2, ConflictsStand

\* A restaurant that files a dish and is told of a conflict has lost the category to a deletion that
\* raced its call; nothing else ever comes of the key (menu_service.go, menu_repo.go).
THEOREM Conflicts == Spec => []ConflictMeansDeleted
  <1>1. Init => CInv
    BY InitInv DEF Init, CInv, Clashed
  <1>2. CInv /\ [Next]_vars => CInv'
    BY NextInv, ClashedStep DEF CInv
  <1>3. CInv => ConflictMeansDeleted
    BY DEF CInv, Clashed, ConflictMeansDeleted
  <1>. QED
    BY <1>1, <1>2, <1>3, PTL DEF Spec
=============================================================================
