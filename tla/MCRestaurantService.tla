------------------------- MODULE MCRestaurantService ------------------------
(***************************************************************************)
(* A small instance of RestaurantService for TLC: two old restaurants, one *)
(* of them without a key, three dishes of one name, three orders of which  *)
(* one is still to be placed, and one client reading any of the lists.     *)
(***************************************************************************)
EXTENDS RestaurantService, TLC

MCRow == 1 .. 4

MCDishes == [d \in 1 .. 3 |-> [listed |-> d # 3, name |-> 1]]

MCRestaurantOf == [d \in 1 .. 3 |-> IF d = 1 THEN 1 ELSE 2]

MCOrders == [o \in 1 .. 3 |->
    [state |-> IF o = 3 THEN "absent" ELSE "stored", status |-> "created",
     at |-> IF o = 3 THEN 0 ELSE o]]

MCQuery == {ListRestaurants, SearchItems, ListOrders("any"), ListOrders("created")}

Edit(key, x, fields, active) ==
    [op |-> "Update", key |-> key, id |-> x, fields |-> fields, active |-> active]

MCCalls ==
    {[op |-> "Create", token |-> t] : t \in BOOLEAN}
    \cup {Edit(2, 2, {"active"}, a) : a \in BOOLEAN}
    \cup {Edit(2, 1, {"active"}, FALSE), Edit(NoKey, 1, {"active"}, FALSE),
          Edit(3, 3, {"active"}, FALSE), Edit(2, 2, {}, TRUE)}
=============================================================================
