---------------------------- MODULE MCMenuService ---------------------------
(***************************************************************************)
(* A small instance of MenuService for TLC: two restaurants, one with two  *)
(* categories and a dish.                                                  *)
(***************************************************************************)
EXTENDS MenuService, TLC

CONSTANTS R1, R2, c1, c2, c3, c4, d1, d2, n1, n2

MCRestaurant == {R1, R2}
MCCategory == {c1, c2, c3, c4}
MCDish == {d1, d2}
MCName == {n1, n2}

MCCalls ==
    [op: {"createCategory"}, by: {R1}, at: MCRestaurant, name: {n1}]
    \cup [op: {"updateCategory"}, by: MCRestaurant, category: {c1}, name: {n2, None}]
    \cup [op: {"deleteCategory"}, by: {R1}, category: {c1, c2, c3}]
    \cup [op: {"createItem"}, by: MCRestaurant, at: {R1}, category: {c2, c3}, available: {TRUE}]
    \cup [op: {"updateItem"}, by: MCRestaurant, dish: {d1}, category: {c2, c3, None}, available: {FALSE, None}]
    \cup [op: {"deleteItem"}, by: {R1}, dish: {d1}]
    \cup [op: {"getFullMenu"}, at: {R1}, onlyAvailable: BOOLEAN]

\* R1 has c1 and c2, R2 has c3; c4 and d2 are still to be issued.
MCInit ==
    /\ Init
    /\ categories = c1 :> [restaurant |-> R1, name |-> n1] @@ c2 :> [restaurant |-> R1, name |-> n2]
                    @@ c3 :> [restaurant |-> R2, name |-> n1] @@ c4 :> None
    /\ dishes = d1 :> [restaurant |-> R1, category |-> c1, available |-> TRUE] @@ d2 :> None

MCSpec == MCInit /\ [][Next]_vars

Symmetry == Permutations(Request)
=============================================================================
