--------------------------- MODULE OrderRowsProofs --------------------------
(***************************************************************************)
(* Proofs about the rows the transactions of OrderService share, for any   *)
(* number of requests and dishes: the portions on the shelves and in the   *)
(* live orders add up, and requests never wait for each other in a circle. *)
(***************************************************************************)
EXTENDS OrderServiceProofs, FiniteSetTheorems, WellFoundedInduction

-----------------------------------------------------------------------------
(***************************************************************************)
(* Counting portions.                                                      *)
(***************************************************************************)

LEMMA CountPortions ==
    ASSUME NEW o, NEW n \in Nat
    PROVE  IsFiniteSet({o} \X (1 .. n)) /\ Cardinality({o} \X (1 .. n)) = n
<1>1. IsFiniteSet(1 .. n) /\ Cardinality(1 .. n) = n
    BY FS_Interval
<1>2. IsFiniteSet({o}) /\ Cardinality({o}) = 1
    BY FS_Singleton
<1>3. IsFiniteSet({o} \X (1 .. n)) /\ Cardinality({o} \X (1 .. n)) = 1 * n
    BY <1>1, <1>2, FS_Product
<1> QED
    BY <1>3

LEMMA MorePortions ==
    ASSUME NEW S, IsFiniteSet(S), NEW P, IsFiniteSet(P), S \cap P = {}
    PROVE  IsFiniteSet(S \cup P) /\ Cardinality(S \cup P) = Cardinality(S) + Cardinality(P)
<1>1. Cardinality(S \cap P) = 0
    BY FS_EmptySet
<1>2. IsFiniteSet(S \cup P) /\ Cardinality(S \cup P) = Cardinality(S) + Cardinality(P) - Cardinality(S \cap P)
    BY FS_Union
<1>3. Cardinality(S) \in Nat /\ Cardinality(P) \in Nat
    BY FS_CardinalityType
<1> QED
    BY <1>1, <1>2, <1>3

LEMMA FewerPortions ==
    ASSUME NEW S, IsFiniteSet(S), NEW P, P \subseteq S
    PROVE  IsFiniteSet(S \ P) /\ Cardinality(S \ P) = Cardinality(S) - Cardinality(P)
<1>1. S \cap P = P
    OBVIOUS
<1> QED
    BY <1>1, FS_Difference

-----------------------------------------------------------------------------
(***************************************************************************)
(* Stock.                                                                  *)
(***************************************************************************)

HeldOf(d) == UNION {HeldBy(o, d) : o \in Request}

\* The sum, for a dish that was deleted too.
ShelfInv(d) ==
    /\ IsFiniteSet(HeldOf(d))
    /\ menu[d].stock + Cardinality(HeldOf(d)) = supply[d]

\* A step that changes neither orders nor the difference of shelf and supply.
LEMMA SameOrders ==
    ASSUME NEW d \in Dish, ShelfInv(d), orders' = orders,
           menu[d].stock \in Int, menu'[d].stock \in Int, supply[d] \in Int, supply'[d] \in Int,
           menu'[d].stock - supply'[d] = menu[d].stock - supply[d]
    PROVE  ShelfInv(d)'
<1>1. HeldOf(d)' = HeldOf(d)
    BY DEF HeldOf, HeldBy
<1>2. Cardinality(HeldOf(d)) \in Nat
    BY FS_CardinalityType DEF ShelfInv
<1> DEFINE n == Cardinality(HeldOf(d))
<1>3. n \in Nat /\ menu[d].stock + n = supply[d]
    BY <1>2 DEF ShelfInv
<1> HIDE DEF n
<1>4. menu'[d].stock + n = supply'[d]
    BY <1>3
<1> QED
    BY <1>1, <1>4, Zenon DEF ShelfInv, n

\* What the commit does to the portions its order holds.
LEMMA CommitHolds ==
    ASSUME IInv, NEW r \in Request, Commit(r), NEW d \in Dish
    PROVE  LET t == Target(r)
           IN  \/ /\ HeldBy(t, d) = {}
                  /\ \E n \in Nat : delta[r][d] = 0 - n /\ HeldBy(t, d)' = {t} \X (1 .. n)
               \/ /\ HeldBy(t, d)' = {}
                  /\ \E n \in Nat : delta[r][d] = n /\ HeldBy(t, d) = {t} \X (1 .. n)
               \/ HeldBy(t, d)' = HeldBy(t, d) /\ delta[r][d] = 0
<1> DEFINE t == Target(r)
<1>1. /\ pc[r] = "commit" /\ t \in Request /\ orders'[t] = draft[r] /\ draft[r] # None
      /\ draft[r] \in Order
    BY CommitWrites, CommitKnows, NoneAssumption DEF IInv, TypeOK
<1>2. \A o \in Order : o.qty[d] \in Nat /\ (d \notin Basket(o.qty) => o.qty[d] = 0)
    BY DEF Order, Quantities, Basket
<1>a. Target(r)' = Target(r)
    BY CommitWrites DEF Target
<1>3. CASE call[r].op = "CreateOrder"
    <2>1. /\ orders[t] = None /\ draft[r] = NewOrder(r) /\ CheckoutInv(r)
        BY <1>1, <1>3, CommitKnows DEF StatusOps
    <2>2. NewOrder(r).status = "created" /\ NewOrder(r).qty = call[r].qty
        BY DEF NewOrder
    <2>3. delta[r][d] = 0 - draft[r].qty[d]
        <3>1. CASE d \in Basket(call[r].qty)
            BY <1>1, <2>1, <2>2, <3>1 DEF CheckoutInv, Taken
        <3>2. CASE d \notin Basket(call[r].qty)
            BY <1>1, <1>2, <2>1, <2>2, <3>2 DEF CheckoutInv
        <3> QED
            BY <3>1, <3>2
    <2>4. HeldBy(t, d) = {}
        BY <2>1 DEF HeldBy
    <2>5. HeldBy(t, d)' = {t} \X (1 .. draft[r].qty[d])
        BY <1>1, <1>a, <2>1, <2>2 DEF HeldBy, Live
    <2> QED
        BY <1>1, <1>2, <2>3, <2>4, <2>5
<1>4. CASE call[r].op \in StatusOps
    <2>1. /\ OrderHeld(r) /\ Written(r) /\ t = call[r].order /\ got[r] \in Order
          /\ draft[r] = Restated(r)
        BY <1>1, <1>4, CommitKnows DEF StatusOps
    <2>2. /\ got[r] = orders[t] /\ orders[t] # None /\ OrderRefusal(r) = ""
          /\ draft[r].status = NewStatus(r) /\ draft[r].qty = got[r].qty
        <3>1. got[r] = orders[t] /\ orders[t] # None
            BY <2>1, Zenon DEF OrderHeld
        <3>2. Restated(r).status = NewStatus(r) /\ Restated(r).qty = got[r].qty
            BY DEF Restated
        <3>3. OrderRefusal(r) = ""
            BY <2>1 DEF Written
        <3> QED
            BY <2>1, <3>1, <3>2, <3>3, Zenon
    <2>3. Live(got[r].status)
        BY <2>2, OrderRefusalNone
           DEF Live, CanBeCancelledBy, CanTransitionTo, cancellableBy, forwardTransitions
    <2>4. HeldBy(t, d) = {t} \X (1 .. got[r].qty[d])
        BY <2>2, <2>3 DEF HeldBy
    <2>5. CASE NewStatus(r) = "cancelled"
        <3>1. delta[r][d] = got[r].qty[d]
            <4>1. CASE d \in Basket(got[r].qty)
                BY <2>1, <2>5, <4>1 DEF Written, Returned, Restocked
            <4>2. CASE d \notin Basket(got[r].qty)
                BY <1>2, <2>1, <2>5, <4>2 DEF Written, Returned
            <4> QED
                BY <4>1, <4>2
        <3>2. HeldBy(t, d)' = {}
            BY <1>1, <1>a, <2>2, <2>5 DEF HeldBy, Live
        <3> QED
            BY <1>2, <2>1, <2>4, <3>1, <3>2
    <2>6. CASE NewStatus(r) # "cancelled"
        <3>1. delta[r][d] = 0
            BY <2>1, <2>6 DEF Written, Returned
        <3>2. HeldBy(t, d)' = {t} \X (1 .. got[r].qty[d])
            BY <1>1, <1>a, <2>2, <2>6 DEF HeldBy, Live
        <3> QED
            BY <2>4, <3>1, <3>2
    <2> QED
        BY <2>5, <2>6
<1> QED
    BY <1>1, <1>3, <1>4, CommitKnows

LEMMA CommitShelves ==
    ASSUME IInv, NEW r \in Request, Commit(r), NEW d \in Dish, ShelfInv(d)
    PROVE  ShelfInv(d)'
<1> DEFINE t == Target(r)
           rest == UNION {HeldBy(o, d) : o \in Request \ {t}}
           m == menu[d].stock
           m2 == menu'[d].stock
<1>1. /\ pc[r] = "commit" /\ t \in Request /\ Target(r)' = t
      /\ \A o \in Request : o # t => orders'[o] = orders[o]
    <2>1. pc[r] = "commit" /\ orders' = [orders EXCEPT ![t] = draft[r]] /\ call' = call
        BY CommitWrites
    <2>2. t \in Request /\ orders \in [Request -> Order \cup {None}]
        BY <2>1, CommitKnows DEF IInv, TypeOK
    <2>3. Target(r)' = t
        BY <2>1, Zenon DEF Target
    <2> QED
        BY <2>1, <2>2, <2>3
<1>2. \A o \in Request \ {t} : HeldBy(o, d)' = HeldBy(o, d)
    BY <1>1 DEF HeldBy
<1>3. HeldOf(d) = rest \cup HeldBy(t, d) /\ HeldOf(d)' = rest \cup HeldBy(t, d)'
    <2>1. HeldOf(d) = rest \cup HeldBy(t, d)
        BY <1>1 DEF HeldOf
    <2>2. HeldOf(d)' = UNION {HeldBy(o, d)' : o \in Request}
        BY Zenon DEF HeldOf
    <2>3. UNION {HeldBy(o, d)' : o \in Request} = rest \cup HeldBy(t, d)'
        BY <1>1, <1>2
    <2> QED
        BY <2>1, <2>2, <2>3, <1>1
<1>4. \A n \in Nat : rest \cap ({t} \X (1 .. n)) = {}
    BY DEF HeldBy
<1>5. m2 = m + delta[r][d] /\ m \in Int /\ supply' = supply /\ supply[d] \in Int
    <2>1. menu[d] \in Row /\ menu'[d] = Stocked(menu[d], OwnStock(r, d)) /\ OwnStock(r, d) \in Portions
        BY <1>1, CommitWrites, CommitKnows DEF IInv, TypeOK
    <2> QED
        BY <2>1, StockedRow, RowStock, CommitWrites DEF OwnStock, IInv, TypeOK
<1>6. IsFiniteSet(HeldOf(d)) /\ m + Cardinality(HeldOf(d)) = supply[d]
    BY DEF ShelfInv
<1> SUFFICES IsFiniteSet(HeldOf(d)') /\ m2 + Cardinality(HeldOf(d)') = supply[d]
    BY <1>5 DEF ShelfInv
<1> DEFINE H == HeldOf(d)
           H2 == HeldOf(d)'
           del == delta[r][d]
<1> HIDE DEF m, m2, rest, H, H2, del
<1>7. CASE /\ HeldBy(t, d) = {}
           /\ \E n \in Nat : delta[r][d] = 0 - n /\ HeldBy(t, d)' = {t} \X (1 .. n)
    <2>1. PICK n \in Nat : delta[r][d] = 0 - n /\ HeldBy(t, d)' = {t} \X (1 .. n)
        BY <1>7
    <2>2. H = rest /\ H2 = H \cup ({t} \X (1 .. n)) /\ H \cap ({t} \X (1 .. n)) = {}
        BY <1>3, <1>4, <1>7, <2>1 DEF H, H2
    <2>3. IsFiniteSet({t} \X (1 .. n)) /\ Cardinality({t} \X (1 .. n)) = n
        BY CountPortions
    <2>4. IsFiniteSet(H2) /\ Cardinality(H2) = Cardinality(H) + n
        BY <1>6, <2>2, <2>3, MorePortions DEF H
    <2>5. Cardinality(H) \in Nat
        BY <1>6, FS_CardinalityType DEF H
    <2> QED
        BY <1>5, <1>6, <2>1, <2>4, <2>5 DEF H, H2
<1>8. CASE /\ HeldBy(t, d)' = {}
           /\ \E n \in Nat : delta[r][d] = n /\ HeldBy(t, d) = {t} \X (1 .. n)
    <2>1. PICK n \in Nat : delta[r][d] = n /\ HeldBy(t, d) = {t} \X (1 .. n)
        BY <1>8
    <2>2. H2 = H \ ({t} \X (1 .. n)) /\ {t} \X (1 .. n) \subseteq H
        BY <1>3, <1>4, <1>8, <2>1 DEF H, H2
    <2>3. Cardinality({t} \X (1 .. n)) = n
        BY CountPortions
    <2>4. IsFiniteSet(H2) /\ Cardinality(H2) = Cardinality(H) - n
        BY <1>6, <2>2, <2>3, FewerPortions DEF H
    <2>5. Cardinality(H) \in Nat
        BY <1>6, FS_CardinalityType DEF H
    <2> QED
        BY <1>5, <1>6, <2>1, <2>4, <2>5 DEF H, H2
<1>9. CASE HeldBy(t, d)' = HeldBy(t, d) /\ delta[r][d] = 0
    <2>1. H2 = H
        BY <1>3, <1>9 DEF H, H2
    <2>2. m2 = m
        BY <1>5, <1>9
    <2> QED
        BY <1>6, <2>1, <2>2 DEF H, H2
<1> QED
    BY <1>7, <1>8, <1>9, CommitHolds

\* An edit that sets the stock is what the partner stocked.
LEMMA EditShelves ==
    ASSUME IInv, NEW r \in Request, UpdateItem(r), NEW d \in Dish, ShelfInv(d)
    PROVE  ShelfInv(d)'
<1> DEFINE c == call[r].dish
<1>1. pc[r] = "edit" /\ orders' = orders
    BY DEF UpdateItem, Abort, Rollback, db
<1>2. call[r] \in EditCall /\ c \in Dish
    BY <1>1, CallTypes DEF IInv, RequestInv, Placement, StatusOps, EditCall
<1>3. menu \in [Dish -> Row] /\ supply \in [Dish -> Int] /\ menu[d].stock \in Nat
    BY RowStock DEF IInv, TypeOK
<1>4. CASE menu' = menu /\ supply' = supply
    BY <1>1, <1>3, <1>4, SameOrders
<1>5. CASE /\ menu' = [menu EXCEPT ![c] = Edited(@, call[r])]
           /\ supply' = [supply EXCEPT ![c] = @ + Edited(menu[c], call[r]).stock - menu[c].stock]
    <2>1. CASE d # c
        BY <1>1, <1>3, <1>5, <2>1, SameOrders
    <2>2. CASE d = c
        <3> DEFINE s == Edited(menu[c], call[r]).stock
        <3>1. Edited(menu[c], call[r]) \in Row
            BY <1>2, <1>3, EditedRow
        <3>2. s \in Nat /\ menu'[d].stock = s
            BY <1>2, <1>3, <1>5, <2>2, <3>1, RowStock
        <3>3. supply'[d] = supply[d] + s - menu[d].stock
            BY <1>2, <1>3, <1>5, <2>2
        <3> HIDE DEF s
        <3>4. supply[d] \in Int
            BY <1>3
        <3>5. supply'[d] \in Int /\ menu'[d].stock - supply'[d] = menu[d].stock - supply[d]
            BY <1>3, <3>2, <3>3, <3>4
        <3> QED
            BY <1>1, <1>3, <3>2, <3>4, <3>5, SameOrders
    <2> QED
        BY <2>1, <2>2
<1> QED
    BY <1>4, <1>5 DEF UpdateItem, Abort, Rollback, db

LEMMA DeleteShelves ==
    ASSUME IInv, NEW r \in Request, DeleteItem(r), NEW d \in Dish, ShelfInv(d)
    PROVE  ShelfInv(d)'
<1>1. orders' = orders /\ supply' = supply
    BY DEF DeleteItem, Abort, Rollback, db
<1>2. menu \in [Dish -> Row] /\ menu[d].stock \in Nat /\ supply[d] \in Int
    BY RowStock DEF IInv, TypeOK
<1>3. menu'[d].stock = menu[d].stock
    BY <1>2 DEF DeleteItem, Abort, Rollback, db, Row
<1> QED
    BY <1>1, <1>2, <1>3, SameOrders

LEMMA Shelves ==
    ASSUME IInv, [Next]_vars, NEW d \in Dish, ShelfInv(d)
    PROVE  ShelfInv(d)'
<1>1. menu[d].stock \in Nat /\ supply[d] \in Int
    BY RowStock DEF IInv, TypeOK
<1>2. CASE Unwritten
    BY <1>1, <1>2, SameOrders DEF Unwritten
<1>3. ASSUME NEW r \in Request, NotifyPartner(r) PROVE ShelfInv(d)'
    <2>1. orders' = orders /\ menu' = menu /\ supply' = supply
        BY <1>3 DEF NotifyPartner, db
    <2> QED
        BY <1>1, <2>1, SameOrders
<1> QED
    BY <1>2, <1>3, CommitShelves, EditShelves, DeleteShelves, RowsWritten

LEMMA ShelvesInit ==
    ASSUME Init, NEW d \in Dish
    PROVE  ShelfInv(d)
<1>1. \A o \in Request : HeldBy(o, d) = {}
    BY DEF Init, HeldBy
<1>2. HeldOf(d) = {}
    BY <1>1 DEF HeldOf
<1>3. menu[d].stock = supply[d] /\ menu[d].stock \in Nat
    BY MenuAssumption, RowStock DEF Init
<1>4. IsFiniteSet(HeldOf(d)) /\ Cardinality(HeldOf(d)) = 0
    BY <1>2, FS_EmptySet
<1> QED
    BY <1>3, <1>4 DEF ShelfInv

\* Nothing is sold twice, no cancelled order is refunded twice or not at all, and no checkout that
\* was rolled back keeps stock, however many requests interleave (order_service.go, menu_repo.go).
THEOREM Stock == Spec => []StockConserved
<1> DEFINE Inv == \A d \in Dish : ShelfInv(d)
<1>1. Init => Inv
    BY ShelvesInit
<1>2. IInv /\ Inv /\ [Next]_vars => Inv'
    BY Shelves
<1>3. Inv => StockConserved
    BY DEF StockConserved, ShelfInv, HeldOf, Held
<1> QED
    BY <1>1, <1>2, <1>3, Invariant, PTL DEF Spec

-----------------------------------------------------------------------------
(***************************************************************************)
(* Locks.  A transaction takes dish rows in ascending order, takes its     *)
(* order row before any of them, and then needs none it does not hold; an  *)
(* edit holds nothing while it waits.  So of the requests that wait for    *)
(* each other, the one that waits for the greatest dish waits for nobody.  *)
(***************************************************************************)

MayHoldDish(r) ==
    \/ call[r].op = "CreateOrder" /\ pc[r] \in {"lockDishes", "decrement", "commit"}
    \/ /\ call[r].op \in StatusOps
       /\ pc[r] \in {"restock", "readOrder", "readHistory", "webhookURL", "commit"}

MayHoldOrder(r) ==
    /\ call[r].op \in StatusOps
    /\ pc[r] \in {"decide", "restock", "readOrder", "readHistory", "webhookURL", "commit"}

HoldsInOrder(r) ==
    /\ \A d \in Dish : dishLock[d] = r =>
           /\ MayHoldDish(r)
           /\ pc[r] \in {"lockDishes", "restock"} => \A e \in todo[r] : d < e
    /\ \A o \in Request : orderLock[o] = r => MayHoldOrder(r)

\* Only finitely many dishes are locked.
FewLocked == \E n \in Nat : \A d \in Dish : dishLock[d] # None => d <= n

LockInv == FewLocked /\ \A r \in Request : HoldsInOrder(r)

\* A step of another request.
Bystander(q) ==
    /\ pc'[q] = pc[q] /\ call'[q] = call[q] /\ todo'[q] = todo[q]
    /\ \A d \in Dish : dishLock'[d] = q => dishLock[d] = q
    /\ \A o \in Request : orderLock'[o] = q => orderLock[o] = q

LEMMA BystanderHolds ==
    ASSUME NEW q \in Request, HoldsInOrder(q), Bystander(q)
    PROVE  HoldsInOrder(q)'
    BY DEF HoldsInOrder, Bystander, MayHoldDish, MayHoldOrder

LEMMA LocksKept ==
    ASSUME LockInv, NEW r \in Request, HoldsInOrder(r)', FewLocked',
           \A q \in Request \ {r} : Bystander(q)
    PROVE  LockInv'
<1>1. \A q \in Request \ {r} : HoldsInOrder(q)'
    BY BystanderHolds DEF LockInv
<1> QED
    BY <1>1 DEF LockInv

\* One more dish is locked.
LEMMA OneMoreLocked ==
    ASSUME FewLocked, NEW d \in Dish, NEW r,
           \A e \in Dish \ {d} : dishLock'[e] = dishLock[e]
    PROVE  FewLocked'
<1>1. PICK n \in Nat : \A e \in Dish : dishLock[e] # None => e <= n
    BY DEF FewLocked
<1>2. d \in Nat /\ Dish \subseteq Nat
    BY DishAssumption
<1> DEFINE m == IF n < d THEN d ELSE n
<1>3. m \in Nat /\ n <= m /\ d <= m
    BY <1>2
<1> HIDE DEF m
<1>4. \A e \in Dish : dishLock'[e] # None => e <= m
    BY <1>1, <1>2, <1>3
<1> QED
    BY <1>3, <1>4 DEF FewLocked

\* The end of a transaction.
LEMMA ReleaseKeeps ==
    ASSUME IInv, LockInv, NEW r \in Request, Release(r),
           \A q \in Request \ {r} : pc'[q] = pc[q] /\ call'[q] = call[q] /\ todo'[q] = todo[q]
    PROVE  LockInv'
<1>1. r # None /\ \A q \in Request : q # None
    BY NoneAssumption
<1>2. \A d \in Dish : dishLock'[d] = IF dishLock[d] = r THEN None ELSE dishLock[d]
    BY DEF Release
<1>3. \A o \in Request : orderLock'[o] = IF orderLock[o] = r THEN None ELSE orderLock[o]
    BY DEF Release
<1>4. HoldsInOrder(r)'
    BY <1>1, <1>2, <1>3 DEF HoldsInOrder
<1>5. FewLocked'
    BY <1>2 DEF LockInv, FewLocked
<1>6. \A q \in Request \ {r} : Bystander(q)
    BY <1>1, <1>2, <1>3 DEF Bystander
<1> QED
    BY <1>4, <1>5, <1>6, LocksKept

LEMMA AbortHolds ==
    ASSUME IInv, LockInv, NEW r \in Request, NEW error, Abort(r, error)
    PROVE  LockInv'
<1>1. /\ Release(r) /\ call' = call
      /\ \A q \in Request \ {r} : pc'[q] = pc[q] /\ todo'[q] = todo[q]
    BY DEF Abort, Rollback, EndTx, Goto, IInv, TypeOK
<1> QED
    BY <1>1, ReleaseKeeps

LEMMA CommitHoldsNothing ==
    ASSUME IInv, LockInv, NEW r \in Request, Commit(r)
    PROVE  LockInv'
<1>1. /\ Release(r) /\ call' = call
      /\ \A q \in Request \ {r} : pc'[q] = pc[q] /\ todo'[q] = todo[q]
    BY CommitWrites DEF Commit, EndTx, IInv, TypeOK
<1> QED
    BY <1>1, ReleaseKeeps

\* A statement that takes no lock.
LEMMA NoLockTaken ==
    ASSUME LockInv, NEW r \in Request, UNCHANGED locks,
           \A q \in Request \ {r} : pc'[q] = pc[q] /\ call'[q] = call[q] /\ todo'[q] = todo[q],
           HoldsInOrder(r)'
    PROVE  LockInv'
<1>1. FewLocked'
    BY DEF LockInv, FewLocked, locks
<1>2. \A q \in Request \ {r} : Bystander(q)
    BY DEF Bystander, locks
<1> QED
    BY <1>1, <1>2, LocksKept

\* A statement of a call that holds none, and takes none.
LEMMA NothingHeld ==
    ASSUME LockInv, NEW r \in Request, UNCHANGED locks,
           \A q \in Request \ {r} : pc'[q] = pc[q] /\ call'[q] = call[q] /\ todo'[q] = todo[q],
           ~MayHoldDish(r), ~MayHoldOrder(r)
    PROVE  LockInv'
<1>1. HoldsInOrder(r)'
    BY DEF LockInv, HoldsInOrder, locks
<1> QED
    BY <1>1, NoLockTaken

LEMMA FirstIsBelow ==
    ASSUME NEW S \in SUBSET Dish, NEW d, IsFirst(d, S)
    PROVE  \A e \in S \ {d} : d < e
    BY DishAssumption DEF IsFirst

LEMMA ArriveHolds ==
    ASSUME IInv, LockInv, NEW r \in Request, NEW c \in Calls, Arrive(r, c)
    PROVE  LockInv'
<1>1. pc[r] = "idle" /\ UNCHANGED locks
      /\ \A q \in Request \ {r} : pc'[q] = pc[q] /\ call'[q] = call[q] /\ todo'[q] = todo[q]
    BY DEF Arrive, Goto, IInv, TypeOK
<1> QED
    BY <1>1, NothingHeld DEF MayHoldDish, MayHoldOrder

LEMMA CheckoutHolds ==
    ASSUME IInv, LockInv, NEW r \in Request, pc[r] # "idle", call[r].op = "CreateOrder",
           \/ GetRestaurant(r)
           \/ GetWebhookURL(r)
           \/ \E d \in Dish : LockDish(r, d) \/ RefuseDish(r, d) \/ DecrementStock(r, d)
           \/ ReceiveDishes(r)
           \/ PersistOrder(r)
    PROVE  LockInv'
<1> USE DEF Goto, db, tx
<1>1. call[r].op \notin StatusOps /\ ~MayHoldOrder(r) /\ HoldsInOrder(r) /\ RequestInv(r) /\ CheckoutInv(r)
    BY DEF StatusOps, MayHoldOrder, LockInv, IInv, RequestInv
<1>2. ASSUME NEW error, Abort(r, error) PROVE LockInv'
    BY <1>2, AbortHolds
<1>3. ASSUME GetRestaurant(r) PROVE LockInv'
    <2>1. CASE UNCHANGED locks /\ Goto(r, "webhookURL") /\ UNCHANGED <<call, tx>>
        <3>1. \A q \in Request \ {r} : pc'[q] = pc[q] /\ call'[q] = call[q] /\ todo'[q] = todo[q]
            BY <2>1 DEF IInv, TypeOK
        <3> QED
            BY <1>1, <1>3, <2>1, <3>1, NothingHeld DEF GetRestaurant, MayHoldDish
    <2> QED
        BY <1>2, <1>3, <2>1 DEF GetRestaurant
<1>4. ASSUME GetWebhookURL(r) PROVE LockInv'
    <2>1. /\ pc[r] = "webhookURL" /\ UNCHANGED locks
          /\ \A q \in Request \ {r} : pc'[q] = pc[q] /\ call'[q] = call[q] /\ todo'[q] = todo[q]
        BY <1>4 DEF GetWebhookURL, IInv, TypeOK
    <2> QED
        BY <1>1, <2>1, NothingHeld DEF MayHoldDish
<1>5. ASSUME NEW d \in Dish, LockDish(r, d) PROVE LockInv'
    <2>1. /\ pc[r] = "lockDishes" /\ pc' = pc /\ call' = call /\ orderLock' = orderLock
          /\ todo'[r] = todo[r] \ {d} /\ IsFirst(d, todo[r])
          /\ \A q \in Request \ {r} : todo'[q] = todo[q]
          /\ \A e \in Dish \ {d} : dishLock'[e] = dishLock[e]
          /\ dishLock'[d] \in {dishLock[d], r} /\ Free(dishLock[d], r)
        BY <1>5 DEF LockDish, IInv, TypeOK
    <2>2. \A e \in todo'[r] : d < e
        BY <2>1, FirstIsBelow DEF IInv, TypeOK
    <2>3. HoldsInOrder(r)'
        BY <1>1, <2>1, <2>2 DEF HoldsInOrder, MayHoldDish, MayHoldOrder
    <2>4. \A q \in Request \ {r} : Bystander(q)
        BY <2>1, NoneAssumption DEF Bystander, Free
    <2> QED
        BY <2>1, <2>3, <2>4, OneMoreLocked, LocksKept DEF LockInv
<1>6. ASSUME NEW d \in Dish, RefuseDish(r, d) PROVE LockInv'
    BY <1>2, <1>6 DEF RefuseDish
<1>7. ASSUME NEW d \in Dish, DecrementStock(r, d) PROVE LockInv'
    <2>1. CASE ~(menu[d].exists /\ menu[d].avail /\ OwnStock(r, d) >= call[r].qty[d])
        BY <1>2, <1>7, <2>1 DEF DecrementStock
    <2>2. CASE menu[d].exists /\ menu[d].avail /\ OwnStock(r, d) >= call[r].qty[d]
        <3>1. /\ pc[r] = "decrement" /\ pc' = pc /\ call' = call /\ orderLock' = orderLock
              /\ \A q \in Request \ {r} : todo'[q] = todo[q]
              /\ \A e \in Dish \ {d} : dishLock'[e] = dishLock[e]
              /\ dishLock'[d] \in {dishLock[d], r} /\ Free(dishLock[d], r)
            BY <1>7, <2>2 DEF DecrementStock, IInv, TypeOK
        <3>2. HoldsInOrder(r)'
            BY <1>1, <3>1 DEF HoldsInOrder, MayHoldDish, MayHoldOrder
        <3>3. \A q \in Request \ {r} : Bystander(q)
            BY <3>1, NoneAssumption DEF Bystander, Free
        <3> QED
            BY <3>1, <3>2, <3>3, OneMoreLocked, LocksKept DEF LockInv
    <2> QED
        BY <2>1, <2>2
<1>8. ASSUME ReceiveDishes(r) PROVE LockInv'
    <2>1. CASE /\ pc[r] = "lockDishes" /\ Goto(r, "decrement") /\ UNCHANGED <<locks, call>>
               /\ todo' = [todo EXCEPT ![r] = Basket(call[r].qty)]
        <3>1. /\ pc'[r] = "decrement" /\ UNCHANGED <<locks, call>>
              /\ \A q \in Request \ {r} : pc'[q] = pc[q] /\ call'[q] = call[q] /\ todo'[q] = todo[q]
            BY <2>1 DEF IInv, TypeOK
        <3>2. HoldsInOrder(r)'
            BY <1>1, <3>1 DEF HoldsInOrder, MayHoldDish, MayHoldOrder, locks
        <3> QED
            BY <3>1, <3>2, NoLockTaken
    <2> QED
        BY <1>2, <1>8, <2>1 DEF ReceiveDishes
<1>9. ASSUME PersistOrder(r) PROVE LockInv'
    <2>1. CASE pc[r] = "decrement" /\ Goto(r, "commit") /\ UNCHANGED <<locks, call, todo>>
        <3>1. /\ pc'[r] = "commit"
              /\ \A q \in Request \ {r} : pc'[q] = pc[q] /\ call'[q] = call[q] /\ todo'[q] = todo[q]
            BY <2>1 DEF IInv, TypeOK
        <3>2. HoldsInOrder(r)'
            BY <1>1, <2>1, <3>1 DEF HoldsInOrder, MayHoldDish, MayHoldOrder, locks
        <3> QED
            BY <2>1, <3>1, <3>2, NoLockTaken
    <2> QED
        BY <1>2, <1>9, <2>1 DEF PersistOrder
<1> QED
    BY <1>3, <1>4, <1>5, <1>6, <1>7, <1>8, <1>9

\* A status change has its order's row before it needs a dish's, and restocks in order.
LEMMA StatusChangeHolds ==
    ASSUME IInv, LockInv, NEW r \in Request, pc[r] # "idle", call[r].op \in StatusOps,
           \/ LockOrder(r)
           \/ Decide(r)
           \/ \E d \in Dish : IncrementStock(r, d)
           \/ ApplyStatusChange(r)
           \/ GetWebhookURL(r)
    PROVE  LockInv'
<1> USE DEF Goto, db, tx
<1>1. /\ call[r].op # "CreateOrder" /\ HoldsInOrder(r) /\ RequestInv(r) /\ StatusInv(r)
      /\ call[r].order \in Request
    BY CallTypes DEF StatusOps, LockInv, IInv, RequestInv, StatusCall, CancelCall
<1>2. ASSUME NEW error, Abort(r, error) PROVE LockInv'
    BY <1>2, AbortHolds
<1>3. ASSUME LockOrder(r) PROVE LockInv'
    <2> DEFINE o == call[r].order
    <2>1. CASE orders[o] # None
        <3>a. /\ pc[r] = "lockOrder" /\ pc' = [pc EXCEPT ![r] = "decide"]
              /\ UNCHANGED <<dishLock, call, todo>> /\ Free(orderLock[o], r)
              /\ orderLock' = [orderLock EXCEPT ![o] = r]
            BY <1>3, <2>1 DEF LockOrder
        <3>b. pc \in [Request -> PCs] /\ orderLock \in [Request -> Request \cup {None}] /\ o \in Request
            BY <1>1 DEF IInv, TypeOK
        <3> HIDE DEF o
        <3>1. /\ pc[r] = "lockOrder" /\ pc'[r] = "decide" /\ dishLock' = dishLock /\ call' = call
              /\ \A q \in Request \ {r} : pc'[q] = pc[q] /\ todo'[q] = todo[q]
              /\ \A p \in Request \ {o} : orderLock'[p] = orderLock[p]
              /\ orderLock'[o] = r /\ Free(orderLock[o], r)
            BY <3>a, <3>b
        <3>2. HoldsInOrder(r)'
            BY <1>1, <3>1 DEF HoldsInOrder, MayHoldDish, MayHoldOrder
        <3>3. \A q \in Request \ {r} : Bystander(q)
            BY <1>1, <3>1, NoneAssumption DEF Bystander, Free
        <3>4. FewLocked'
            BY <3>1 DEF LockInv, FewLocked
        <3> QED
            BY <3>2, <3>3, <3>4, LocksKept
    <2> QED
        BY <1>2, <1>3, <2>1 DEF LockOrder
<1>4. ASSUME Decide(r) PROVE LockInv'
    <2>1. CASE /\ pc[r] = "decide" /\ Goto(r, "restock") /\ UNCHANGED <<locks, call>>
               /\ \A q \in Request \ {r} : todo'[q] = todo[q]
        <3>1. /\ pc'[r] = "restock"
              /\ \A q \in Request \ {r} : pc'[q] = pc[q] /\ call'[q] = call[q] /\ todo'[q] = todo[q]
            BY <2>1 DEF IInv, TypeOK
        <3>2. HoldsInOrder(r)'
            BY <1>1, <2>1, <3>1 DEF HoldsInOrder, MayHoldDish, MayHoldOrder, locks
        <3> QED
            BY <2>1, <3>1, <3>2, NoLockTaken
    <2>2. CASE OrderRefusal(r) = ""
        BY <1>4, <2>1, <2>2 DEF Decide, IInv, TypeOK
    <2> QED
        BY <1>2, <1>4, <2>2 DEF Decide
<1>5. ASSUME NEW d \in Dish, IncrementStock(r, d) PROVE LockInv'
    <2>1. CASE menu[d].exists /\ Fits(OwnStock(r, d) + got[r].qty[d])
        <3>1. /\ pc[r] = "restock" /\ pc' = pc /\ call' = call /\ orderLock' = orderLock
              /\ todo'[r] = todo[r] \ {d} /\ IsFirst(d, todo[r])
              /\ \A q \in Request \ {r} : todo'[q] = todo[q]
              /\ \A e \in Dish \ {d} : dishLock'[e] = dishLock[e]
              /\ dishLock'[d] = r /\ Free(dishLock[d], r)
            BY <1>5, <2>1 DEF IncrementStock, IInv, TypeOK
        <3>2. \A e \in todo'[r] : d < e
            BY <3>1, FirstIsBelow DEF IInv, TypeOK
        <3>3. HoldsInOrder(r)'
            BY <1>1, <3>1, <3>2 DEF HoldsInOrder, MayHoldDish, MayHoldOrder
        <3>4. \A q \in Request \ {r} : Bystander(q)
            BY <3>1, NoneAssumption DEF Bystander, Free
        <3> QED
            BY <3>1, <3>3, <3>4, OneMoreLocked, LocksKept DEF LockInv
    <2> QED
        BY <1>2, <1>5, <2>1 DEF IncrementStock
<1>6. ASSUME ApplyStatusChange(r) PROVE LockInv'
    <2> DEFINE o == call[r].order
    <2>1. CASE call[r].text = "plain"
        <3>a. /\ pc[r] = "restock" /\ pc' = [pc EXCEPT ![r] = "readOrder"]
              /\ UNCHANGED <<dishLock, call, todo>> /\ Free(orderLock[o], r)
              /\ orderLock' = [orderLock EXCEPT ![o] = r]
            BY <1>6, <2>1 DEF ApplyStatusChange
        <3>b. pc \in [Request -> PCs] /\ orderLock \in [Request -> Request \cup {None}] /\ o \in Request
            BY <1>1 DEF IInv, TypeOK
        <3> HIDE DEF o
        <3>1. /\ pc[r] = "restock" /\ pc'[r] = "readOrder" /\ UNCHANGED <<dishLock, call, todo>>
              /\ \A q \in Request \ {r} : pc'[q] = pc[q]
              /\ \A p \in Request \ {o} : orderLock'[p] = orderLock[p]
              /\ orderLock'[o] = r /\ Free(orderLock[o], r)
            BY <3>a, <3>b
        <3>2. HoldsInOrder(r)'
            BY <1>1, <3>1 DEF HoldsInOrder, MayHoldDish, MayHoldOrder
        <3>3. \A q \in Request \ {r} : Bystander(q)
            BY <1>1, <3>1, NoneAssumption DEF Bystander, Free
        <3>4. FewLocked'
            BY <3>1 DEF LockInv, FewLocked
        <3> QED
            BY <3>2, <3>3, <3>4, LocksKept
    <2> QED
        BY <1>2, <1>6, <2>1 DEF ApplyStatusChange
<1>7. ASSUME GetWebhookURL(r) PROVE LockInv'
    <2>1. /\ pc[r] = "webhookURL" /\ pc'[r] = "commit" /\ UNCHANGED <<locks, call, todo>>
          /\ \A q \in Request \ {r} : pc'[q] = pc[q] /\ call'[q] = call[q] /\ todo'[q] = todo[q]
        BY <1>1, <1>7 DEF GetWebhookURL, IInv, TypeOK
    <2>2. HoldsInOrder(r)'
        BY <1>1, <2>1 DEF HoldsInOrder, MayHoldDish, MayHoldOrder, locks
    <2> QED
        BY <2>1, <2>2, NoLockTaken
<1> QED
    BY <1>3, <1>4, <1>5, <1>6, <1>7

\* The reads, inside a status change and outside any transaction.
LEMMA ReadingHolds ==
    ASSUME IInv, LockInv, NEW r \in Request, pc[r] # "idle", ReadOrder(r) \/ ReadHistory(r)
    PROVE  LockInv'
<1> USE DEF Goto, db, tx
<1>1. HoldsInOrder(r) /\ call[r].op \in StatusOps \cup {"GetOrderByID"} /\ pc[r] \in {"readOrder", "readHistory"}
    BY DEF LockInv, IInv, RequestInv, Placement, ReadOrder, ReadHistory
<1>2. ASSUME NEW error, Abort(r, error) PROVE LockInv'
    BY <1>2, AbortHolds
<1>3. ASSUME NEW next \in {"readHistory", "webhookURL"}, Goto(r, next), UNCHANGED <<locks, call, todo>>
      PROVE  LockInv'
    <2>1. /\ pc'[r] = next
          /\ \A q \in Request \ {r} : pc'[q] = pc[q] /\ call'[q] = call[q] /\ todo'[q] = todo[q]
        BY <1>3 DEF IInv, TypeOK
    <2>2. HoldsInOrder(r)'
        BY <1>1, <1>3, <2>1 DEF HoldsInOrder, MayHoldDish, MayHoldOrder, locks
    <2> QED
        BY <1>3, <2>1, <2>2, NoLockTaken
<1>4. ASSUME call[r].op = "GetOrderByID", Answer(r, "ok"), UNCHANGED <<locks, call, todo>>
      PROVE  LockInv'
    <2>1. \A q \in Request \ {r} : pc'[q] = pc[q] /\ call'[q] = call[q] /\ todo'[q] = todo[q]
        BY <1>4 DEF Answer, IInv, TypeOK
    <2> QED
        BY <1>4, <2>1, NothingHeld DEF MayHoldDish, MayHoldOrder, StatusOps
<1>5. ReadOrder(r) => LockInv'
    BY <1>2, <1>3 DEF ReadOrder
<1>6. ReadHistory(r) => LockInv'
    BY <1>2, <1>3, <1>4 DEF ReadHistory
<1> QED
    BY <1>5, <1>6

LEMMA MenuEditHolds ==
    ASSUME IInv, LockInv, NEW r \in Request, MenuEdit(r)
    PROVE  LockInv'
<1> USE DEF Goto, db, tx
<1>1. /\ pc[r] \in {"assertOwned", "edit", "remove", "update"}
      /\ ~MayHoldDish(r) /\ ~MayHoldOrder(r)
    BY DEF MenuEdit, AssertItemOwned, UpdateItem, DeleteItem, UpdateRestaurant, MayHoldDish, MayHoldOrder
<1>2. ASSUME NEW error, Abort(r, error) PROVE LockInv'
    BY <1>2, AbortHolds
<1>3. ASSUME NEW next, Goto(r, next), UNCHANGED <<locks, call, todo>> PROVE LockInv'
    <2>1. \A q \in Request \ {r} : pc'[q] = pc[q] /\ call'[q] = call[q] /\ todo'[q] = todo[q]
        BY <1>3 DEF IInv, TypeOK
    <2> QED
        BY <1>1, <1>3, <2>1, NothingHeld
<1>4. AssertItemOwned(r) => LockInv'
    BY <1>2, <1>3 DEF AssertItemOwned
<1>5. UpdateItem(r) => LockInv'
    BY <1>2, <1>3 DEF UpdateItem, Confirm, Answer
<1>6. DeleteItem(r) => LockInv'
    BY <1>2, <1>3 DEF DeleteItem, Confirm, Answer
<1>7. UpdateRestaurant(r) => LockInv'
    BY <1>3 DEF UpdateRestaurant, Confirm, Answer
<1> QED
    BY <1>4, <1>5, <1>6, <1>7 DEF MenuEdit

LEMMA LocksHeld ==
    ASSUME IInv, LockInv, [Next]_vars
    PROVE  LockInv'
<1>1. ASSUME UNCHANGED vars PROVE LockInv'
    <2>1. \A q \in Request : Bystander(q)
        BY <1>1 DEF vars, Bystander
    <2> QED
        BY <1>1, <2>1, BystanderHolds DEF LockInv, FewLocked, vars
<1>2. ASSUME NEW r \in Request, Fail(r) PROVE LockInv'
    BY <1>2, AbortHolds DEF Fail
<1>3. ASSUME NEW r \in Request, NotifyPartner(r) PROVE LockInv'
    <2>1. /\ ~MayHoldDish(r) /\ ~MayHoldOrder(r)
          /\ UNCHANGED locks
          /\ \A q \in Request \ {r} : pc'[q] = pc[q] /\ call'[q] = call[q] /\ todo'[q] = todo[q]
        BY <1>3 DEF NotifyPartner, Answer, Goto, MayHoldDish, MayHoldOrder, IInv, TypeOK
    <2> QED
        BY <2>1, NothingHeld
<1>4. ASSUME NEW r \in Request, CreateOrder(r) PROVE LockInv'
    BY <1>3, <1>4, CheckoutHolds, CommitHoldsNothing DEF CreateOrder
<1>5. ASSUME NEW r \in Request, pc[r] # "idle", call[r].op \in StatusOps, StatusChange(r) PROVE LockInv'
    BY <1>3, <1>5, StatusChangeHolds, ReadingHolds, CommitHoldsNothing DEF StatusChange
<1>6. ASSUME NEW r \in Request, GetOrderByID(r) PROVE LockInv'
    BY <1>6, ReadingHolds DEF GetOrderByID
<1> QED
    BY <1>1, <1>2, <1>4, <1>5, <1>6, ArriveHolds, MenuEditHolds
       DEF Next, Step, Finished, UpdateOrderStatus, CancelOrderByCustomer, StatusOps

LEMMA LocksInit == Init => LockInv
<1> SUFFICES ASSUME Init PROVE LockInv
    OBVIOUS
<1>1. \A d \in Dish : dishLock[d] = None
    BY DEF Init
<1>2. \A o \in Request : orderLock[o] = None
    BY DEF Init
<1>3. \A r \in Request : HoldsInOrder(r)
    BY <1>1, <1>2, NoneAssumption DEF HoldsInOrder
<1>4. FewLocked
    BY <1>1 DEF FewLocked
<1> QED
    BY <1>3, <1>4 DEF LockInv

LEMMA Least ==
    ASSUME NEW T \in SUBSET Nat, T # {}
    PROVE  \E x \in T : \A y \in T : x <= y
<1>1. PICK x \in T : \A y \in T : <<y, x>> \notin OpToRel(<, Nat)
    BY WFMin, NatLessThanWellFounded
<1>2. \A y \in T : ~(y < x)
    BY <1>1 DEF OpToRel
<1> QED
    BY <1>2

\* A bounded set of numbers has a greatest: the one the least short of the bound.
LEMMA Greatest ==
    ASSUME NEW T \in SUBSET Nat, T # {}, NEW n \in Nat, \A x \in T : x <= n
    PROVE  \E x \in T : \A y \in T : y <= x
<1> DEFINE short == {k \in Nat : n - k \in T}
<1>1. short # {}
    <2>1. PICK x \in T : TRUE
        OBVIOUS
    <2>2. n - x \in Nat /\ n - (n - x) = x
        OBVIOUS
    <2> QED
        BY <2>1, <2>2
<1>2. PICK k \in short : \A j \in short : k <= j
    BY <1>1, Least
<1>3. ASSUME NEW y \in T PROVE y <= n - k
    <2>1. n - y \in Nat /\ n - (n - y) = y
        OBVIOUS
    <2>2. k <= n - y
        BY <1>2, <2>1
    <2> QED
        BY <1>2, <2>2
<1> QED
    BY <1>2, <1>3

WaitsForDish(q, d) ==
    \/ pc[q] \in {"lockDishes", "decrement", "restock"} /\ IsFirst(d, todo[q])
    \/ pc[q] \in {"edit", "remove"} /\ d = call[q].dish

LEMMA NoneWaitInACircle == IInv /\ LockInv => NoLockCycle
<1> SUFFICES ASSUME IInv, LockInv, NEW S \in (SUBSET Request) \ {{}},
                    \A r \in S : BlockedBy(r) \cap (S \ {r}) # {}
             PROVE  FALSE
    BY DEF NoLockCycle
<1>0. S \subseteq Request /\ S # {}
    OBVIOUS
<1> DEFINE wanted == {d \in Dish : \E q \in S : WaitsForDish(q, d) /\ dishLock[d] \in S \ {q}}
<1>1. ASSUME NEW q \in S
      PROVE  \/ \E d \in wanted : WaitsForDish(q, d) /\ dishLock[d] \in S \ {q}
             \/ pc[q] = "lockOrder" /\ \E o \in Request : orderLock[o] \in S \ {q}
    <2>1. PICK p \in S \ {q} : p \in BlockedBy(q)
        OBVIOUS
    <2> QED
        BY <2>1 DEF BlockedBy, WaitsForDish
<1>2. wanted # {}
    <2>1. PICK q \in S : TRUE
        BY <1>0
    <2>2. ASSUME NEW o \in Request, orderLock[o] \in S PROVE wanted # {}
        <3>1. pc[orderLock[o]] # "lockOrder"
            BY <2>2 DEF LockInv, HoldsInOrder, MayHoldOrder
        <3> QED
            BY <1>1, <2>2, <3>1
    <2> QED
        BY <1>1, <2>1, <2>2
<1>3. PICK d \in wanted : \A e \in wanted : e <= d
    <2>1. PICK n \in Nat : \A e \in Dish : dishLock[e] # None => e <= n
        BY DEF LockInv, FewLocked
    <2>2. wanted \in SUBSET Nat /\ \A e \in wanted : e <= n
        BY <2>1, DishAssumption, NoneAssumption
    <2> HIDE DEF wanted
    <2> QED
        BY <1>2, <2>2, Greatest
<1>4. PICK q \in S : WaitsForDish(q, d) /\ dishLock[d] \in S \ {q}
    BY <1>3
<1> DEFINE p == dishLock[d]
<1>5. p \in S /\ p \in Request /\ d \in Dish /\ MayHoldDish(p)
    BY <1>3, <1>4 DEF LockInv, HoldsInOrder
<1>6. PICK e \in wanted : WaitsForDish(p, e) /\ dishLock[e] \in S \ {p}
    BY <1>1, <1>5 DEF MayHoldDish
<1>7. e \in Dish /\ e \in todo[p] /\ pc[p] \in {"lockDishes", "decrement", "restock"}
    BY <1>5, <1>6 DEF WaitsForDish, MayHoldDish, IsFirst
<1>8. CASE pc[p] = "decrement"
    <2>1. CheckoutInv(p)
        BY <1>5, <1>8 DEF IInv, RequestInv, MayHoldDish
    <2>2. dishLock[e] = p
        BY <1>7, <1>8, <2>1 DEF CheckoutInv, Wanted, Locked
    <2> QED
        BY <1>6, <2>2
<1>9. CASE pc[p] \in {"lockDishes", "restock"}
    <2>1. d < e
        BY <1>5, <1>7, <1>9 DEF LockInv, HoldsInOrder
    <2>2. e <= d /\ d \in Nat /\ e \in Nat
        BY <1>3, <1>5, <1>7, DishAssumption
    <2> QED
        BY <2>1, <2>2
<1> QED
    BY <1>7, <1>8, <1>9

\* Requests never wait for each other in a circle, whichever dishes and orders they touch: the
\* repositories lock rows ORDER BY id (menu_repo.go, order_repo.go), and that is enough.
THEOREM NoCycle == Spec => []NoLockCycle
<1>1. IInv /\ LockInv /\ [Next]_vars => LockInv'
    BY LocksHeld
<1> QED
    BY <1>1, LocksInit, NoneWaitInACircle, Invariant, PTL DEF Spec
=============================================================================
