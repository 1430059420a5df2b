----------------------- MODULE RestaurantServiceProofs ----------------------
(***************************************************************************)
(* Proofs about RestaurantService for any number of restaurants, partner's *)
(* calls, dishes, orders and clients that page through the lists.          *)
(***************************************************************************)
EXTENDS RestaurantService, ListingProofs

-----------------------------------------------------------------------------
(***************************************************************************)
(* The readers.                                                            *)
(***************************************************************************)

LEMMA ListedRows ==
    ASSUME NEW q \in Query
    PROVE  Listed(q) \subseteq Row /\ Listed(q)' \subseteq Row
<1>1. q.list \in {"restaurants", "dishes", "orders"}
    BY RestaurantAssumption DEF ListRestaurants, SearchItems, ListOrders
<1>2. Listed(q) \subseteq Restaurant \cup Dish \cup Order
    BY <1>1 DEF Listed
<1>3. Listed(q)' \subseteq Restaurant \cup Dish \cup Order
    BY <1>1 DEF Listed
<1> QED
    BY <1>2, <1>3, RestaurantAssumption

LEMMA PageType ==
    ASSUME NEW S \in SUBSET Row, NEW first, NEW s \in Sorted(S, first),
           NEW limit \in Nat, NEW offset \in Nat
    PROVE  Page(s, limit, offset) \in Seq(Row)
<1> DEFINE n == Cardinality(S)
<1>1. n \in Nat /\ s \in [1 .. n -> S]
    BY Subrows DEF Sorted
<1>2. Len(s) = n
    BY <1>1
<1> DEFINE last == IF offset + limit < Len(s) THEN offset + limit ELSE Len(s)
<1>3. last \in Int /\ last <= n
    BY <1>1, <1>2
<1> HIDE DEF n, last
<1>4. \A i \in offset + 1 .. last : s[i] \in Row
    BY <1>1, <1>3
<1>5. SubSeq(s, offset + 1, last) \in Seq(Row)
    BY <1>3, <1>4, SubSeqProperties
<1> QED
    BY <1>5 DEF Page, last

LEMMA AskedType ==
    ASSUME NEW p \in Progress, NEW q \in Query, NEW limit \in Limits, NEW S \in SUBSET Row
    PROVE  [p EXCEPT !.query = q, !.limit = limit, !.standing = S] \in Progress
    BY DEF Progress

LEMMA ReadType ==
    ASSUME NEW p \in Progress, NEW s \in Seq(Row), NEW k \in Nat, NEW b \in BOOLEAN
    PROVE  [p EXCEPT !.seen = s, !.offset = k, !.over = b] \in Progress
    BY DEF Progress

LEMMA ChangedType ==
    ASSUME NEW p \in Progress, NEW S \in SUBSET Row, NEW j \in Nat, NEW k \in Nat
    PROVE  [p EXCEPT !.standing = S, !.joined = j, !.left = k] \in Progress
    BY DEF Progress

Readers == reader \in [Reader -> Progress]

LEMMA AskKeeps ==
    ASSUME Readers, NEW c \in Reader, NEW q \in Query, NEW limit \in Limits,
           NEW S \in SUBSET Row, Ask(c, q, limit, S)
    PROVE  Readers'
<1> DEFINE p == [reader[c] EXCEPT !.query = q, !.limit = limit, !.standing = S]
<1>1. p \in Progress
    BY AskedType DEF Readers
<1>2. reader' = [reader EXCEPT ![c] = p]
    BY DEF Ask, Readers
<1> QED
    BY <1>1, <1>2 DEF Readers

LEMMA ReadPageKeeps ==
    ASSUME Readers, NEW c \in Reader, NEW S \in SUBSET Row, NEW first, ReadPage(c, S, first)
    PROVE  Readers'
<1>1. PICK s \in Sorted(S, first) :
          LET page == Page(s, reader[c].limit, reader[c].offset)
          IN  reader' = [reader EXCEPT ![c].seen = @ \o page,
                                       ![c].offset = @ + reader[c].limit,
                                       ![c].over = Len(page) < reader[c].limit]
    BY DEF ReadPage
<1> DEFINE page == Page(s, reader[c].limit, reader[c].offset)
           p == [reader[c] EXCEPT !.seen = @ \o page, !.offset = @ + reader[c].limit,
                                  !.over = Len(page) < reader[c].limit]
<1>a. reader[c] \in Progress
    BY DEF Readers
<1>2. /\ reader[c] \in Progress /\ reader[c].limit \in Nat /\ reader[c].offset \in Nat
      /\ reader[c].seen \in Seq(Row)
    BY <1>a, ProgressFields
<1>3. page \in Seq(Row)
    BY <1>2, PageType
<1>4. reader' = [reader EXCEPT ![c] = p]
    BY <1>1 DEF Readers
<1> HIDE DEF page
<1>5. reader[c].seen \o page \in Seq(Row) /\ reader[c].offset + reader[c].limit \in Nat
      /\ (Len(page) < reader[c].limit) \in BOOLEAN
    BY <1>2, <1>3
<1>6. p \in Progress
    BY <1>2, <1>5, ReadType
<1> QED
    BY <1>4, <1>6 DEF Readers

LEMMA TrackKeeps ==
    ASSUME Readers, Track
    PROVE  Readers'
<1> SUFFICES ASSUME NEW c \in Reader
             PROVE  reader'[c] \in Progress
    BY DEF Readers, Track
<1> DEFINE q == reader[c].query
           S == Lists[q]
           T == Lists'[q]
           moved == Renamed(q) \cap S \cap T
<1>1. reader[c] \in Progress /\ reader[c].joined \in Nat /\ reader[c].left \in Nat
      /\ reader[c].standing \in SUBSET Row /\ q \in Query \cup {Unasked}
    BY DEF Readers, Progress
<1>2. CASE q = Unasked
    BY <1>1, <1>2 DEF Track
<1>3. CASE q # Unasked
    <2>1. reader'[c] = Changed(c, S, T, moved)
        BY <1>3 DEF Track
    <2>2. S \in SUBSET Row /\ T \in SUBSET Row
        BY <1>1, <1>3, ListedRows DEF Lists
    <2> DEFINE in == Cardinality((T \ S) \cup moved)
               out == Cardinality((S \ T) \cup moved)
    <2>3. in \in Nat /\ out \in Nat
        BY <2>2, Subrows
    <2> HIDE DEF S, T, moved, in, out
    <2>4. reader[c].joined + in \in Nat /\ reader[c].left + out \in Nat
          /\ (reader[c].standing \cap T) \ moved \in SUBSET Row
        BY <1>1, <2>3
    <2>5. [reader[c] EXCEPT !.standing = (reader[c].standing \cap T) \ moved,
                            !.joined = reader[c].joined + in,
                            !.left = reader[c].left + out] \in Progress
        BY <1>1, <2>4, ChangedType
    <2>6. Changed(c, S, T, moved) \in Progress
        BY <1>1, <2>5 DEF Changed, in, out
    <2> QED
        BY <2>1, <2>6
<1> QED
    BY <1>2, <1>3

LEMMA ReadersStay == Readers /\ reader' = reader => Readers'
    BY DEF Readers

-----------------------------------------------------------------------------
(***************************************************************************)
(* Registrations and keys.                                                 *)
(***************************************************************************)

\* What a call in progress knows of the rows.
CallKnows(r) ==
    /\ pc[r] \in {"authenticate", "update"} => call[r] \in UpdateCall
    /\ pc[r] \in {"idle", "token"} => restaurants[r].state = "absent"
    /\ pc[r] = "commit" => restaurants[r].state = "writing" /\ restaurants[r].key = r
    /\ result[r] = "created" =>
           pc[r] = "done" /\ restaurants[r].state = "stored" /\ restaurants[r].key = r
    /\ pc[r] = "update" => caller[r] # None
    /\ caller[r] # None =>
           /\ pc[r] \in {"update", "done"}
           /\ restaurants[caller[r]].state = "stored"
           /\ restaurants[caller[r]].key = call[r].key /\ call[r].key # NoKey

\* A row has the key of its own, or none.
OwnKey(x) == restaurants[x].key \in {x, NoKey}

IInv ==
    /\ TypeOK
    /\ \A x \in Restaurant : OwnKey(x)
    /\ \A r \in Request : CallKnows(r)

\* No step takes a stored row away, or its key.
StoredStays ==
    \A x \in Restaurant : restaurants[x].state = "stored" =>
        restaurants'[x].state = "stored" /\ restaurants'[x].key = restaurants[x].key

\* A step of another request, or none, leaves the row of r.
Bystander(r) ==
    /\ pc'[r] = pc[r] /\ call'[r] = call[r] /\ result'[r] = result[r] /\ caller'[r] = caller[r]
    /\ restaurants'[r].state = restaurants[r].state /\ restaurants'[r].key = restaurants[r].key

LEMMA Constants ==
    /\ Request \subseteq Restaurant /\ Old \subseteq Restaurant
    /\ Restaurant \subseteq Row /\ Restaurant \subseteq Nat
    /\ NoKey \notin Restaurant /\ None \notin Restaurant
    /\ \A r \in Request : r \notin Old /\ r # NoKey /\ r # None
    BY RestaurantAssumption, ListingAssumption DEF Restaurant

LEMMA BystanderKnows ==
    ASSUME TypeOK, StoredStays, NEW r \in Request, CallKnows(r), Bystander(r)
    PROVE  CallKnows(r)'
<1>1. caller[r] # None => caller[r] \in Restaurant
    BY DEF TypeOK
<1>2. caller[r] # None =>
          /\ restaurants'[caller[r]].state = "stored"
          /\ restaurants'[caller[r]].key = restaurants[caller[r]].key
    BY <1>1 DEF CallKnows, StoredStays
<1> QED
    BY <1>2 DEF CallKnows, Bystander

\* It is enough to look at the request that takes the step.
LEMMA StepKeeps ==
    ASSUME IInv, NEW r \in Request, TypeOK', StoredStays, \A x \in Restaurant : OwnKey(x)',
           CallKnows(r)', \A q \in Request \ {r} : Bystander(q)
    PROVE  IInv'
<1>1. \A q \in Request \ {r} : CallKnows(q)'
    BY BystanderKnows DEF IInv
<1> QED
    BY <1>1 DEF IInv

\* Nobody's step.
LEMMA NoRequestSteps ==
    ASSUME IInv, UNCHANGED <<restaurants, requests>>, TypeOK'
    PROVE  IInv'
<1>1. StoredStays /\ \A q \in Request : Bystander(q)
    BY DEF StoredStays, Bystander, requests
<1>2. \A q \in Request : CallKnows(q)'
    BY <1>1, BystanderKnows DEF IInv
<1>3. \A x \in Restaurant : OwnKey(x)'
    BY DEF IInv, OwnKey
<1> QED
    BY <1>2, <1>3 DEF IInv

LEMMA RowUpdated ==
    ASSUME NEW p \in RestaurantRow
    PROVE  /\ \A s \in {"absent", "writing", "stored"} :
                  LET n == [p EXCEPT !.state = s]
                  IN  n \in RestaurantRow /\ n.state = s /\ n.key = p.key /\ n.at = p.at
           /\ \A a \in BOOLEAN :
                  LET n == [p EXCEPT !.active = a]
                  IN  n \in RestaurantRow /\ n.state = p.state /\ n.key = p.key /\ n.at = p.at
           /\ [p EXCEPT !.state = p.state] = p
    BY DEF RestaurantRow

LEMMA InitInv == Init => IInv
<1> SUFFICES ASSUME Init PROVE IInv
    OBVIOUS
<1>1. ASSUME NEW x \in Restaurant
      PROVE  /\ restaurants[x] \in RestaurantRow /\ OwnKey(x)
             /\ x \notin Old => restaurants[x].state = "absent"
    <2>1. x \in Nat /\ NoKey \in Keys /\ x \in Keys
        BY Constants DEF Keys
    <2>2. restaurants[x] =
            [state |-> IF x \in Old THEN "stored" ELSE "absent", active |-> TRUE,
             key |-> IF x \in Old \ Keyless THEN x ELSE NoKey, at |-> IF x \in Old THEN x ELSE 0]
        BY DEF Init
    <2> QED
        BY <2>1, <2>2 DEF RestaurantRow, OwnKey
<1>2. Cardinality(Old) \in Nat
    BY Constants, Subrows
<1>3. Readers
    <2>1. [query |-> Unasked, limit |-> 0, offset |-> 0, over |-> FALSE,
           seen |-> <<>>, standing |-> {}, joined |-> 0, left |-> 0] \in Progress
        BY DEF Progress
    <2> QED
        BY <2>1 DEF Init, ListingInit, Readers
<1>4. restaurants \in [Restaurant -> RestaurantRow]
    BY <1>1 DEF Init
<1>5. TypeOK
    <2>1. /\ dishes \in [Dish -> DishRow] /\ orders \in [Order -> OrderRow]
          /\ writes \in 0 .. MaxWrites /\ clock \in Nat
        <3>1. Dishes0 \in [Dish -> DishRow] /\ Orders0 \in [Order -> OrderRow] /\ MaxWrites \in Nat
            BY RestaurantAssumption, Zenon
        <3>2. 0 \in 0 .. MaxWrites
            BY <3>1
        <3> QED
            BY <1>2, <3>1, <3>2, Zenon DEF Init
    <2>2. /\ pc \in [Request -> PCs] /\ call \in [Request -> Calls \cup {None}]
          /\ result \in [Request -> Results] /\ caller \in [Request -> Restaurant \cup {None}]
          /\ \A r \in Request : pc[r] # "update"
        BY DEF Init, PCs, Results
    <2> QED
        BY <1>3, <1>4, <2>1, <2>2 DEF TypeOK, Readers
<1>6. \A r \in Request : CallKnows(r)
    BY <1>1, Constants DEF Init, CallKnows
<1> QED
    BY <1>1, <1>5, <1>6 DEF IInv

LEMMA ArriveStep ==
    ASSUME IInv, NEW r \in Request, NEW c \in Calls, Arrive(r, c)
    PROVE  IInv'
<1> USE DEF Arrive, Goto, Write, tables
<1>1. /\ pc[r] = "idle" /\ restaurants' = restaurants /\ result' = result /\ caller' = caller
      /\ pc' = [pc EXCEPT ![r] = IF c.op = "Create" THEN "token" ELSE "authenticate"]
      /\ call' = [call EXCEPT ![r] = c]
    OBVIOUS
<1>2. c \in RegisterCall \/ c \in UpdateCall
    BY RestaurantAssumption
<1>3. TypeOK'
    <2>1. writes' \in 0 .. MaxWrites
        BY RestaurantAssumption DEF IInv, TypeOK
    <2>2. pc' \in [Request -> PCs] /\ call' \in [Request -> Calls \cup {None}]
        BY <1>1 DEF IInv, TypeOK, PCs
    <2>3. \A q \in Request : pc'[q] = "update" => caller'[q] \in Restaurant
        BY <1>1 DEF IInv, TypeOK
    <2> QED
        BY <2>1, <2>2, <2>3 DEF IInv, TypeOK
<1>4. \A q \in Request \ {r} : Bystander(q)
    BY <1>1 DEF Bystander, IInv, TypeOK
<1>5. CallKnows(r)'
    <2>1. /\ pc'[r] = IF c.op = "Create" THEN "token" ELSE "authenticate"
          /\ call'[r] = c /\ CallKnows(r)
        BY <1>1 DEF IInv, TypeOK
    <2>2. c.op # "Create" => c \in UpdateCall
        BY <1>2 DEF RegisterCall
    <2> QED
        BY <1>1, <2>1, <2>2 DEF CallKnows
<1>6. StoredStays /\ \A x \in Restaurant : OwnKey(x)'
    BY DEF StoredStays, OwnKey, IInv
<1> QED
    BY <1>3, <1>4, <1>5, <1>6, StepKeeps

LEMMA CreateStep ==
    ASSUME IInv, NEW r \in Request, Create(r)
    PROVE  IInv'
<1> USE DEF Create, Goto, Answer
<1>1. /\ pc[r] = "token" /\ restaurants[r].state = "absent"
      /\ UNCHANGED <<dishes, orders, call, caller, writes, reader>>
    BY DEF IInv, CallKnows
<1>2. CASE ~Bootstrapped(r)
    <2>1. /\ restaurants' = restaurants /\ clock' = clock /\ pc' = [pc EXCEPT ![r] = "done"]
          /\ result' = [result EXCEPT ![r] = "ErrUnauthorized"]
        BY <1>2
    <2>2. TypeOK'
        BY <1>1, <2>1 DEF IInv, TypeOK, PCs, Results
    <2>3. \A q \in Request \ {r} : Bystander(q)
        BY <1>1, <2>1 DEF Bystander, IInv, TypeOK
    <2>4. CallKnows(r)'
        BY <1>1, <2>1 DEF IInv, TypeOK, CallKnows
    <2>5. StoredStays /\ \A x \in Restaurant : OwnKey(x)'
        BY <2>1 DEF StoredStays, OwnKey, IInv
    <2> QED
        BY <2>2, <2>3, <2>4, <2>5, StepKeeps
<1>3. CASE Bootstrapped(r)
    <2>1. PICK t \in Now :
            /\ clock' = t
            /\ restaurants' = [restaurants EXCEPT ![r] =
                   [state |-> "writing", active |-> TRUE, key |-> IssuedKey(r), at |-> t]]
        BY <1>3
    <2>2. result' = result /\ pc' = [pc EXCEPT ![r] = "commit"]
        BY <1>3
    <2>3. t \in Nat
        BY DEF Now, IInv, TypeOK
    <2> DEFINE row == [state |-> "writing", active |-> TRUE, key |-> IssuedKey(r), at |-> t]
    <2>4. row \in RestaurantRow /\ row.state = "writing" /\ row.key = r
        BY <2>3, Constants DEF RestaurantRow, IssuedKey, Keys
    <2> HIDE DEF row
    <2>5. /\ restaurants' = [restaurants EXCEPT ![r] = row]
          /\ restaurants'[r] = row
          /\ \A x \in Restaurant \ {r} : restaurants'[x] = restaurants[x]
          /\ restaurants' \in [Restaurant -> RestaurantRow]
        BY <2>1, <2>4, Constants DEF row, IInv, TypeOK
    <2>6. TypeOK'
        BY <1>1, <2>1, <2>2, <2>3, <2>5 DEF IInv, TypeOK, PCs
    <2>7. StoredStays
        BY <1>1, <2>5 DEF StoredStays
    <2>8. \A x \in Restaurant : OwnKey(x)'
        BY <2>4, <2>5 DEF OwnKey, IInv
    <2>9. \A q \in Request \ {r} : Bystander(q)
        BY <1>1, <2>2, <2>5, Constants DEF Bystander, IInv, TypeOK
    <2>10. CallKnows(r)'
        BY <1>1, <2>2, <2>4, <2>5 DEF IInv, TypeOK, CallKnows
    <2> QED
        BY <2>6, <2>7, <2>8, <2>9, <2>10, StepKeeps
<1> QED
    BY <1>2, <1>3

\* The row of r gets another state and keeps the rest.
LEMMA StateChanged ==
    ASSUME IInv, NEW r \in Request, NEW s \in {"absent", "writing", "stored"},
           restaurants' = [restaurants EXCEPT ![r].state = s]
    PROVE  /\ restaurants' \in [Restaurant -> RestaurantRow]
           /\ \A x \in Restaurant \ {r} : restaurants'[x] = restaurants[x]
           /\ restaurants'[r].state = s /\ restaurants'[r].key = restaurants[r].key
           /\ restaurants'[r].at = restaurants[r].at
           /\ s = restaurants[r].state => restaurants' = restaurants
<1> DEFINE n == [restaurants[r] EXCEPT !.state = s]
<1>1. restaurants[r] \in RestaurantRow
    BY Constants DEF IInv, TypeOK
<1>2. /\ n \in RestaurantRow /\ n.state = s /\ n.key = restaurants[r].key
      /\ n.at = restaurants[r].at
    BY <1>1 DEF RestaurantRow
<1>4. s = restaurants[r].state => n = restaurants[r]
    BY <1>1 DEF RestaurantRow
<1>3. restaurants' = [restaurants EXCEPT ![r] = n]
    OBVIOUS
<1> HIDE DEF n
<1> QED
    BY <1>2, <1>3, <1>4, Constants DEF IInv, TypeOK

LEMMA RegisteredStep ==
    ASSUME IInv, NEW r \in Request, Registered(r)
    PROVE  IInv'
<1> USE DEF Registered, Goto, Answer
<1>1. PICK v \in {"created", "lost"} :
          pc' = [pc EXCEPT ![r] = "done"] /\ result' = [result EXCEPT ![r] = v]
    OBVIOUS
<1>2. /\ pc[r] = "commit" /\ restaurants[r].state = "writing" /\ restaurants[r].key = r
      /\ UNCHANGED <<dishes, orders, call, caller, clock, writes>>
    BY DEF IInv, CallKnows
<1>3. /\ restaurants' \in [Restaurant -> RestaurantRow]
      /\ \A x \in Restaurant \ {r} : restaurants'[x] = restaurants[x]
      /\ restaurants'[r].state = "stored" /\ restaurants'[r].key = r
    BY <1>2, StateChanged
<1>4. Readers'
    BY TrackKeeps DEF IInv, TypeOK, Readers
<1>5. TypeOK'
    BY <1>1, <1>2, <1>3, <1>4 DEF IInv, TypeOK, PCs, Results, Readers
<1>6. StoredStays
    BY <1>2, <1>3 DEF StoredStays
<1>7. \A x \in Restaurant : OwnKey(x)'
    BY <1>3 DEF OwnKey, IInv
<1>8. \A q \in Request \ {r} : Bystander(q)
    BY <1>1, <1>2, <1>3, Constants DEF Bystander, IInv, TypeOK
<1>9. CallKnows(r)'
    BY <1>1, <1>2, <1>3 DEF IInv, TypeOK, CallKnows
<1> QED
    BY <1>5, <1>6, <1>7, <1>8, <1>9, StepKeeps

LEMMA FailStep ==
    ASSUME IInv, NEW r \in Request, Fail(r)
    PROVE  IInv'
<1> USE DEF Fail, Goto, Answer
<1> DEFINE s == IF restaurants[r].state = "writing" THEN "absent" ELSE restaurants[r].state
<1>1. /\ pc[r] \notin {"idle", "done"} /\ restaurants[r] \in RestaurantRow
      /\ UNCHANGED <<dishes, orders, call, caller, clock, writes, reader>>
      /\ pc' = [pc EXCEPT ![r] = "done"] /\ result' = [result EXCEPT ![r] = "lost"]
    BY Constants DEF IInv, TypeOK
<1>2. s \in {"absent", "writing", "stored"} /\ restaurants' = [restaurants EXCEPT ![r].state = s]
    BY <1>1 DEF RestaurantRow
<1>3. /\ restaurants' \in [Restaurant -> RestaurantRow]
      /\ \A x \in Restaurant \ {r} : restaurants'[x] = restaurants[x]
      /\ restaurants'[r].state = s /\ restaurants'[r].key = restaurants[r].key
    BY <1>2, StateChanged
<1>4. restaurants[r].state = "stored" => s = "stored"
    OBVIOUS
<1> HIDE DEF s
<1>5. TypeOK'
    <2>1. pc' \in [Request -> PCs] /\ result' \in [Request -> Results]
        BY <1>1 DEF IInv, TypeOK, PCs, Results
    <2>2. \A q \in Request : pc'[q] = "update" => caller'[q] \in Restaurant
        BY <1>1 DEF IInv, TypeOK
    <2> HIDE DEF Fail
    <2>3. /\ dishes' \in [Dish -> DishRow] /\ orders' \in [Order -> OrderRow]
          /\ call' \in [Request -> Calls \cup {None}]
          /\ caller' \in [Request -> Restaurant \cup {None}]
          /\ clock' \in Nat /\ writes' \in 0 .. MaxWrites /\ reader' \in [Reader -> Progress]
        BY <1>1 DEF IInv, TypeOK
    <2> QED
        BY <1>3, <2>1, <2>2, <2>3 DEF TypeOK
<1>6. StoredStays
    BY <1>3, <1>4 DEF StoredStays
<1>7. \A x \in Restaurant : OwnKey(x)'
    BY <1>3 DEF OwnKey, IInv
<1>8. \A q \in Request \ {r} : Bystander(q)
    BY <1>1, <1>3, Constants DEF Bystander, IInv, TypeOK
<1>9. CallKnows(r)'
    <2>1. pc'[r] = "done" /\ result'[r] = "lost" /\ caller'[r] = caller[r] /\ call'[r] = call[r]
        BY <1>1 DEF IInv, TypeOK
    <2>2. CallKnows(r) /\ caller[r] \in Restaurant \cup {None}
        BY DEF IInv, TypeOK
    <2> QED
        BY <1>6, <2>1, <2>2 DEF CallKnows, StoredStays
<1> QED
    BY <1>5, <1>6, <1>7, <1>8, <1>9, StepKeeps

LEMMA PartnerAuthStep ==
    ASSUME IInv, NEW r \in Request, PartnerAuth(r)
    PROVE  IInv'
<1> USE DEF PartnerAuth, Goto, Answer, tables
<1>1. /\ pc[r] = "authenticate" /\ CallKnows(r)
      /\ UNCHANGED <<restaurants, dishes, orders, call, clock, writes, reader>>
    BY DEF IInv
<1>2. StoredStays /\ \A x \in Restaurant : OwnKey(x)'
    BY <1>1 DEF StoredStays, OwnKey, IInv
<1>3. CASE Refused(r)
    <2>1. /\ pc' = [pc EXCEPT ![r] = "done"] /\ result' = [result EXCEPT ![r] = "ErrUnauthorized"]
          /\ caller' = caller
        BY <1>3
    <2>2. TypeOK'
        BY <1>1, <2>1 DEF IInv, TypeOK, PCs, Results
    <2>3. \A q \in Request \ {r} : Bystander(q)
        BY <1>1, <2>1 DEF Bystander, IInv, TypeOK
    <2>4. CallKnows(r)'
        BY <1>1, <2>1 DEF IInv, TypeOK, CallKnows
    <2> QED
        BY <1>2, <2>2, <2>3, <2>4, StepKeeps
<1>4. CASE ~Refused(r)
    <2> DEFINE x == CHOOSE y \in Holders(call[r].key) : TRUE
    <2>1. x \in Holders(call[r].key)
        BY <1>4 DEF Refused
    <2>2. /\ caller' = [caller EXCEPT ![r] = x] /\ pc' = [pc EXCEPT ![r] = "update"]
          /\ result' = result
        BY <1>4 DEF Refused
    <2> HIDE DEF x
    <2>3. /\ x \in Restaurant /\ restaurants[x].state = "stored"
          /\ restaurants[x].key = call[r].key /\ call[r].key # NoKey
        BY <2>1 DEF Holders
    <2>4. TypeOK'
        BY <1>1, <2>2, <2>3 DEF IInv, TypeOK, PCs
    <2>5. \A q \in Request \ {r} : Bystander(q)
        BY <1>1, <2>2 DEF Bystander, IInv, TypeOK
    <2>6. CallKnows(r)'
        <3>1. caller'[r] = x /\ pc'[r] = "update" /\ x # None
            BY <2>2, <2>3, Constants DEF IInv, TypeOK
        <3> QED
            BY <1>1, <2>2, <2>3, <3>1 DEF CallKnows
    <2> QED
        BY <1>2, <2>4, <2>5, <2>6, StepKeeps
<1> QED
    BY <1>3, <1>4

\* What a step of Update writes: at most whether the caller's own restaurant is active.
LEMMA UpdateWrites ==
    ASSUME IInv, NEW r \in Request, Update(r)
    PROVE  /\ restaurants' \in [Restaurant -> RestaurantRow]
           /\ \A x \in Restaurant :
                  restaurants'[x].state = restaurants[x].state /\ restaurants'[x].key = restaurants[x].key
           /\ \A x \in Restaurant : restaurants'[x].at = restaurants[x].at
           /\ \A x \in Restaurant : restaurants'[x] # restaurants[x] => x = caller[r]
           /\ pc' = [pc EXCEPT ![r] = "done"]
<1> DEFINE x == call[r].id
           n == [restaurants[x] EXCEPT !.active = call[r].active]
<1>1. pc[r] = "update" /\ call[r] \in UpdateCall
    BY DEF Update, IInv, CallKnows
<1>2. x \in Restaurant /\ call[r].active \in BOOLEAN
    BY <1>1 DEF UpdateCall
<1>3. restaurants \in [Restaurant -> RestaurantRow] /\ restaurants[x] \in RestaurantRow
    BY <1>2 DEF IInv, TypeOK
<1>4. /\ n \in RestaurantRow /\ n.state = restaurants[x].state /\ n.key = restaurants[x].key
      /\ n.at = restaurants[x].at
    BY <1>2, <1>3, RowUpdated
<1>5. \/ restaurants' = restaurants
      \/ Owns(r) /\ restaurants' = [restaurants EXCEPT ![x] = n]
    BY DEF Update
<1>6. pc' = [pc EXCEPT ![r] = "done"]
    BY DEF Update, Answer, Goto
<1> HIDE DEF n, x
<1> QED
    BY <1>2, <1>3, <1>4, <1>5, <1>6 DEF Owns, x

LEMMA UpdateStep ==
    ASSUME IInv, NEW r \in Request, Update(r)
    PROVE  IInv'
<1>1. PICK v \in {"ok", "lost", "ErrRestaurantNotFound"} :
          pc' = [pc EXCEPT ![r] = "done"] /\ result' = [result EXCEPT ![r] = v]
    BY DEF Update, Answer, Goto
<1>2. UNCHANGED <<dishes, orders, call, caller, clock, writes>>
    BY DEF Update
<1>3. /\ restaurants' \in [Restaurant -> RestaurantRow]
      /\ \A x \in Restaurant :
             restaurants'[x].state = restaurants[x].state /\ restaurants'[x].key = restaurants[x].key
    BY UpdateWrites
<1>4. Readers'
    BY TrackKeeps DEF Update, IInv, TypeOK, Readers
<1>5. TypeOK'
    BY <1>1, <1>2, <1>3, <1>4 DEF IInv, TypeOK, PCs, Results, Readers
<1>6. StoredStays
    BY <1>3 DEF StoredStays
<1>7. \A x \in Restaurant : OwnKey(x)'
    BY <1>3 DEF OwnKey, IInv
<1>8. \A q \in Request \ {r} : Bystander(q)
    BY <1>1, <1>2, <1>3, Constants DEF Bystander, IInv, TypeOK
<1>9. CallKnows(r)'
    <2>1. pc'[r] = "done" /\ result'[r] = v /\ caller'[r] = caller[r] /\ call'[r] = call[r]
        BY <1>1, <1>2 DEF IInv, TypeOK
    <2>2. CallKnows(r) /\ caller[r] \in Restaurant \cup {None}
        BY DEF IInv, TypeOK
    <2> QED
        BY <1>6, <2>1, <2>2 DEF CallKnows, StoredStays
<1> QED
    BY <1>5, <1>6, <1>7, <1>8, <1>9, StepKeeps

\* The steps of the other services and of the clients that read.
LEMMA OtherStep ==
    ASSUME IInv,
           \/ \E d \in Dish, row \in DishRow : EditDish(d, row)
           \/ \E o \in Order : BeginOrder(o) \/ CommitOrder(o) \/ \E t \in Statuses : MoveOrder(o, t)
           \/ \E c \in Reader : NextPage(c) \/ \E q \in Query, n \in Limits : OpenList(c, q, n)
    PROVE  IInv'
<1> USE DEF requests, tables
<1>1. ASSUME UNCHANGED <<restaurants, requests>>,
             dishes' \in [Dish -> DishRow], orders' \in [Order -> OrderRow],
             clock' \in Nat, writes' \in 0 .. MaxWrites, Readers'
      PROVE  IInv'
    <2>1. TypeOK'
        BY <1>1 DEF IInv, TypeOK, Readers
    <2> QED
        BY <1>1, <2>1, NoRequestSteps
<1>2. /\ dishes \in [Dish -> DishRow] /\ orders \in [Order -> OrderRow]
      /\ clock \in Nat /\ writes \in 0 .. MaxWrites /\ Readers
    BY DEF IInv, TypeOK, Readers
<1>3. Write => writes' \in 0 .. MaxWrites
    BY <1>2, RestaurantAssumption DEF Write
<1>4. \A o \in Order, t \in Now : t \in Nat
    BY <1>2 DEF Now
<1>5. ASSUME NEW d \in Dish, NEW row \in DishRow, EditDish(d, row) PROVE IInv'
    BY <1>1, <1>2, <1>3, <1>5, TrackKeeps DEF EditDish
<1>6. ASSUME NEW o \in Order, NEW s \in {"absent", "writing", "stored"}, NEW t \in Nat
      PROVE  [orders[o] EXCEPT !.state = s, !.at = t] \in OrderRow
    BY <1>2 DEF OrderRow
<1>7. ASSUME NEW o \in Order, BeginOrder(o) PROVE IInv'
    <2>1. PICK t \in Nat : clock' = t /\ orders' = [orders EXCEPT ![o].state = "writing", ![o].at = t]
        BY <1>2, <1>4, <1>7 DEF BeginOrder
    <2> DEFINE row == [orders[o] EXCEPT !.state = "writing", !.at = t]
    <2>2. row \in OrderRow
        BY <1>6
    <2>3. orders' = [orders EXCEPT ![o] = row]
        BY <1>2, <2>1
    <2> HIDE DEF row
    <2>4. orders' \in [Order -> OrderRow]
        BY <1>2, <2>2, <2>3
    <2> QED
        BY <1>1, <1>2, <1>3, <1>7, <2>1, <2>4, ReadersStay DEF BeginOrder
<1>8. ASSUME NEW o \in Order, CommitOrder(o) PROVE IInv'
    <2> DEFINE row == [orders[o] EXCEPT !.state = "stored"]
    <2>1. row \in OrderRow
        BY <1>2 DEF OrderRow
    <2>2. orders' = [orders EXCEPT ![o] = row]
        BY <1>8 DEF CommitOrder
    <2> HIDE DEF row
    <2>3. orders' \in [Order -> OrderRow]
        BY <1>2, <2>1, <2>2
    <2> QED
        BY <1>1, <1>2, <1>8, <2>3, TrackKeeps DEF CommitOrder
<1>9. ASSUME NEW o \in Order, NEW t \in Statuses, MoveOrder(o, t) PROVE IInv'
    <2> DEFINE row == [orders[o] EXCEPT !.status = t]
    <2>1. row \in OrderRow
        BY <1>2 DEF OrderRow
    <2>2. orders' = [orders EXCEPT ![o] = row]
        BY <1>9 DEF MoveOrder
    <2> HIDE DEF row
    <2>3. orders' \in [Order -> OrderRow]
        BY <1>2, <2>1, <2>2
    <2> QED
        BY <1>1, <1>2, <1>3, <1>9, <2>3, TrackKeeps DEF MoveOrder
<1>10. ASSUME NEW c \in Reader, NextPage(c) PROVE IInv'
    <2>1. reader[c].query \in Query
        BY <1>2, <1>10 DEF NextPage, Readers, Progress
    <2>2. Readers'
        BY <1>2, <1>10, <2>1, ListedRows, ReadPageKeeps DEF NextPage
    <2> QED
        BY <1>1, <1>2, <1>10, <2>2 DEF NextPage
<1>11. ASSUME NEW c \in Reader, NEW q \in Query, NEW n \in Limits, OpenList(c, q, n) PROVE IInv'
    <2>1. Readers'
        BY <1>2, <1>11, ListedRows, AskKeeps DEF OpenList
    <2> QED
        BY <1>1, <1>2, <1>11, <2>1 DEF OpenList
<1> QED
    BY <1>5, <1>7, <1>8, <1>9, <1>10, <1>11

LEMMA NextInv == IInv /\ [Next]_vars => IInv'
<1> SUFFICES ASSUME IInv, [Next]_vars PROVE IInv'
    OBVIOUS
<1>1. CASE UNCHANGED vars
    <2>1. TypeOK'
        BY <1>1 DEF vars, IInv, TypeOK
    <2> QED
        BY <1>1, <2>1, NoRequestSteps DEF vars, requests
<1>2. CASE Next
    BY <1>2, ArriveStep, CreateStep, RegisteredStep, PartnerAuthStep, UpdateStep, FailStep, OtherStep
       DEF Next
<1> QED
    BY <1>1, <1>2

-----------------------------------------------------------------------------
(***************************************************************************)
(* Types and keys.                                                         *)
(***************************************************************************)

\* The inductive invariant of the tables and of the partner's requests.
THEOREM Invariant == Spec => []IInv
    BY InitInv, NextInv, PTL DEF Spec

\* Every variable has its type, and no handler behind PartnerAuth runs without a caller
\* (partner_auth.go).
THEOREM TypeCorrect == Spec => []TypeOK
<1>1. IInv => TypeOK
    BY DEF IInv
<1> QED
    BY <1>1, Invariant, PTL

\* A key opens the one restaurant it was issued to, and the empty key none (restaurant_service.go,
\* restaurant_repo.go GetByAPIKey).
THEOREM KeysOpen == Spec => []KeysOpenTheirRow
<1>1. IInv => KeysOpenTheirRow
    <2> SUFFICES ASSUME IInv PROVE KeysOpenTheirRow
        OBVIOUS
    <2>1. ASSUME NEW r \in Request, result[r] = "created" PROVE Holders(restaurants[r].key) = {r}
        <3>1. r \in Restaurant /\ r # NoKey /\ restaurants[r].state = "stored" /\ restaurants[r].key = r
            BY <2>1, Constants DEF IInv, CallKnows
        <3>2. \A x \in Restaurant : restaurants[x].key = r => x = r
            BY <3>1 DEF IInv, OwnKey
        <3> QED
            BY <3>1, <3>2 DEF Holders
    <2>2. \A r \in Request : caller[r] # None =>
              call[r].key = restaurants[caller[r]].key /\ restaurants[caller[r]].key # NoKey
        BY DEF IInv, CallKnows
    <2> QED
        BY <2>1, <2>2 DEF KeysOpenTheirRow
<1> QED
    BY <1>1, Invariant, PTL

LEMMA OwnersEdit ==
    ASSUME IInv, [Next]_vars, NEW x \in Restaurant,
           restaurants[x].state = "stored", restaurants'[x] # restaurants[x]
    PROVE  \E r \in Request : /\ pc[r] = "update" /\ pc'[r] = "done"
                              /\ call[r].key = restaurants[x].key /\ call[r].key # NoKey
<1>1. ASSUME NEW r \in Request, Create(r) PROVE FALSE
    <2>1. restaurants[r].state = "absent"
        BY <1>1 DEF Create, IInv, CallKnows
    <2> QED
        BY <1>1, <2>1 DEF Create, IInv, TypeOK
<1>2. ASSUME NEW r \in Request, Registered(r) PROVE FALSE
    <2>1. restaurants[r].state = "writing" /\ restaurants' = [restaurants EXCEPT ![r].state = "stored"]
        BY <1>2 DEF Registered, IInv, CallKnows
    <2> QED
        BY <2>1, StateChanged
<1>3. ASSUME NEW r \in Request, Fail(r) PROVE FALSE
    <2> DEFINE s == IF restaurants[r].state = "writing" THEN "absent" ELSE restaurants[r].state
    <2>1. restaurants[r] \in RestaurantRow /\ restaurants' = [restaurants EXCEPT ![r].state = s]
        BY <1>3, Constants DEF Fail, IInv, TypeOK
    <2>2. s \in {"absent", "writing", "stored"}
        BY <2>1 DEF RestaurantRow
    <2>3. restaurants[r].state = "stored" => s = restaurants[r].state
        OBVIOUS
    <2> HIDE DEF s
    <2> QED
        BY <2>1, <2>2, <2>3, StateChanged
<1>4. ASSUME NEW r \in Request, Update(r)
      PROVE  /\ pc[r] = "update" /\ pc'[r] = "done"
             /\ call[r].key = restaurants[x].key /\ call[r].key # NoKey
    <2>1. x = caller[r] /\ pc' = [pc EXCEPT ![r] = "done"]
        BY <1>4, UpdateWrites
    <2>2. pc[r] = "update" /\ caller[r] # None
        BY <1>4 DEF Update, IInv, CallKnows
    <2> QED
        BY <2>1, <2>2 DEF IInv, TypeOK, CallKnows
<1>5. restaurants' = restaurants \/ \E r \in Request : Create(r) \/ Registered(r) \/ Fail(r) \/ Update(r)
    BY DEF Next, vars, tables, Arrive, PartnerAuth, EditDish, BeginOrder, CommitOrder, MoveOrder,
           NextPage, OpenList
<1> QED
    BY <1>1, <1>2, <1>3, <1>4, <1>5

\* A stored row changes only by a call that presented the key of that very restaurant: the id of
\* the path and the key of the header name the same row (partner_handler.go, partner_auth.go).
THEOREM OwnersOnly == Spec => OnlyOwnersEdit
<1>1. IInv /\ [Next]_vars =>
          [\A x \in Restaurant :
              restaurants[x].state = "stored" /\ restaurants'[x] # restaurants[x] =>
                  \E r \in Request : /\ pc[r] = "update" /\ pc'[r] = "done"
                                     /\ call[r].key = restaurants[x].key /\ call[r].key # NoKey]_vars
    BY OwnersEdit
<1> QED
    BY <1>1, Invariant, PTL DEF Spec, OnlyOwnersEdit

-----------------------------------------------------------------------------
(***************************************************************************)
(* The lists keep their order.                                             *)
(***************************************************************************)

LEMMA NewerOrders ==
    ASSUME NEW rows, \A x \in DOMAIN rows : rows[x].at \in Nat, NEW S \in SUBSET DOMAIN rows,
           \A x, y \in S : rows[x].at = rows[y].at => x = y
    PROVE  IsOrder(S, Newer(rows))
<1>1. \A x, y \in S : x \in Newer(rows)[y] <=> rows[x].at > rows[y].at
    BY DEF Newer
<1>2. \A x \in S : rows[x].at \in Nat
    OBVIOUS
<1> QED
    BY <1>1, <1>2 DEF IsOrder

LEMMA ByNameOrders ==
    ASSUME NEW table \in [Dish -> DishRow], NEW first,
           first = [d \in Dish |-> {e \in Dish : \/ table[e].name < table[d].name
                                                 \/ table[e].name = table[d].name /\ e < d}],
           NEW S \in SUBSET Dish
    PROVE  IsOrder(S, first)
<1>1. Dish \subseteq Nat /\ Names \subseteq Nat
    BY RestaurantAssumption, ListingAssumption
<1>2. \A d \in S : d \in Nat /\ table[d].name \in Nat
    BY <1>1 DEF DishRow
<1>3. \A d, e \in S : e \in first[d] <=> \/ table[e].name < table[d].name
                                         \/ table[e].name = table[d].name /\ e < d
    OBVIOUS
<1> QED
    BY <1>2, <1>3 DEF IsOrder

QueryKind(q) == q.list \in {"restaurants", "dishes", "orders"}

LEMMA QueryKinds == \A q \in Query : QueryKind(q)
    BY RestaurantAssumption DEF QueryKind, ListRestaurants, SearchItems, ListOrders

TablesTyped ==
    /\ restaurants \in [Restaurant -> RestaurantRow]
    /\ dishes \in [Dish -> DishRow]
    /\ orders \in [Order -> OrderRow]

\* Unless two rows have a date in common, what the query lists is in one order.
Ordered(q) == ~Tied(q) => IsOrder(Listed(q), First(q))

LEMMA ListedOrder == TablesTyped => \A q \in Query : Ordered(q)
<1> SUFFICES ASSUME TablesTyped, NEW q \in Query, ~Tied(q)
             PROVE  IsOrder(Listed(q), First(q))
    BY DEF Ordered
<1>1. CASE q.list = "restaurants"
    <2>1. Listed(q) = {x \in Restaurant : Active(x)} /\ First(q) = Newer(restaurants)
        BY <1>1 DEF Listed, First
    <2>2. \A x, y \in Listed(q) : restaurants[x].at = restaurants[y].at => x = y
        BY <1>1, <2>1 DEF Tied, Active, TablesTyped
    <2>3. \A x \in DOMAIN restaurants : restaurants[x].at \in Nat
        BY DEF TablesTyped, RestaurantRow
    <2>4. Listed(q) \in SUBSET DOMAIN restaurants
        BY <2>1 DEF TablesTyped
    <2> QED
        BY <2>1, <2>2, <2>3, <2>4, NewerOrders
<1>2. CASE q.list = "dishes"
    <2>1. Listed(q) \in SUBSET Dish /\ First(q) = ByName
        BY <1>2 DEF Listed, First
    <2> QED
        BY <2>1, ByNameOrders DEF TablesTyped, ByName
<1>3. CASE q.list = "orders"
    <2>1. /\ First(q) = Newer(orders)
          /\ Listed(q) = {o \in Order : orders[o].state = "stored" /\ q.status \in {"any", orders[o].status}}
        BY <1>3 DEF Listed, First
    <2>2. \A x, y \in Listed(q) : orders[x].at = orders[y].at => x = y
        BY <1>3, <2>1 DEF Tied, TablesTyped
    <2>3. \A x \in DOMAIN orders : orders[x].at \in Nat
        BY DEF TablesTyped, OrderRow
    <2>4. Listed(q) \in SUBSET DOMAIN orders
        BY <2>1 DEF TablesTyped
    <2> QED
        BY <2>1, <2>2, <2>3, <2>4, NewerOrders
<1> QED
    BY <1>1, <1>2, <1>3, QueryKinds DEF QueryKind

\* No step takes a stored row away or dates it anew.
Lasting(rows, new) ==
    \A x \in DOMAIN rows : rows[x].state = "stored" =>
        x \in DOMAIN new /\ new[x].state = "stored" /\ new[x].at = rows[x].at

TablesLast == Lasting(restaurants, restaurants') /\ Lasting(orders, orders')

LEMMA ListedOrderNext == TablesTyped' => \A q \in Query : Ordered(q)'
<1>1. (TablesTyped => \A q \in Query : Ordered(q))'
    BY ListedOrder, PTL
<1> QED
    BY <1>1

LEMMA StaysTied ==
    ASSUME TablesTyped, TablesTyped', TablesLast, NEW q \in Query, Tied(q)
    PROVE  Tied(q)'
<1>1. CASE q.list = "restaurants" /\ Tied(q)
    <2>1. PICK x, y \in Restaurant : x # y /\ restaurants[x].state = "stored"
              /\ restaurants[y].state = "stored" /\ restaurants[x].at = restaurants[y].at
        BY <1>1 DEF Tied, TablesTyped
    <2>2. /\ x \in DOMAIN restaurants' /\ y \in DOMAIN restaurants'
          /\ restaurants'[x].state = "stored" /\ restaurants'[y].state = "stored"
          /\ restaurants'[x].at = restaurants'[y].at
        BY <2>1 DEF TablesLast, Lasting, TablesTyped
    <2> QED
        BY <1>1, <2>1, <2>2 DEF Tied
<1>2. CASE q.list = "orders" /\ Tied(q)
    <2>1. PICK x, y \in Order : x # y /\ orders[x].state = "stored"
              /\ orders[y].state = "stored" /\ orders[x].at = orders[y].at
        BY <1>2 DEF Tied, TablesTyped
    <2>2. /\ x \in DOMAIN orders' /\ y \in DOMAIN orders'
          /\ orders'[x].state = "stored" /\ orders'[y].state = "stored"
          /\ orders'[x].at = orders'[y].at
        BY <2>1 DEF TablesLast, Lasting, TablesTyped
    <2> QED
        BY <1>2, <2>1, <2>2 DEF Tied
<1> QED
    BY <1>1, <1>2 DEF Tied

\* The rows a step leaves in a list, those with a new name excepted, keep their order.
LEMMA ListTurns ==
    ASSUME TablesTyped, TablesTyped', TablesLast, NEW q \in Query, ~Tied(q)'
    PROVE  Turns(Listed(q), First(q), Listed(q)', First(q)',
                 (Listed(q) \cap Listed(q)') \ (Renamed(q) \cap Listed(q) \cap Listed(q)'))
<1> DEFINE K == (Listed(q) \cap Listed(q)') \ (Renamed(q) \cap Listed(q) \cap Listed(q)')
<1>1. IsOrder(Listed(q), First(q)) /\ IsOrder(Listed(q)', First(q)')
    BY StaysTied, ListedOrder, ListedOrderNext DEF Ordered
<1>2. SameOrder(K, First(q), First(q)')
    <2>1. CASE q.list = "restaurants"
        <3>1. /\ K \subseteq Restaurant /\ \A x \in K : restaurants[x].state = "stored"
              /\ First(q) = Newer(restaurants) /\ First(q)' = Newer(restaurants')
            BY <2>1 DEF Listed, First, Active, Newer
        <3>2. \A x \in K : restaurants'[x].at = restaurants[x].at
            BY <3>1 DEF TablesLast, Lasting, TablesTyped
        <3>3. \A x, y \in K : /\ x \in Newer(restaurants)[y] <=> restaurants[x].at > restaurants[y].at
                              /\ x \in Newer(restaurants')[y] <=> restaurants'[x].at > restaurants'[y].at
            <4>1. K \subseteq DOMAIN restaurants /\ K \subseteq DOMAIN restaurants'
                BY <3>1 DEF TablesTyped
            <4> HIDE DEF K
            <4> QED
                BY <4>1 DEF Newer
        <3> HIDE DEF K
        <3> QED
            BY <3>1, <3>2, <3>3 DEF SameOrder
    <2>2. CASE q.list = "orders"
        <3>1. /\ K \subseteq Order /\ \A x \in K : orders[x].state = "stored"
              /\ First(q) = Newer(orders) /\ First(q)' = Newer(orders')
            BY <2>2 DEF Listed, First, Newer
        <3>2. \A x \in K : orders'[x].at = orders[x].at
            BY <3>1 DEF TablesLast, Lasting, TablesTyped
        <3>3. \A x, y \in K : /\ x \in Newer(orders)[y] <=> orders[x].at > orders[y].at
                              /\ x \in Newer(orders')[y] <=> orders'[x].at > orders'[y].at
            <4>1. K \subseteq DOMAIN orders /\ K \subseteq DOMAIN orders'
                BY <3>1 DEF TablesTyped
            <4> HIDE DEF K
            <4> QED
                BY <4>1 DEF Newer
        <3> HIDE DEF K
        <3> QED
            BY <3>1, <3>2, <3>3 DEF SameOrder
    <2>3. CASE q.list = "dishes"
        <3>1. /\ K \subseteq Dish /\ First(q) = ByName /\ First(q)' = ByName'
              /\ \A d \in K : d \notin Renamed(q)
            BY <2>3 DEF Listed, First
        <3>2. \A d \in K : dishes'[d].name = dishes[d].name
            BY <2>3, <3>1 DEF Renamed
        <3> HIDE DEF K
        <3>3. \A d, e \in K :
                  /\ e \in ByName[d] <=> \/ dishes[e].name < dishes[d].name
                                         \/ dishes[e].name = dishes[d].name /\ e < d
                  /\ e \in ByName'[d] <=> \/ dishes'[e].name < dishes'[d].name
                                          \/ dishes'[e].name = dishes'[d].name /\ e < d
            BY <3>1 DEF ByName
        <3> QED
            BY <3>1, <3>2, <3>3 DEF SameOrder
    <2> QED
        BY <2>1, <2>2, <2>3, QueryKinds DEF QueryKind
<1> QED
    BY <1>1, <1>2 DEF Turns

-----------------------------------------------------------------------------
(***************************************************************************)
(* What the clients miss and are shown again.                              *)
(***************************************************************************)

\* Nothing is owed to a client whose list has no date twice.
Paid(c) ==
    LET p == reader[c]
    IN  IF p.query = Unasked THEN p.seen = <<>> /\ p.offset = 0 /\ ~p.over
        ELSE ~Tied(p.query) =>
                 /\ ~p.over => p.standing \subseteq Listed(p.query)
                 /\ Accounts(p, Listed(p.query), First(p.query))

PInv == IInv /\ \A c \in Reader : Paid(c)

LEMMA ReaderTyped ==
    ASSUME Readers, NEW c \in Reader
    PROVE  reader[c] \in Progress /\ (reader[c].query # Unasked => reader[c].query \in Query)
    BY DEF Readers, Progress

\* The lists are as they were.
Calm ==
    /\ dishes' = dishes
    /\ \A q \in Query : Listed(q)' = Listed(q)

LEMMA StillPaid ==
    ASSUME TablesTyped, TablesTyped', TablesLast, Readers, Calm,
           NEW c \in Reader, Paid(c), reader'[c] = reader[c]
    PROVE  Paid(c)'
<1>1. CASE reader[c].query = Unasked
    BY <1>1 DEF Paid
<1>2. CASE reader[c].query # Unasked /\ Tied(reader[c].query)'
    BY <1>2 DEF Paid
<1>3. CASE reader[c].query # Unasked /\ ~Tied(reader[c].query)'
    <2>1. PICK p \in Progress : p = reader[c]
        BY ReaderTyped
    <2>2. PICK q \in Query : q = p.query
        BY <1>3, <2>1, ReaderTyped
    <2>3. q # Unasked /\ reader'[c] = p
        BY <1>3, <2>1, <2>2
    <2>4. ~Tied(q)' /\ ~Tied(q)
        BY <1>3, <2>1, <2>2, StaysTied
    <2>5. PICK S \in SUBSET Row : S = Listed(q)
        BY ListedRows
    <2>6. S = Listed(q)'
        BY <2>5 DEF Calm
    <2>7. PICK first, second : first = First(q) /\ second = First(q)'
        OBVIOUS
    <2>8. (~p.over => p.standing \subseteq S) /\ Accounts(p, S, first)
        BY <2>1, <2>2, <2>3, <2>4, <2>5, <2>7 DEF Paid
    <2>9. SameOrder(S, first, second)
        <3>1. (Listed(q) \cap Listed(q)') \ (Renamed(q) \cap Listed(q) \cap Listed(q)') = S
            BY <2>5, <2>6 DEF Renamed, Calm
        <3>2. SameOrder((Listed(q) \cap Listed(q)') \ (Renamed(q) \cap Listed(q) \cap Listed(q)'),
                        First(q), First(q)')
            BY <2>4, ListTurns DEF Turns
        <3> QED
            BY <2>7, <3>1, <3>2, Zenon
    <2>10. Accounts(p, S, second)
        BY <2>8, <2>9, SameAccounts
    <2> QED
        BY <2>1, <2>2, <2>3, <2>6, <2>7, <2>8, <2>10 DEF Paid
<1> QED
    BY <1>1, <1>2, <1>3

\* Whoever has read a list to its end is not concerned by what becomes of it.
LEMMA OverAccounts ==
    ASSUME NEW p, p.over, NEW S, NEW T, NEW first, NEW second, Accounts(p, S, first)
    PROVE  Accounts(p, T, second)
    BY DEF Accounts

LEMMA TrackPays ==
    ASSUME TablesTyped, TablesTyped', TablesLast, Readers, Readers', Track,
           NEW c \in Reader, Paid(c)
    PROVE  Paid(c)'
<1>1. CASE reader[c].query = Unasked
    BY <1>1 DEF Paid, Track
<1>2. CASE reader[c].query # Unasked
    <2>1. PICK p \in Progress : p = reader[c]
        BY ReaderTyped
    <2>2. PICK q \in Query : q = p.query
        BY <1>2, <2>1, ReaderTyped
    <2>3. PICK S \in SUBSET Row, T \in SUBSET Row : S = Listed(q) /\ T = Listed(q)'
        BY ListedRows
    <2>4. PICK first, second : first = First(q) /\ second = First(q)'
        OBVIOUS
    <2>5. PICK M \in SUBSET (S \cap T) : M = Renamed(q) \cap S \cap T
        OBVIOUS
    <2>6. PICK p2 \in Progress : p2 = reader'[c]
        BY DEF Readers
    <2>7. p2 = IF p.over THEN p
               ELSE [p EXCEPT !.standing = (@ \cap T) \ M,
                              !.joined = @ + Cardinality((T \ S) \cup M),
                              !.left = @ + Cardinality((S \ T) \cup M)]
        <3>1. Lists[q] = S /\ Lists'[q] = T
            BY <2>3 DEF Lists
        <3>2. p2 = Changed(c, Lists[q], Lists'[q], Renamed(q) \cap Lists[q] \cap Lists'[q])
            BY <1>2, <2>1, <2>2, <2>6 DEF Track
        <3>3. p2 = Changed(c, S, T, M)
            BY <2>5, <3>1, <3>2
        <3> QED
            BY <1>2, <2>1, <3>3 DEF Changed
    <2>8. p2.query = q
        BY <2>2, <2>7 DEF Progress
    <2>9. CASE Tied(q)'
        BY <1>2, <2>1, <2>2, <2>6, <2>8, <2>9 DEF Paid
    <2>10. CASE ~Tied(q)'
        <3>1. ~Tied(q)
            BY <2>10, StaysTied
        <3>2. (~p.over => p.standing \subseteq S) /\ Accounts(p, S, first)
            BY <1>2, <2>1, <2>2, <2>3, <2>4, <3>1 DEF Paid
        <3>3. (~p2.over => p2.standing \subseteq T) /\ Accounts(p2, T, second)
            <4>1. CASE p.over
                BY <2>7, <3>2, <4>1, OverAccounts
            <4>2. CASE ~p.over
                <5>1. /\ p2.seen = p.seen /\ p2.offset = p.offset /\ p2.over = p.over
                      /\ p2.standing = (p.standing \cap T) \ M
                      /\ p2.joined = p.joined + Cardinality((T \ S) \cup M)
                      /\ p2.left = p.left + Cardinality((S \ T) \cup M)
                    BY <2>7, <4>2 DEF Progress
                <5>2. Turns(S, first, T, second, (S \cap T) \ M)
                    <6>1. (Listed(q) \cap Listed(q)') \ (Renamed(q) \cap Listed(q) \cap Listed(q)') =
                              (S \cap T) \ M
                        BY <2>3, <2>5
                    <6>2. Turns(Listed(q), First(q), Listed(q)', First(q)',
                              (Listed(q) \cap Listed(q)') \ (Renamed(q) \cap Listed(q) \cap Listed(q)'))
                        BY <2>10, ListTurns
                    <6> QED
                        BY <2>3, <2>4, <6>1, <6>2, Zenon
                <5> QED
                    BY <3>2, <4>2, <5>1, <5>2, ChangeAccounts
            <4> QED
                BY <4>1, <4>2
        <3> QED
            BY <1>2, <2>1, <2>2, <2>3, <2>4, <2>6, <2>8, <3>3 DEF Paid
    <2> QED
        BY <2>9, <2>10
<1> QED
    BY <1>1, <1>2

\* A step that reads changes no table.
LEMMA TablesStay ==
    ASSUME UNCHANGED tables, NEW q \in Query
    PROVE  Listed(q)' = Listed(q) /\ First(q)' = First(q) /\ Tied(q)' = Tied(q)
<1>1. /\ restaurants' = restaurants /\ dishes' = dishes /\ orders' = orders
    BY DEF tables
<1>2. \A x \in Restaurant : Active(x)' = Active(x)
    BY <1>1 DEF Active
<1>3. First(q)' = First(q)
    BY <1>1 DEF First, ByName
<1>4. Tied(q)' = Tied(q)
    BY <1>1 DEF Tied
<1> QED
    BY <1>1, <1>2, <1>3, <1>4, RestaurantAssumption DEF Listed

LEMMA OpenListPays ==
    ASSUME UNCHANGED tables, Readers, Readers', NEW c \in Reader, NEW q \in Query, NEW n \in Limits,
           OpenList(c, q, n), Paid(c)
    PROVE  Paid(c)'
<1>1. PICK p \in Progress : p = reader[c]
    BY ReaderTyped
<1>2. PICK S \in SUBSET Row : S = Listed(q)
    BY ListedRows
<1>3. PICK p2 \in Progress : p2 = reader'[c]
    BY DEF Readers
<1>4. p.query = Unasked /\ p.seen = <<>> /\ p.offset = 0 /\ ~p.over
    BY <1>1 DEF OpenList, Ask, Paid
<1>5. p2 = [p EXCEPT !.query = q, !.limit = n, !.standing = S]
    BY <1>1, <1>2, <1>3 DEF OpenList, Ask, Readers
<1>6. p2.query = q /\ p2.seen = <<>> /\ p2.offset = 0 /\ ~p2.over /\ p2.standing = S
    BY <1>4, <1>5 DEF Progress
<1>7. PICK first : first = First(q)
    OBVIOUS
<1>8. Accounts(p2, S, first)
    BY <1>6, NewAccounts
<1>9. Listed(q)' = S /\ First(q)' = first /\ q # Unasked
    BY <1>2, <1>7, TablesStay, ListingAssumption
<1> QED
    BY <1>3, <1>6, <1>8, <1>9 DEF Paid

LEMMA NextPagePays ==
    ASSUME TablesTyped, UNCHANGED tables, Readers, Readers', NEW c \in Reader, NextPage(c), Paid(c)
    PROVE  Paid(c)'
<1>1. PICK p \in Progress : p = reader[c]
    BY ReaderTyped
<1>2. p.query # Unasked /\ ~p.over
    BY <1>1 DEF NextPage, ReadPage
<1>3. PICK q \in Query : q = p.query
    BY <1>1, <1>2, ReaderTyped
<1>4. PICK S \in SUBSET Row, first \in {First(q)} : S = Listed(q)
    BY ListedRows
<1>5. PICK s \in Sorted(S, first) :
          LET page == Page(s, p.limit, p.offset)
          IN  reader' = [reader EXCEPT ![c].seen = @ \o page,
                                       ![c].offset = @ + p.limit,
                                       ![c].over = Len(page) < p.limit]
    BY <1>1, <1>3, <1>4, Zenon DEF NextPage, ReadPage
<1>6. PICK p2 \in Progress : p2 = reader'[c]
    BY DEF Readers
<1>7. PICK page : page = Page(s, p.limit, p.offset)
    OBVIOUS
<1>8. p2 = [p EXCEPT !.seen = @ \o page, !.offset = @ + p.limit, !.over = Len(page) < p.limit]
    BY <1>1, <1>5, <1>6, <1>7 DEF Readers
<1>9. /\ p2.query = q /\ p2.seen = p.seen \o page /\ p2.offset = p.offset + p.limit
      /\ p2.over = (Len(page) < p.limit)
      /\ p2.standing = p.standing /\ p2.joined = p.joined /\ p2.left = p.left
    BY <1>3, <1>8 DEF Progress
<1>10. /\ Listed(q)' = S /\ First(q)' = first /\ Tied(q)' = Tied(q)
    BY <1>4, TablesStay
<1>11. CASE Tied(q)
    BY <1>2, <1>3, <1>6, <1>9, <1>10, <1>11 DEF Paid
<1>12. CASE ~Tied(q)
    <2>1. p.standing \subseteq S /\ Accounts(p, S, first)
        BY <1>1, <1>2, <1>3, <1>4, <1>12 DEF Paid
    <2>2. IsOrder(S, first)
        BY <1>4, <1>12, ListedOrder DEF Ordered
    <2>3. Shows(page, S, first, p.limit, p.offset)
        BY <1>7, <2>2, ProgressFields, PageByRank
    <2>4. Accounts(p2, S, first)
        BY <1>2, <1>9, <2>1, <2>2, <2>3, ReadAccounts
    <2> QED
        BY <1>2, <1>3, <1>6, <1>9, <1>10, <2>1, <2>4 DEF Paid
<1> QED
    BY <1>11, <1>12

\* What a step does to the tables and the readers: it writes and the readers' ghosts follow, it
\* changes nothing a list shows, or one client reads.
StepKind ==
    \/ Track
    \/ Calm /\ reader' = reader
    \/ UNCHANGED tables /\ \E c \in Reader : NextPage(c) \/ \E q \in Query, n \in Limits : OpenList(c, q, n)

LEMMA CalmWhen ==
    ASSUME dishes' = dishes,
           \A x \in Restaurant : Active(x)' = Active(x),
           \A o \in Order : (orders[o].state = "stored" \/ orders'[o].state = "stored") =>
               orders'[o].state = orders[o].state /\ orders'[o].status = orders[o].status
    PROVE  Calm
<1> SUFFICES ASSUME NEW q \in Query PROVE Listed(q)' = Listed(q)
    BY DEF Calm
<1>1. CASE q.list = "restaurants"
    BY <1>1 DEF Listed
<1>2. CASE q.list = "dishes"
    <2>1. \A d \in Dish : RestaurantOf[d] \in Restaurant
        BY RestaurantAssumption
    <2>2. /\ Listed(q) = {d \in Dish : dishes[d].listed /\ Active(RestaurantOf[d])}
          /\ Listed(q)' = {d \in Dish : dishes'[d].listed /\ Active(RestaurantOf[d])'}
        BY <1>2 DEF Listed
    <2>3. \A d \in Dish : Active(RestaurantOf[d])' = Active(RestaurantOf[d])
        BY <2>1
    <2> QED
        BY <2>2, <2>3
<1>3. CASE q.list = "orders"
    BY <1>3 DEF Listed
<1> QED
    BY <1>1, <1>2, <1>3, QueryKinds DEF QueryKind

LEMMA CreateKind ==
    ASSUME IInv, NEW r \in Request, Create(r)
    PROVE  TablesLast /\ StepKind
<1>1. /\ restaurants[r].state = "absent" /\ r \in Restaurant
      /\ UNCHANGED <<dishes, orders, reader>>
      /\ restaurants \in [Restaurant -> RestaurantRow]
    BY Constants DEF Create, IInv, CallKnows, TypeOK
<1>2. /\ \A x \in Restaurant \ {r} : restaurants'[x] = restaurants[x]
      /\ DOMAIN restaurants' = Restaurant
      /\ restaurants'[r].state # "stored"
    <2>1. CASE restaurants' = restaurants
        BY <1>1, <2>1
    <2>2. CASE restaurants' # restaurants
        <3>1. PICK t : restaurants' = [restaurants EXCEPT ![r] =
                  [state |-> "writing", active |-> TRUE, key |-> IssuedKey(r), at |-> t]]
            BY <2>2 DEF Create
        <3> QED
            BY <1>1, <3>1
    <2> QED
        BY <2>1, <2>2
<1>3. TablesLast
    BY <1>1, <1>2 DEF TablesLast, Lasting
<1>4. \A x \in Restaurant : Active(x)' = Active(x)
    BY <1>1, <1>2 DEF Active
<1>5. Calm
    BY <1>1, <1>4, CalmWhen
<1> QED
    BY <1>1, <1>3, <1>5 DEF StepKind

LEMMA RegisteredKind ==
    ASSUME IInv, NEW r \in Request, Registered(r)
    PROVE  TablesLast /\ StepKind
<1>1. orders' = orders /\ Track /\ restaurants' = [restaurants EXCEPT ![r].state = "stored"]
    BY DEF Registered
<1>2. /\ restaurants' \in [Restaurant -> RestaurantRow]
      /\ \A x \in Restaurant \ {r} : restaurants'[x] = restaurants[x]
      /\ restaurants'[r].state = "stored" /\ restaurants'[r].at = restaurants[r].at
    BY <1>1, StateChanged
<1>3. restaurants \in [Restaurant -> RestaurantRow]
    BY DEF IInv, TypeOK
<1> QED
    BY <1>1, <1>2, <1>3 DEF TablesLast, Lasting, StepKind

LEMMA FailKind ==
    ASSUME IInv, NEW r \in Request, Fail(r)
    PROVE  TablesLast /\ StepKind
<1> DEFINE s == IF restaurants[r].state = "writing" THEN "absent" ELSE restaurants[r].state
<1>1. /\ UNCHANGED <<dishes, orders, reader>> /\ restaurants[r] \in RestaurantRow
      /\ restaurants \in [Restaurant -> RestaurantRow]
      /\ restaurants' = [restaurants EXCEPT ![r].state = s]
    BY Constants DEF Fail, IInv, TypeOK
<1>2. s \in {"absent", "writing", "stored"} /\ (s = "stored" <=> restaurants[r].state = "stored")
    BY <1>1 DEF RestaurantRow
<1> HIDE DEF s
<1>3. /\ restaurants' \in [Restaurant -> RestaurantRow]
      /\ \A x \in Restaurant \ {r} : restaurants'[x] = restaurants[x]
      /\ restaurants'[r].state = s /\ restaurants'[r].at = restaurants[r].at
      /\ s = restaurants[r].state => restaurants' = restaurants
    BY <1>1, <1>2, StateChanged
<1>4. TablesLast
    BY <1>1, <1>2, <1>3 DEF TablesLast, Lasting
<1>5. \A x \in Restaurant : Active(x)' = Active(x)
    BY <1>1, <1>2, <1>3 DEF Active
<1>6. Calm
    BY <1>1, <1>5, CalmWhen
<1> QED
    BY <1>1, <1>4, <1>6 DEF StepKind

LEMMA UpdateKind ==
    ASSUME IInv, NEW r \in Request, Update(r)
    PROVE  TablesLast /\ StepKind
<1>1. orders' = orders /\ Track
    BY DEF Update
<1>2. restaurants \in [Restaurant -> RestaurantRow]
    BY DEF IInv, TypeOK
<1>3. /\ restaurants' \in [Restaurant -> RestaurantRow]
      /\ \A x \in Restaurant :
             restaurants'[x].state = restaurants[x].state /\ restaurants'[x].at = restaurants[x].at
    BY UpdateWrites
<1> QED
    BY <1>1, <1>2, <1>3 DEF TablesLast, Lasting, StepKind

\* An order gets another row.
LEMMA OrderChanged ==
    ASSUME IInv, NEW o \in Order, NEW row, orders' = [orders EXCEPT ![o] = row],
           restaurants' = restaurants,
           orders[o].state = "stored" => row.state = "stored" /\ row.at = orders[o].at
    PROVE  TablesLast
    BY DEF IInv, TypeOK, TablesLast, Lasting

LEMMA OrderKind ==
    ASSUME IInv, NEW o \in Order, NEW t \in Statuses, BeginOrder(o) \/ CommitOrder(o) \/ MoveOrder(o, t)
    PROVE  TablesLast /\ StepKind
<1>1. orders \in [Order -> OrderRow] /\ orders[o] \in OrderRow
    BY DEF IInv, TypeOK
<1>2. CASE BeginOrder(o)
    <2>1. PICK n : orders' = [orders EXCEPT ![o].state = "writing", ![o].at = n]
        BY <1>2 DEF BeginOrder
    <2>2. orders[o].state = "absent" /\ UNCHANGED <<restaurants, dishes, reader>>
        BY <1>2 DEF BeginOrder
    <2> DEFINE row == [orders[o] EXCEPT !.state = "writing", !.at = n]
    <2>3. orders' = [orders EXCEPT ![o] = row]
        BY <1>1, <2>1
    <2>4. row.state = "writing"
        BY <1>1 DEF OrderRow
    <2> HIDE DEF row
    <2>5. TablesLast
        BY <2>2, <2>3, OrderChanged
    <2>6. \A x \in Order : (orders[x].state = "stored" \/ orders'[x].state = "stored") =>
              orders'[x].state = orders[x].state /\ orders'[x].status = orders[x].status
        BY <1>1, <2>2, <2>3, <2>4
    <2>7. \A x \in Restaurant : Active(x)' = Active(x)
        BY <2>2 DEF Active
    <2>8. Calm
        BY <2>2, <2>6, <2>7, CalmWhen
    <2> QED
        BY <2>2, <2>5, <2>8 DEF StepKind
<1>3. CASE CommitOrder(o)
    <2> DEFINE row == [orders[o] EXCEPT !.state = "stored"]
    <2>1. orders' = [orders EXCEPT ![o] = row] /\ restaurants' = restaurants /\ Track
        BY <1>1, <1>3 DEF CommitOrder
    <2>2. row.state = "stored" /\ row.at = orders[o].at
        BY <1>1 DEF OrderRow
    <2> HIDE DEF row
    <2> QED
        BY <2>1, <2>2, OrderChanged DEF StepKind
<1>4. CASE MoveOrder(o, t)
    <2> DEFINE row == [orders[o] EXCEPT !.status = t]
    <2>1. orders' = [orders EXCEPT ![o] = row] /\ restaurants' = restaurants /\ Track
        BY <1>1, <1>4 DEF MoveOrder
    <2>2. row.state = orders[o].state /\ row.at = orders[o].at
        BY <1>1 DEF OrderRow
    <2> HIDE DEF row
    <2> QED
        BY <2>1, <2>2, OrderChanged DEF StepKind
<1> QED
    BY <1>2, <1>3, <1>4

LEMMA NoTablesKind ==
    ASSUME IInv, UNCHANGED tables
    PROVE  TablesLast /\ (reader' = reader => StepKind)
<1>1. TablesLast
    BY DEF tables, TablesLast, Lasting
<1>2. Calm
    BY TablesStay DEF Calm, tables
<1> QED
    BY <1>1, <1>2 DEF StepKind

LEMMA EveryKind ==
    ASSUME IInv, [Next]_vars
    PROVE  TablesLast /\ StepKind
<1>1. ASSUME NEW r \in Request, NEW c \in Calls, Arrive(r, c) PROVE TablesLast /\ StepKind
    BY <1>1, NoTablesKind DEF Arrive
<1>2. ASSUME NEW r \in Request, PartnerAuth(r) PROVE TablesLast /\ StepKind
    BY <1>2, NoTablesKind DEF PartnerAuth
<1>3. ASSUME NEW d \in Dish, NEW row \in DishRow, EditDish(d, row) PROVE TablesLast /\ StepKind
    <2>1. restaurants' = restaurants /\ orders' = orders /\ Track
        BY <1>3 DEF EditDish
    <2> QED
        BY <2>1 DEF TablesLast, Lasting, StepKind
<1>4. ASSUME NEW c \in Reader, NextPage(c) PROVE TablesLast /\ StepKind
    <2>1. UNCHANGED tables
        BY <1>4 DEF NextPage
    <2> QED
        BY <1>4, <2>1, NoTablesKind DEF StepKind
<1>5. ASSUME NEW c \in Reader, NEW q \in Query, NEW n \in Limits, OpenList(c, q, n)
      PROVE  TablesLast /\ StepKind
    <2>1. UNCHANGED tables
        BY <1>5 DEF OpenList
    <2> QED
        BY <1>5, <2>1, NoTablesKind DEF StepKind
<1>6. CASE UNCHANGED vars
    <2>1. UNCHANGED tables /\ reader' = reader
        BY <1>6 DEF vars, tables
    <2> QED
        BY <2>1, NoTablesKind
<1>7. ASSUME NEW o \in Order, BeginOrder(o) \/ CommitOrder(o) \/ \E t \in Statuses : MoveOrder(o, t)
      PROVE  TablesLast /\ StepKind
    <2>1. "created" \in Statuses
        BY DEF Statuses
    <2> QED
        BY <1>7, <2>1, OrderKind
<1>8. CASE Next
    BY <1>1, <1>2, <1>3, <1>4, <1>5, <1>7, <1>8,
       CreateKind, RegisteredKind, FailKind, UpdateKind DEF Next
<1> QED
    BY <1>6, <1>8

LEMMA InitPaid == Init => PInv
<1> SUFFICES ASSUME Init PROVE PInv
    OBVIOUS
<1>1. \A c \in Reader : reader[c] =
          [query |-> Unasked, limit |-> 0, offset |-> 0, over |-> FALSE,
           seen |-> <<>>, standing |-> {}, joined |-> 0, left |-> 0]
    BY DEF Init, ListingInit
<1> QED
    BY <1>1, InitInv DEF PInv, Paid

LEMMA NextPaid == PInv /\ [Next]_vars => PInv'
<1> SUFFICES ASSUME PInv, [Next]_vars, NEW c \in Reader PROVE Paid(c)'
    BY NextInv DEF PInv
<1>1. IInv /\ IInv' /\ Paid(c)
    BY NextInv DEF PInv
<1>2. TablesTyped /\ TablesTyped' /\ Readers /\ Readers'
    BY <1>1 DEF IInv, TypeOK, TablesTyped, Readers
<1>3. TablesLast /\ StepKind
    BY <1>1, EveryKind
<1>4. CASE Track
    BY <1>1, <1>2, <1>3, <1>4, TrackPays
<1>5. CASE Calm /\ reader' = reader
    <2>1. reader'[c] = reader[c]
        BY <1>5
    <2> QED
        BY <1>1, <1>2, <1>3, <1>5, <2>1, StillPaid
<1>6. ASSUME UNCHANGED tables, NEW d \in Reader, NEW q \in Query, NEW n \in Limits,
             OpenList(d, q, n)
      PROVE  Paid(c)'
    <2>1. CASE d = c
        BY <1>1, <1>2, <1>6, <2>1, OpenListPays
    <2>2. CASE d # c
        <3>1. reader'[c] = reader[c]
            BY <1>2, <1>6, <2>2 DEF OpenList, Ask, Readers
        <3>2. Calm
            BY <1>6, TablesStay DEF Calm, tables
        <3> QED
            BY <1>1, <1>2, <1>3, <3>1, <3>2, StillPaid
    <2> QED
        BY <2>1, <2>2
<1>7. ASSUME UNCHANGED tables, NEW d \in Reader, NextPage(d) PROVE Paid(c)'
    <2>1. CASE d = c
        BY <1>1, <1>2, <1>7, <2>1, NextPagePays
    <2>2. CASE d # c
        <3>1. reader'[c] = reader[c]
            BY <1>2, <1>7, <2>2 DEF NextPage, ReadPage, Readers
        <3>2. Calm
            BY <1>7, TablesStay DEF Calm, tables
        <3> QED
            BY <1>1, <1>2, <1>3, <3>1, <3>2, StillPaid
    <2> QED
        BY <2>1, <2>2
<1> QED
    BY <1>3, <1>4, <1>5, <1>6, <1>7 DEF StepKind

\* The inductive invariant of the clients that read.
THEOREM Paying == Spec => []PInv
    BY InitPaid, NextPaid, PTL DEF Spec

\* What is owed to a reader, in the words of the properties.
LEMMA Owed ==
    ASSUME PInv, NEW c \in Reader, reader[c].query # Unasked, ~Tied(reader[c].query)
    PROVE  /\ reader[c].over => Cardinality(Missed(c)) <= reader[c].left
           /\ Repeats(c) <= reader[c].joined
<1>1. PICK p \in Progress : p = reader[c]
    BY ReaderTyped DEF PInv, IInv, TypeOK, Readers
<1>2. p.query \in Query
    BY <1>1 DEF Progress
<1>3. PICK S \in SUBSET Row, first \in {First(p.query)} : S = Listed(p.query)
    BY <1>2, ListedRows
<1>4. Accounts(p, S, first)
    BY <1>1, <1>3 DEF PInv, Paid
<1>5. Missed(c) = MissedBy(p) /\ Repeats(c) = RepeatsTo(p)
    BY <1>1 DEF Missed, Shown, Repeats, MissedBy, ShownTo, RepeatsTo
<1>6. Risen(p, S, first) \in SUBSET Row
    BY DEF Risen
<1>7. Cardinality(Risen(p, S, first)) \in Nat
    BY <1>6, Subrows
<1>8. RepeatsTo(p) \in Int /\ p.joined \in Nat
    BY ShownRows, ProgressFields
<1>9. (p.over => Cardinality(MissedBy(p)) <= p.left) /\ RepeatsTo(p) <= p.joined
    BY <1>4, <1>7, <1>8 DEF Accounts
<1> QED
    BY <1>1, <1>5, <1>9

\* A client that reads a list to its end misses no more of the rows that were in it all the time than
\* rows left it meanwhile, whatever was written between its pages, unless two rows have one date
\* (LIMIT and OFFSET in restaurant_repo.go, menu_repo.go, order_repo.go).
THEOREM Missing == Spec => []MissedAtMostLeft
<1>1. PInv => MissedAtMostLeft
    <2> SUFFICES ASSUME PInv, NEW c \in Reader, reader[c].over, ~Tied(reader[c].query)
                 PROVE  Cardinality(Missed(c)) <= reader[c].left
        BY DEF MissedAtMostLeft
    <2>1. reader[c].query # Unasked
        BY DEF PInv, Paid
    <2> QED
        BY <2>1, Owed
<1> QED
    BY <1>1, Paying, PTL

\* Nor is it shown more rows a second time than rows joined the list while it read.
THEOREM Repeating == Spec => []RepeatedAtMostJoined
<1>1. PInv => RepeatedAtMostJoined
    BY Owed DEF RepeatedAtMostJoined
<1> QED
    BY <1>1, Paying, PTL
=============================================================================
