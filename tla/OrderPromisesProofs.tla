------------------------- MODULE OrderPromisesProofs ------------------------
(***************************************************************************)
(* Proofs about what OrderService promises, for any number of requests,    *)
(* dishes, customers and restaurants: its audit trail, its answers and     *)
(* its webhooks, and the two specifications it implements: OrderStore, in  *)
(* which an order is placed, moved or cancelled in one indivisible step,   *)
(* and OrderLedger, the interface PartnerKitchen works with.               *)
(*                                                                         *)
(* The invariant says, for each request and each point of its transaction, *)
(* whether its change is in the committed history yet, and how the reply   *)
(* it is preparing relates to that history.  A step of one request leaves  *)
(* the others' part alone because histories only grow, by entries of the   *)
(* request that commits.                                                   *)
(*                                                                         *)
(* With it the refinements are short: only a commit, an edit of a dish     *)
(* and a webhook are steps of the specifications, all other statements     *)
(* stutter, and what a transaction knows when it commits is exactly the    *)
(* guard of the abstract step.                                             *)
(***************************************************************************)
EXTENDS OrderServiceProofs, FiniteSetTheorems, SequenceTheorems

\* Nothing of r is in any history.
Untraced(r) == \A o \in Request : \A i \in DOMAIN history[o] : history[o][i].by # r

\* One entry is of r, in the history of its order.
TracedOnce(r) ==
    \E i \in DOMAIN history[Target(r)] :
        \A o \in Request : \A j \in DOMAIN history[o] :
            history[o][j].by = r <=> o = Target(r) /\ j = i

\* The status r is about to announce is the one its entry recorded.
Recorded(r) ==
    \E i \in DOMAIN history[Target(r)] :
        history[Target(r)][i].by = r /\ history[Target(r)][i].to = reply[r].status

AnswerInv(r) ==
    /\ pc[r] # "done" => result[r] = ""
    /\ pc[r] \notin {"notify", "done"} => Untraced(r)
    /\ pc[r] = "notify" \/ (result[r] = "ok" /\ call[r].op \in Transactional) =>
           /\ TracedOnce(r)
           /\ call[r].op = "CreateOrder" => orders[r] # None
    /\ pc[r] = "notify" => Recorded(r)
    /\ result[r] \in Refusals \cup {"internal"} => Untraced(r)

\* The trail of the reply has an entry for its status.
Covered(r) == \E e \in reply[r].trail : e.to = reply[r].status

\* So has the history the trail will be read from.
Explained(r) == \E i \in DOMAIN history[call[r].order] : history[call[r].order][i].to = reply[r].status

\* The status change is written, and the reply is being read back.
Rereading(r) == call[r].op \in StatusOps /\ pc[r] \in {"readHistory", "webhookURL"}

ReplyInv(r) ==
    /\ call[r].op \notin Transactional \cup {"GetOrderByID"} => reply[r] = NoReply
    /\ pc[r] = "commit" \/ Rereading(r) => reply[r].status = draft[r].status
    /\ pc[r] \in {"commit", "notify"} \/ (Rereading(r) /\ pc[r] = "webhookURL") => Covered(r)
    /\ pc[r] = "readHistory" /\ call[r].op = "GetOrderByID" => Explained(r)
    /\ result[r] = "ok" /\ reply[r] # NoReply => Covered(r)

TellsTruth(r) ==
    /\ AnswerInv(r)
    /\ IF pc[r] = "idle" THEN reply[r] = NoReply ELSE ReplyInv(r)

AuditInv ==
    /\ AuditComplete
    /\ WebhooksAreTrue
    /\ \A r \in Request : TellsTruth(r)

-----------------------------------------------------------------------------
(***************************************************************************)
(* A step that commits nothing and announces nothing.                      *)
(***************************************************************************)

Untouched(r) ==
    /\ pc'[r] = pc[r] /\ call'[r] = call[r] /\ result'[r] = result[r]
    /\ reply'[r] = reply[r] /\ draft'[r] = draft[r]

LEMMA UntouchedTellsTruth ==
    ASSUME NEW r \in Request, Untouched(r), TellsTruth(r), UNCHANGED <<orders, history>>
    PROVE  TellsTruth(r)'
<1> USE DEF Untouched
<1>1. /\ Untraced(r) => Untraced(r)'
      /\ TracedOnce(r) => TracedOnce(r)'
      /\ Recorded(r) => Recorded(r)'
      /\ Covered(r) => Covered(r)'
      /\ Explained(r) => Explained(r)'
    BY DEF Untraced, TracedOnce, Recorded, Covered, Explained, Target
<1>2. AnswerInv(r) => AnswerInv(r)'
    BY <1>1 DEF AnswerInv
<1>3. ReplyInv(r) => ReplyInv(r)'
    BY <1>1 DEF ReplyInv, Rereading
<1> QED
    BY <1>2, <1>3 DEF TellsTruth

LEMMA QuietStep ==
    ASSUME AuditInv, NEW r \in Request, UNCHANGED <<orders, history, sent>>,
           \A q \in Request \ {r} : Untouched(q),
           TellsTruth(r)'
    PROVE  AuditInv'
<1>1. AuditComplete'
    BY DEF AuditInv, AuditComplete
<1>2. WebhooksAreTrue'
    BY DEF AuditInv, WebhooksAreTrue
<1>3. \A q \in Request \ {r} : TellsTruth(q)'
    BY UntouchedTellsTruth DEF AuditInv
<1> QED
    BY <1>1, <1>2, <1>3 DEF AuditInv

\* The call goes on to a statement from which nothing is told.
LEMMA SilentStep ==
    ASSUME AuditInv, NEW r \in Request, UNCHANGED <<orders, history, sent>>,
           \A q \in Request \ {r} : Untouched(q),
           call'[r] = call[r], result'[r] = result[r], reply'[r] = reply[r],
           pc[r] \notin {"idle", "notify", "done"},
           pc'[r] \in {"webhookURL", "lockDishes", "decrement", "decide", "restock", "readOrder",
                       "edit", "remove"},
           pc'[r] = "webhookURL" => call[r].op = "CreateOrder"
    PROVE  AuditInv'
<1>1. TellsTruth(r)
    BY DEF AuditInv
<1>2. Untraced(r) => Untraced(r)'
    BY DEF Untraced
<1>3. AnswerInv(r)'
    BY <1>1, <1>2 DEF TellsTruth, AnswerInv, Refusals
<1>4. ReplyInv(r)'
    <2>1. ReplyInv(r) /\ result[r] = ""
        BY <1>1 DEF TellsTruth, AnswerInv
    <2> QED
        BY <2>1 DEF ReplyInv, Rereading, StatusOps
<1>5. TellsTruth(r)'
    BY <1>3, <1>4 DEF TellsTruth
<1> QED
    BY <1>5, QuietStep

\* A refusal comes before the commit; only a call that is cut short may end after it.
LEMMA RefusedStep ==
    ASSUME IInv, AuditInv, NEW r \in Request, NEW error \in Refusals \cup {"internal", "lost"},
           pc[r] \notin {"idle", "done"}, pc[r] = "notify" => error = "lost",
           Abort(r, error)
    PROVE  AuditInv'
<1> USE DEF Abort, Rollback, EndTx, Goto, db
<1>1. /\ pc'[r] = "done" /\ result'[r] = error /\ reply'[r] = NoReply /\ call'[r] = call[r]
      /\ UNCHANGED <<orders, history, sent>>
    BY DEF IInv, TypeOK
<1>2. \A q \in Request \ {r} : Untouched(q)
    BY DEF IInv, TypeOK, Untouched
<1>3. TellsTruth(r) /\ error # "ok" /\ error # "" /\ (error = "lost" => error \notin Refusals \cup {"internal"})
    BY DEF AuditInv, Refusals
<1>4. Untraced(r) => Untraced(r)'
    BY <1>1 DEF Untraced
<1>5. AnswerInv(r)'
    BY <1>1, <1>3, <1>4 DEF TellsTruth, AnswerInv
<1>6. ReplyInv(r)'
    BY <1>1, <1>3 DEF ReplyInv, Rereading
<1>7. TellsTruth(r)'
    BY <1>1, <1>5, <1>6 DEF TellsTruth
<1> QED
    BY <1>1, <1>2, <1>7, QuietStep

-----------------------------------------------------------------------------
(***************************************************************************)
(* The calls.                                                              *)
(***************************************************************************)

LEMMA ArriveTells ==
    ASSUME IInv, AuditInv, NEW r \in Request, NEW c \in Calls, Arrive(r, c)
    PROVE  AuditInv'
<1> USE DEF Arrive, Goto, db
<1>1. c.op \in {"CreateOrder", "UpdateOrderStatus", "CancelOrderByCustomer", "GetOrderByID",
                "UpdateItem", "DeleteItem", "UpdateRestaurant"}
    BY CallsAssumption
       DEF Call, CheckoutCall, StatusCall, CancelCall, ReadCall, EditCall, RemoveCall, RestaurantCall
<1>2. /\ pc[r] = "idle" /\ pc'[r] = FirstStep[c.op] /\ call'[r] = c
      /\ UNCHANGED <<orders, history, sent, result, reply>>
    BY DEF IInv, TypeOK
<1>3. \A q \in Request \ {r} : Untouched(q)
    BY DEF IInv, TypeOK, Untouched
<1>4. /\ pc'[r] \notin {"idle", "readHistory", "commit", "notify", "done"}
      /\ pc'[r] # "webhookURL"
    BY <1>1, <1>2 DEF FirstStep
<1>5. TellsTruth(r) /\ reply[r] = NoReply /\ result[r] = "" /\ Untraced(r)
    BY <1>2 DEF AuditInv, TellsTruth, AnswerInv
<1>6. AnswerInv(r)'
    BY <1>2, <1>4, <1>5 DEF AnswerInv, Untraced, Refusals
<1>7. ReplyInv(r)'
    BY <1>2, <1>4, <1>5 DEF ReplyInv, Rereading
<1>8. TellsTruth(r)'
    BY <1>4, <1>6, <1>7 DEF TellsTruth
<1> QED
    BY <1>2, <1>3, <1>8, QuietStep

LEMMA CheckoutTells ==
    ASSUME IInv, AuditInv, NEW r \in Request, pc[r] # "idle", call[r].op = "CreateOrder",
           \/ GetRestaurant(r)
           \/ GetWebhookURL(r)
           \/ \E d \in Dish : LockDish(r, d) \/ RefuseDish(r, d) \/ DecrementStock(r, d)
           \/ ReceiveDishes(r)
           \/ PersistOrder(r)
    PROVE  AuditInv'
<1>1. TellsTruth(r) /\ "lost" \notin Refusals
    BY DEF AuditInv, Refusals
<1>2. ASSUME NEW error \in Refusals, pc[r] \notin {"idle", "notify", "done"}, Abort(r, error)
      PROVE  AuditInv'
    BY <1>2, RefusedStep
<1>3. ASSUME GetRestaurant(r) PROVE AuditInv'
    <2>1. CASE Goto(r, "webhookURL") /\ UNCHANGED <<db, locks, call, tx, result, reply, clock, sent, supply>>
        BY <1>3, <2>1, SilentStep DEF GetRestaurant, Goto, IInv, TypeOK, Untouched, db, locks, tx
    <2>2. CASE \E error \in {"ErrRestaurantInactive", "ErrRestaurantNotFound"} : Abort(r, error)
        BY <1>2, <1>3, <2>2 DEF GetRestaurant, Refusals
    <2> QED
        BY <1>3, <2>1, <2>2 DEF GetRestaurant
<1>4. ASSUME GetWebhookURL(r) PROVE AuditInv'
    BY <1>4, SilentStep DEF GetWebhookURL, Goto, IInv, TypeOK, Untouched, db, locks
<1>5. ASSUME NEW d \in Dish, LockDish(r, d) PROVE AuditInv'
    BY <1>5, SilentStep DEF LockDish, IInv, TypeOK, Untouched, db
<1>6. ASSUME NEW d \in Dish, RefuseDish(r, d) PROVE AuditInv'
    BY <1>2, <1>6 DEF RefuseDish, DishRefusal, Refusals
<1>7. ASSUME NEW d \in Dish, DecrementStock(r, d) PROVE AuditInv'
    <2>1. CASE Abort(r, "ErrOutOfStock")
        BY <1>2, <1>7, <2>1 DEF DecrementStock, Refusals
    <2>2. CASE /\ todo' = [todo EXCEPT ![r] = @ \ {d}]
               /\ UNCHANGED <<db, orderLock, pc, call, seen, got, hook, at, draft, result, reply,
                              clock, sent, supply>>
        BY <1>7, <2>2, SilentStep DEF DecrementStock, IInv, TypeOK, Untouched, db
    <2> QED
        BY <1>7, <2>1, <2>2 DEF DecrementStock
<1>8. ASSUME ReceiveDishes(r) PROVE AuditInv'
    <2>1. CASE Abort(r, "ErrMenuItemNotFound")
        BY <1>2, <1>8, <2>1 DEF ReceiveDishes, Refusals
    <2>2. CASE /\ Goto(r, "decrement")
               /\ UNCHANGED <<db, locks, call, seen, got, hook, at, delta, draft, result, reply,
                              clock, sent, supply>>
        BY <1>8, <2>2, SilentStep DEF ReceiveDishes, Goto, IInv, TypeOK, Untouched, db
    <2> QED
        BY <1>8, <2>1, <2>2 DEF ReceiveDishes
<1>9. ASSUME PersistOrder(r) PROVE AuditInv'
    <2> DEFINE first == [from |-> "", to |-> "created", actor |-> "system", at |-> at[r], by |-> r]
               answer == [status |-> "created", trail |-> {first}]
    <2>1. pc[r] = "decrement" /\ result[r] = "" /\ Untraced(r)
        BY <1>1, <1>9 DEF PersistOrder, TellsTruth, AnswerInv
    <2>2. CASE Abort(r, "ErrInvalidInput")
        BY <1>2, <2>1, <2>2 DEF Refusals
    <2>3. CASE /\ Goto(r, "commit")
               /\ draft' = [draft EXCEPT ![r] = NewOrder(r)]
               /\ reply' = [reply EXCEPT ![r] = answer]
               /\ UNCHANGED <<db, call, result, sent>>
        <3>1. /\ pc'[r] = "commit" /\ draft'[r] = NewOrder(r) /\ call'[r] = call[r]
              /\ reply'[r] = answer
              /\ UNCHANGED <<orders, history, sent, result>>
            BY <2>3 DEF Goto, IInv, TypeOK, db
        <3>2. \A q \in Request \ {r} : Untouched(q)
            BY <2>3 DEF Goto, IInv, TypeOK, Untouched, db
        <3>3. AnswerInv(r)'
            BY <2>1, <3>1 DEF AnswerInv, Untraced, Refusals
        <3>4. ReplyInv(r)'
            <4>1. NewOrder(r).status = "created" /\ answer.status = "created" /\ first \in answer.trail
                BY DEF NewOrder
            <4>2. first.to = "created"
                OBVIOUS
            <4> HIDE DEF answer, first
            <4>3. Covered(r)'
                BY <3>1, <4>1, <4>2 DEF Covered
            <4> QED
                BY <3>1, <4>1, <4>3 DEF ReplyInv, Transactional
        <3>5. TellsTruth(r)'
            BY <3>1, <3>3, <3>4 DEF TellsTruth
        <3> QED
            BY <3>1, <3>2, <3>5, QuietStep
    <2> QED
        BY <1>9, <2>2, <2>3 DEF PersistOrder
<1> QED
    BY <1>3, <1>4, <1>5, <1>6, <1>7, <1>8, <1>9

LEMMA StatusChangeTells ==
    ASSUME IInv, AuditInv, NEW r \in Request, pc[r] # "idle", call[r].op \in StatusOps,
           \/ LockOrder(r)
           \/ Decide(r)
           \/ \E d \in Dish : IncrementStock(r, d)
           \/ ApplyStatusChange(r)
           \/ GetWebhookURL(r)
    PROVE  AuditInv'
<1>1. TellsTruth(r) /\ "lost" \notin Refusals /\ call[r].op # "CreateOrder"
    BY DEF AuditInv, Refusals, StatusOps
<1>2. ASSUME NEW error \in Refusals \cup {"internal"}, pc[r] \notin {"idle", "notify", "done"},
             Abort(r, error)
      PROVE  AuditInv'
    BY <1>2, RefusedStep
<1>3. ASSUME LockOrder(r) PROVE AuditInv'
    <2>1. CASE orders[call[r].order] = None
        BY <1>2, <1>3, <2>1 DEF LockOrder, Refusals
    <2>2. CASE orders[call[r].order] # None
        BY <1>3, <2>2, SilentStep DEF LockOrder, Goto, IInv, TypeOK, Untouched, db
    <2> QED
        BY <2>1, <2>2
<1>4. ASSUME Decide(r) PROVE AuditInv'
    <2>1. CASE OrderRefusal(r) # ""
        BY <1>2, <1>4, <2>1 DEF Decide, OrderRefusal, Refusals
    <2>2. CASE OrderRefusal(r) = ""
        BY <1>4, <2>2, SilentStep DEF Decide, Goto, IInv, TypeOK, Untouched, db
    <2> QED
        BY <2>1, <2>2
<1>5. ASSUME NEW d \in Dish, IncrementStock(r, d) PROVE AuditInv'
    <2>1. CASE Abort(r, "ErrInvalidInput") \/ Abort(r, "ErrMenuItemNotFound")
        BY <1>2, <1>5, <2>1 DEF IncrementStock, Refusals
    <2>2. CASE UNCHANGED <<db, orderLock, pc, call, seen, got, hook, at, draft, result, reply,
                           clock, sent, supply>>
        BY <1>5, <2>2, SilentStep DEF IncrementStock, IInv, TypeOK, Untouched, db
    <2> QED
        BY <1>5, <2>1, <2>2 DEF IncrementStock
<1>6. ASSUME ApplyStatusChange(r) PROVE AuditInv'
    <2>1. CASE Abort(r, "internal")
        BY <1>2, <1>6, <2>1 DEF ApplyStatusChange
    <2>2. CASE /\ draft' = [draft EXCEPT ![r] = Moved(orders[call[r].order], NewStatus(r))]
               /\ Goto(r, "readOrder")
               /\ UNCHANGED <<db, dishLock, call, todo, seen, got, hook, at, delta, result, reply,
                              clock, sent, supply>>
        BY <1>6, <2>2, SilentStep DEF ApplyStatusChange, Goto, IInv, TypeOK, Untouched, db
    <2> QED
        BY <1>6, <2>1, <2>2 DEF ApplyStatusChange
<1>7. ASSUME GetWebhookURL(r) PROVE AuditInv'
    <2>1. /\ pc[r] = "webhookURL" /\ pc'[r] = "commit"
          /\ UNCHANGED <<call, orders, history, sent, result, reply, draft>>
        BY <1>1, <1>7 DEF GetWebhookURL, Goto, IInv, TypeOK, db
    <2>2. \A q \in Request \ {r} : Untouched(q)
        BY <1>7 DEF GetWebhookURL, Goto, IInv, TypeOK, Untouched, db
    <2>3. AnswerInv(r)'
        BY <1>1, <2>1 DEF TellsTruth, AnswerInv, Untraced, Refusals
    <2>4. ReplyInv(r)'
        BY <1>1, <2>1 DEF TellsTruth, ReplyInv, Rereading, Covered
    <2>5. TellsTruth(r)'
        BY <2>1, <2>3, <2>4 DEF TellsTruth
    <2> QED
        BY <2>1, <2>2, <2>5, QuietStep
<1> QED
    BY <1>3, <1>4, <1>5, <1>6, <1>7

LEMMA ReplyFields ==
    ASSUME NEW p \in Reply, NEW s, NEW t
    PROVE  /\ [p EXCEPT !.status = s].status = s
           /\ [p EXCEPT !.trail = t].status = p.status
           /\ [p EXCEPT !.trail = t].trail = t
    BY DEF Reply

LEMMA ReadOrderTells ==
    ASSUME IInv, AuditInv, NEW r \in Request, ReadOrder(r)
    PROVE  AuditInv'
<1> DEFINE o == call[r].order
<1>1. /\ pc[r] = "readOrder" /\ TellsTruth(r) /\ RequestInv(r) /\ call[r] \in Call
      /\ call[r].op \in StatusOps \cup {"GetOrderByID"}
    BY DEF ReadOrder, AuditInv, IInv, RequestInv, Placement
<1>2. o \in Request
    BY <1>1, CallTypes DEF StatusOps, StatusCall, CancelCall, ReadCall
<1>3. CASE OwnOrder(r, o) = None
    BY <1>1, <1>3, RefusedStep DEF ReadOrder, Refusals
<1>4. CASE OwnOrder(r, o) # None
    <2> DEFINE p == [reply[r] EXCEPT !.status = OwnOrder(r, o).status]
    <2>a. /\ pc' = [pc EXCEPT ![r] = "readHistory"] /\ reply' = [reply EXCEPT ![r] = p]
          /\ UNCHANGED <<call, orders, history, sent, result, draft>>
        BY <1>4 DEF ReadOrder, Goto, db, tx
    <2>b. p.status = OwnOrder(r, o).status
        BY ReplyFields DEF IInv, TypeOK
    <2> HIDE DEF p
    <2>1. /\ pc'[r] = "readHistory" /\ reply'[r].status = OwnOrder(r, o).status
          /\ UNCHANGED <<call, orders, history, sent, result, draft>>
        BY <2>a, <2>b DEF IInv, TypeOK
    <2>2. \A q \in Request \ {r} : Untouched(q)
        BY <2>a DEF IInv, TypeOK, Untouched
    <2>3. AnswerInv(r)'
        BY <1>1, <2>1 DEF TellsTruth, AnswerInv, Untraced, Refusals
    <2>4. CASE call[r].op \in StatusOps
        <3>a. Written(r) /\ OrderHeld(r) /\ got[r] \in Order
            BY <1>1, <1>2, <2>4 DEF RequestInv, StatusInv, OrderHeld, IInv, TypeOK, StatusOps
        <3>1. draft[r] # None
            BY <1>1, <2>4, <3>a, RestatedType, NoneAssumption DEF Written
        <3>2. reply'[r].status = draft'[r].status
            BY <2>1, <3>1 DEF OwnOrder
        <3>3. ReplyInv(r)'
            BY <1>1, <2>1, <2>4, <3>2
               DEF TellsTruth, AnswerInv, ReplyInv, Rereading, Transactional, StatusOps
        <3> QED
            BY <2>1, <2>2, <2>3, <3>3, QuietStep DEF TellsTruth
    <2>5. CASE call[r].op = "GetOrderByID"
        <3>1. draft[r] = None
            BY <1>1, <2>5 DEF RequestInv, Clean, Transactional
        <3>2. orders[o] # None /\ reply'[r].status = orders[o].status
            BY <1>4, <2>1, <3>1 DEF OwnOrder
        <3>3. Explained(r)'
            <4>1. history[o] # <<>> /\ history[o][Len(history[o])].to = orders[o].status
                BY <1>2, <3>2 DEF AuditInv, AuditComplete, WholeStory
            <4>2. history[o] \in Seq(Entry)
                BY <1>2 DEF IInv, TypeOK
            <4>3. Len(history[o]) \in DOMAIN history[o]
                BY <4>1, <4>2
            <4> QED
                BY <2>1, <3>2, <4>1, <4>3 DEF Explained
        <3>4. ReplyInv(r)'
            BY <1>1, <2>1, <2>5, <3>3 DEF TellsTruth, AnswerInv, ReplyInv, Rereading, StatusOps
        <3> QED
            BY <2>1, <2>2, <2>3, <3>4, QuietStep DEF TellsTruth
    <2> QED
        BY <1>1, <2>4, <2>5
<1> QED
    BY <1>3, <1>4

LEMMA ReadHistoryTells ==
    ASSUME IInv, AuditInv, NEW r \in Request, ReadHistory(r)
    PROVE  AuditInv'
<1> DEFINE o == call[r].order
<1>1. /\ pc[r] = "readHistory" /\ TellsTruth(r) /\ RequestInv(r) /\ call[r] \in Call
      /\ call[r].op \in StatusOps \cup {"GetOrderByID"}
    BY DEF ReadHistory, AuditInv, IInv, RequestInv, Placement
<1>2. AnswerInv(r) /\ ReplyInv(r) /\ result[r] = "" /\ Untraced(r)
    BY <1>1 DEF TellsTruth, AnswerInv
<1>3. CASE call[r].op \in StatusOps
    <2> DEFINE p == [reply[r] EXCEPT !.trail = Rows(o) \cup {HistoryEntry(r)}]
    <2>a. /\ pc' = [pc EXCEPT ![r] = "webhookURL"] /\ reply' = [reply EXCEPT ![r] = p]
          /\ UNCHANGED <<call, orders, history, sent, result, draft>>
        BY <1>3 DEF ReadHistory, Goto, db, tx, StatusOps
    <2>b. p.status = reply[r].status /\ p.trail = Rows(o) \cup {HistoryEntry(r)}
        BY ReplyFields DEF IInv, TypeOK
    <2> HIDE DEF p
    <2>1. /\ pc'[r] = "webhookURL" /\ reply'[r].status = reply[r].status
          /\ reply'[r].trail = Rows(o) \cup {HistoryEntry(r)}
          /\ UNCHANGED <<call, orders, history, sent, result, draft>>
        BY <2>a, <2>b DEF IInv, TypeOK
    <2>2. \A q \in Request \ {r} : Untouched(q)
        BY <2>a DEF IInv, TypeOK, Untouched
    <2>3. AnswerInv(r)'
        BY <1>2, <2>1 DEF AnswerInv, Untraced, Refusals
    <2>4. reply[r].status = draft[r].status
        BY <1>1, <1>2, <1>3 DEF ReplyInv, Rereading
    <2>5. Covered(r)'
        <3>1. HistoryEntry(r).to = draft[r].status
            BY DEF HistoryEntry
        <3> QED
            BY <2>1, <2>4, <3>1 DEF Covered
    <2>6. ReplyInv(r)'
        BY <1>2, <1>3, <2>1, <2>4, <2>5 DEF ReplyInv, Rereading, Transactional, StatusOps
    <2> QED
        BY <2>1, <2>2, <2>3, <2>6, QuietStep DEF TellsTruth
<1>4. CASE call[r].op = "GetOrderByID" /\ orders[o].user = call[r].user
    <2> DEFINE p == [reply[r] EXCEPT !.trail = Rows(o)]
    <2>a. /\ pc' = [pc EXCEPT ![r] = "done"] /\ reply' = [reply EXCEPT ![r] = p]
          /\ result' = [result EXCEPT ![r] = "ok"]
          /\ UNCHANGED <<call, orders, history, sent, draft>>
        BY <1>4 DEF ReadHistory, Answer, Goto, db, tx
    <2>b. p.status = reply[r].status /\ p.trail = Rows(o)
        BY ReplyFields DEF IInv, TypeOK
    <2> HIDE DEF p
    <2>1. /\ pc'[r] = "done" /\ result'[r] = "ok" /\ reply'[r].status = reply[r].status
          /\ reply'[r].trail = Rows(o)
          /\ UNCHANGED <<call, orders, history, sent, draft>>
        BY <2>a, <2>b DEF IInv, TypeOK
    <2>2. \A q \in Request \ {r} : Untouched(q)
        BY <2>a DEF IInv, TypeOK, Untouched
    <2>3. AnswerInv(r)'
        BY <1>2, <1>4, <2>1 DEF AnswerInv, Untraced, Refusals, Transactional
    <2>4. Covered(r)'
        BY <1>1, <1>2, <1>4, <2>1 DEF ReplyInv, Explained, Covered, Rows
    <2>5. ReplyInv(r)'
        BY <1>4, <2>1, <2>4 DEF ReplyInv, Rereading, StatusOps
    <2> QED
        BY <2>1, <2>2, <2>3, <2>5, QuietStep DEF TellsTruth
<1>5. CASE call[r].op = "GetOrderByID" /\ orders[o].user # call[r].user
    BY <1>1, <1>5, RefusedStep DEF ReadHistory, Refusals
<1> QED
    BY <1>1, <1>3, <1>4, <1>5

LEMMA MenuEditTells ==
    ASSUME IInv, AuditInv, NEW r \in Request, MenuEdit(r)
    PROVE  AuditInv'
<1>1. /\ TellsTruth(r) /\ RequestInv(r) /\ pc[r] \in {"assertOwned", "edit", "remove", "update"}
      /\ call[r].op \in {"UpdateItem", "DeleteItem", "UpdateRestaurant"}
    BY DEF MenuEdit, AssertItemOwned, UpdateItem, DeleteItem, UpdateRestaurant, AuditInv, IInv,
           RequestInv, Placement, StatusOps
<1>2. ASSUME NEW error \in Refusals, Abort(r, error) PROVE AuditInv'
    BY <1>1, <1>2, RefusedStep
<1>3. ASSUME Confirm(r), UNCHANGED <<orders, history, call, reply, sent, draft>>
      PROVE  AuditInv'
    <2>1. /\ pc'[r] = "done" /\ result'[r] \in {"ok", "lost"}
          /\ reply'[r] = NoReply /\ call'[r] = call[r]
        BY <1>1, <1>3 DEF Confirm, Answer, Goto, IInv, TypeOK, TellsTruth, ReplyInv, Transactional
    <2>2. \A q \in Request \ {r} : Untouched(q)
        BY <1>3 DEF Confirm, Answer, Goto, IInv, TypeOK, Untouched
    <2>3. AnswerInv(r)'
        BY <1>1, <2>1 DEF AnswerInv, Refusals, Transactional
    <2>4. ReplyInv(r)'
        BY <1>1, <2>1 DEF ReplyInv, Rereading, StatusOps
    <2> QED
        BY <1>3, <2>1, <2>2, <2>3, <2>4, QuietStep DEF TellsTruth
<1>4. ASSUME AssertItemOwned(r) PROVE AuditInv'
    <2>1. CASE Abort(r, "ErrMenuItemNotFound")
        BY <1>2, <2>1 DEF Refusals
    <2>2. CASE /\ Goto(r, IF call[r].op = "UpdateItem" THEN "edit" ELSE "remove")
               /\ UNCHANGED <<db, locks, call, tx, result, reply, clock, sent, supply>>
        BY <1>1, <2>2, SilentStep DEF Goto, IInv, TypeOK, Untouched, db, tx
    <2> QED
        BY <1>4, <2>1, <2>2 DEF AssertItemOwned
<1>5. ASSUME UpdateItem(r) PROVE AuditInv'
    BY <1>2, <1>3, <1>5 DEF UpdateItem, tx, Refusals
<1>6. ASSUME DeleteItem(r) PROVE AuditInv'
    BY <1>2, <1>3, <1>6 DEF DeleteItem, tx, Refusals
<1>7. ASSUME UpdateRestaurant(r) PROVE AuditInv'
    BY <1>3, <1>7 DEF UpdateRestaurant, tx
<1> QED
    BY <1>4, <1>5, <1>6, <1>7 DEF MenuEdit

-----------------------------------------------------------------------------
(***************************************************************************)
(* The commit, which writes the history, and the webhook.                  *)
(***************************************************************************)

LEMMA Appended ==
    ASSUME NEW s \in Seq(Entry), NEW e \in Entry
    PROVE  /\ Append(s, e) # <<>>
           /\ Len(Append(s, e)) = Len(s) + 1
           /\ DOMAIN s = 1 .. Len(s)
           /\ DOMAIN Append(s, e) = 1 .. Len(s) + 1
           /\ \A i \in 1 .. Len(s) : Append(s, e)[i] = s[i]
           /\ Append(s, e)[Len(s) + 1] = e
    OBVIOUS

\* Every history keeps its entries; the order's has one more.
LEMMA CommitRecords ==
    ASSUME IInv, NEW r \in Request, Commit(r)
    PROVE  LET t == Target(r)
               n == Len(history[t]) + 1
           IN  /\ t \in Request /\ Target(r)' = t /\ history[t] \in Seq(Entry)
               /\ HistoryEntry(r) \in Entry
               /\ history'[t] = Append(history[t], HistoryEntry(r))
               /\ \A o \in Request : o # t => history'[o] = history[o]
               /\ \A o \in Request : \A i \in DOMAIN history[o] :
                      i \in DOMAIN history'[o] /\ history'[o][i] = history[o][i]
               /\ n \in Nat \ {0} /\ Len(history'[t]) = n /\ history'[t] # <<>>
               /\ DOMAIN history[t] = 1 .. n - 1 /\ DOMAIN history'[t] = 1 .. n
               /\ history'[t][n] = HistoryEntry(r)
               /\ HistoryEntry(r).by = r
<1> DEFINE t == Target(r)
           e == HistoryEntry(r)
<1>1. pc[r] = "commit" /\ t \in Request /\ e \in Entry /\ history[t] \in Seq(Entry)
    BY CommitWrites, CommitKnows, HistoryEntryType DEF IInv, TypeOK
<1>2. e.by = r
    BY DEF HistoryEntry
<1>3. Target(r)' = t
    BY CommitWrites DEF Target
<1>4. history' = [history EXCEPT ![t] = Append(history[t], e)]
    BY CommitWrites
<1> HIDE DEF t, e
<1>5. history'[t] = Append(history[t], e) /\ \A o \in Request : o # t => history'[o] = history[o]
    BY <1>1, <1>4 DEF IInv, TypeOK
<1>6. Len(history[t]) \in Nat
    BY <1>1
<1>7. \A o \in Request : \A i \in DOMAIN history[o] :
          i \in DOMAIN history'[o] /\ history'[o][i] = history[o][i]
    <2> SUFFICES ASSUME NEW o \in Request, NEW i \in DOMAIN history[o]
                 PROVE  i \in DOMAIN history'[o] /\ history'[o][i] = history[o][i]
        OBVIOUS
    <2>1. CASE o = t
        BY <1>1, <1>5, <1>6, <2>1, Appended
    <2>2. CASE o # t
        BY <1>5, <2>2
    <2> QED
        BY <2>1, <2>2
<1>8. /\ Len(history'[t]) = Len(history[t]) + 1 /\ history'[t] # <<>>
      /\ DOMAIN history[t] = 1 .. Len(history[t]) + 1 - 1
      /\ DOMAIN history'[t] = 1 .. Len(history[t]) + 1
      /\ history'[t][Len(history[t]) + 1] = e
    BY <1>1, <1>5, <1>6, Appended
<1> QED
    BY <1>1, <1>2, <1>3, <1>5, <1>6, <1>7, <1>8 DEF t, e

LEMMA ActorOfOps ==
    /\ ActorOf["CreateOrder"] = "system"
    /\ ActorOf["UpdateOrderStatus"] = "restaurant"
    /\ ActorOf["CancelOrderByCustomer"] = "customer"
    BY DEF ActorOf

\* A legal change, or the creation, by the actor the entry names.
LEMMA CommitEntry ==
    ASSUME IInv, NEW r \in Request, pc[r] = "commit"
    PROVE  LET e == HistoryEntry(r)
           IN  /\ e.to = draft[r].status
               /\ call[r].op = "CreateOrder" => e.from = "" /\ e.to = "created" /\ e.actor = "system"
               /\ call[r].op # "CreateOrder" =>
                      e.from = orders[Target(r)].status /\ Legal(e.actor, e.from, e.to)
<1>1. /\ HistoryEntry(r).to = draft[r].status /\ HistoryEntry(r).actor = ActorOf[call[r].op]
      /\ HistoryEntry(r).from = IF call[r].op = "CreateOrder" THEN "" ELSE got[r].status
    BY DEF HistoryEntry
<1>2. CASE call[r].op = "CreateOrder"
    <2>1. draft[r] = NewOrder(r) /\ NewOrder(r).status = "created"
        BY <1>2, CommitKnows DEF NewOrder, StatusOps
    <2> QED
        BY <1>1, <1>2, <2>1, ActorOfOps
<1>3. CASE call[r].op # "CreateOrder"
    <2>1. /\ call[r] \in Call /\ call[r].op \in StatusOps /\ Written(r) /\ OrderHeld(r)
          /\ Target(r) = call[r].order /\ draft[r] = Restated(r)
        BY <1>3, CommitKnows
    <2>2. draft[r].status = NewStatus(r) /\ got[r] = orders[Target(r)]
        BY <2>1 DEF Restated, OrderHeld
    <2>3. Legal(ActorOf[call[r].op], got[r].status, NewStatus(r))
        <3>1. CASE NewStatus(r) = "cancelled"
            BY <2>1, <3>1, OrderRefusalNone DEF Written, Legal
        <3>2. CASE NewStatus(r) # "cancelled"
            <4>1. call[r].op = "UpdateOrderStatus"
                BY <3>2 DEF NewStatus
            <4> QED
                BY <2>1, <3>2, <4>1, OrderRefusalNone, ActorOfOps DEF Written, Legal
        <3> QED
            BY <3>1, <3>2
    <2> QED
        BY <1>1, <1>3, <2>2, <2>3
<1> QED
    BY <1>2, <1>3

LEMMA AppendedFirst ==
    ASSUME NEW S, NEW s \in Seq(S), s = <<>>, NEW e \in S
    PROVE  Append(s, e) # <<>> /\ Len(Append(s, e)) = 1 /\ Append(s, e)[1] = e
    OBVIOUS

LEMMA NoLaterEntry == 2 .. 1 = {}
    OBVIOUS

LEMMA FirstEntry ==
    ASSUME NEW h \in Seq(Entry), h = <<>>,
           NEW e \in Entry, e.from = "", e.to = "created", e.actor = "system"
    PROVE  WholeStory(Append(h, e), "created")
<1> DEFINE h2 == Append(h, e)
<1>2. h2 # <<>> /\ Len(h2) = 1 /\ h2[1] = e
    BY AppendedFirst
<1> HIDE DEF h2
<1>3. \A i \in 2 .. Len(h2) : FALSE
    BY <1>2, NoLaterEntry, Zenon
<1>4. h2[Len(h2)].to = "created"
    BY <1>2
<1>5. WholeStory(h2, "created")
    BY <1>2, <1>3, <1>4, Zenon DEF WholeStory
<1> QED
    BY <1>5 DEF h2

LEMMA NextEntry ==
    ASSUME NEW h \in Seq(Entry), NEW s, WholeStory(h, s),
           NEW e \in Entry, e.from = s, Legal(e.actor, e.from, e.to)
    PROVE  WholeStory(Append(h, e), e.to)
<1> DEFINE h2 == Append(h, e)
           n == Len(h)
<1>1. n \in Nat \ {0} /\ h[n].to = s
    <2>1. h # <<>> /\ h[Len(h)].to = s
        BY DEF WholeStory
    <2> QED
        BY <2>1
<1>2. h2 # <<>> /\ Len(h2) = n + 1 /\ h2[n + 1] = e /\ \A i \in 1 .. n : h2[i] = h[i]
    BY Appended
<1> HIDE DEF h2, n
<1>3. ASSUME NEW i \in 2 .. n + 1
      PROVE  h2[i].from = h2[i - 1].to /\ Legal(h2[i].actor, h2[i].from, h2[i].to)
    <2>1. CASE i = n + 1
        <3>1. i - 1 = n /\ n \in 1 .. n
            BY <1>1, <2>1
        <3> QED
            BY <1>1, <1>2, <2>1, <3>1
    <2>2. CASE i # n + 1
        <3>1. i \in 2 .. n /\ i \in 1 .. n /\ i - 1 \in 1 .. n
            BY <1>1, <1>3, <2>2
        <3> QED
            BY <1>2, <3>1 DEF WholeStory, n
    <2> QED
        BY <2>1, <2>2
<1>4. h2[1] = h[1]
    BY <1>1, <1>2
<1> QED
    BY <1>2, <1>3, <1>4 DEF WholeStory, h2

LEMMA CommitAudits ==
    ASSUME IInv, AuditInv, NEW r \in Request, Commit(r)
    PROVE  AuditComplete'
<1> DEFINE t == Target(r)
           e == HistoryEntry(r)
<1>1. /\ t \in Request /\ e \in Entry /\ history[t] \in Seq(Entry)
      /\ history'[t] = Append(history[t], e)
      /\ \A o \in Request : o # t => history'[o] = history[o]
    BY CommitRecords
<1>2. /\ pc[r] = "commit" /\ orders'[t] = draft[r] /\ draft[r] \in Order /\ draft[r] # None
      /\ \A o \in Request : o # t => orders'[o] = orders[o]
    BY <1>1, CommitWrites, CommitKnows, NoneAssumption DEF IInv, TypeOK
<1>3. /\ e.to = orders'[t].status
      /\ call[r].op = "CreateOrder" => e.from = "" /\ e.to = "created" /\ e.actor = "system"
      /\ call[r].op # "CreateOrder" => e.from = orders[t].status /\ Legal(e.actor, e.from, e.to)
    BY <1>2, CommitEntry
<1>4. call[r].op = "CreateOrder" => orders[t] = None
    BY <1>2, CommitKnows DEF StatusOps
<1>5. call[r].op # "CreateOrder" => orders[t] # None
    BY <1>2, CommitKnows DEF OrderHeld
<1> HIDE DEF t, e
<1>6. WholeStory(history'[t], orders'[t].status)
    <2>1. CASE call[r].op = "CreateOrder"
        <3>1. history[t] = <<>>
            BY <1>1, <1>4, <2>1 DEF AuditInv, AuditComplete
        <3> QED
            BY <1>1, <1>3, <2>1, <3>1, FirstEntry
    <2>2. CASE call[r].op # "CreateOrder"
        <3>1. WholeStory(history[t], orders[t].status)
            BY <1>1, <1>5, <2>2 DEF AuditInv, AuditComplete
        <3>2. WholeStory(Append(history[t], e), e.to)
            BY <1>1, <1>3, <2>2, <3>1, NextEntry
        <3> QED
            BY <1>1, <1>3, <3>2
    <2> QED
        BY <2>1, <2>2
<1>7. ASSUME NEW o \in Request
      PROVE  IF orders'[o] = None THEN history'[o] = <<>> ELSE WholeStory(history'[o], orders'[o].status)
    <2>1. CASE o = t
        BY <1>2, <1>6, <2>1
    <2>2. CASE o # t
        BY <1>1, <1>2, <2>2 DEF AuditInv, AuditComplete
    <2> QED
        BY <2>1, <2>2
<1> QED
    BY <1>7 DEF AuditComplete

\* An entry of another request gives q no trace and takes nothing from it.
LEMMA CommitLeavesOthers ==
    ASSUME IInv, AuditInv, NEW r \in Request, Commit(r), NEW q \in Request \ {r}
    PROVE  TellsTruth(q)'
<1> DEFINE t == Target(r)
           n == Len(history[t]) + 1
<1>1. /\ t \in Request /\ n \in Nat
      /\ \A o \in Request : o # t => history'[o] = history[o]
      /\ \A o \in Request : \A i \in DOMAIN history[o] :
             i \in DOMAIN history'[o] /\ history'[o][i] = history[o][i]
      /\ DOMAIN history[t] = 1 .. n - 1 /\ DOMAIN history'[t] = 1 .. n
      /\ history'[t][n].by = r
    BY CommitRecords
<1> HIDE DEF t, n
<1>2. \A o \in Request : \A i \in DOMAIN history'[o] :
          history'[o][i].by = q => i \in DOMAIN history[o] /\ history[o][i].by = q
    <2> SUFFICES ASSUME NEW o \in Request, NEW i \in DOMAIN history'[o], history'[o][i].by = q
                 PROVE  i \in DOMAIN history[o] /\ history[o][i].by = q
        OBVIOUS
    <2>1. CASE o # t
        BY <1>1, <2>1
    <2>2. CASE o = t
        <3>1. i # n
            BY <1>1, <2>2
        <3>2. i \in 1 .. n - 1
            BY <1>1, <2>2, <3>1
        <3> QED
            BY <1>1, <2>2, <3>2
    <2> QED
        BY <2>1, <2>2
<1>3. /\ pc'[q] = pc[q] /\ call'[q] = call[q] /\ result'[q] = result[q] /\ reply'[q] = reply[q]
      /\ draft'[q] = draft[q]
      /\ orders[q] # None => orders'[q] # None
    <2>1. /\ call' = call /\ draft'[q] = draft[q] /\ pc'[q] = pc[q]
        BY CommitWrites DEF EndTx, IInv, TypeOK
    <2>2. result'[q] = result[q] /\ reply'[q] = reply[q]
        BY DEF Commit, Answer, IInv, TypeOK
    <2>3. draft[r] # None /\ pc[r] = "commit"
        BY CommitWrites, CommitKnows, NoneAssumption
    <2>4. orders[q] # None => orders'[q] # None
        BY <2>3, CommitWrites DEF IInv, TypeOK
    <2> QED
        BY <2>1, <2>2, <2>4
<1>4. TellsTruth(q) /\ RequestInv(q)
    BY DEF AuditInv, IInv
<1>5. Untraced(q) => Untraced(q)'
    BY <1>2 DEF Untraced
<1>6. CASE pc[q] = "idle"
    BY <1>3, <1>4, <1>5, <1>6 DEF TellsTruth, AnswerInv, Refusals
<1>7. CASE pc[q] # "idle"
    <2>1. call[q] \in Call
        BY <1>4, <1>7 DEF RequestInv
    <2>2. call[q].op \in Transactional => Target(q) \in Request
        BY <2>1, CallTypes DEF Target, Transactional, StatusCall, CancelCall
    <2>3. call[q].op = "GetOrderByID" => call[q].order \in Request
        BY <2>1, CallTypes DEF ReadCall
    <2>4. Target(q)' = Target(q)
        BY <1>3 DEF Target
    <2>5. Target(q) \in Request /\ TracedOnce(q) => TracedOnce(q)'
        BY <1>1, <1>2, <2>4 DEF TracedOnce
    <2>6. Target(q) \in Request /\ Recorded(q) => Recorded(q)'
        BY <1>1, <1>3, <2>4 DEF Recorded
    <2>7. Covered(q) => Covered(q)'
        BY <1>3 DEF Covered
    <2>8. call[q].order \in Request /\ Explained(q) => Explained(q)'
        BY <1>1, <1>3 DEF Explained
    <2>9. pc[q] = "notify" => call[q].op \in Transactional
        BY <1>4, <1>7 DEF RequestInv, Placement, Transactional, StatusOps
    <2>10. AnswerInv(q)'
        BY <1>3, <1>4, <1>5, <2>2, <2>5, <2>6, <2>9 DEF TellsTruth, AnswerInv
    <2>11. ReplyInv(q)'
        BY <1>3, <1>4, <1>7, <2>3, <2>7, <2>8 DEF TellsTruth, ReplyInv, Rereading
    <2> QED
        BY <1>3, <1>7, <2>10, <2>11 DEF TellsTruth
<1> QED
    BY <1>6, <1>7

LEMMA CommitTells ==
    ASSUME IInv, AuditInv, NEW r \in Request, Commit(r)
    PROVE  AuditInv'
<1> DEFINE t == Target(r)
           n == Len(history[t]) + 1
<1>1. /\ t \in Request /\ n \in Nat \ {0} /\ Target(r)' = t
      /\ \A o \in Request : o # t => history'[o] = history[o]
      /\ \A o \in Request : \A i \in DOMAIN history[o] :
             i \in DOMAIN history'[o] /\ history'[o][i] = history[o][i]
      /\ DOMAIN history[t] = 1 .. n - 1 /\ DOMAIN history'[t] = 1 .. n
      /\ history'[t][n].by = r /\ history'[t][n] = HistoryEntry(r)
    BY CommitRecords
<1>2. /\ pc[r] = "commit" /\ RequestInv(r) /\ TellsTruth(r) /\ call[r].op \in Transactional
      /\ draft[r] # None
    BY CommitWrites, CommitKnows, NoneAssumption DEF IInv, AuditInv, Transactional, StatusOps
<1>3. /\ Untraced(r) /\ Covered(r) /\ reply[r].status = draft[r].status /\ result[r] = ""
    BY <1>2 DEF TellsTruth, AnswerInv, ReplyInv
<1>4. history'[t][n].to = draft[r].status
    <2>1. HistoryEntry(r).to = draft[r].status
        BY DEF HistoryEntry
    <2> QED
        BY <1>1, <2>1
<1>5. orders'[t] = draft[r] /\ call' = call /\ sent' = sent
    BY <1>1, CommitWrites DEF IInv, TypeOK
<1> HIDE DEF t, n
<1>6. WebhooksAreTrue'
    <2>1. \A w \in sent : w.order \in Request
        BY DEF IInv, TypeOK, Webhook
    <2> QED
        BY <1>1, <1>5, <2>1 DEF AuditInv, WebhooksAreTrue
<1>7. TracedOnce(r)'
    <2>1. \A o \in Request : \A j \in DOMAIN history'[o] : history'[o][j].by = r <=> o = t /\ j = n
        <3> SUFFICES ASSUME NEW o \in Request, NEW j \in DOMAIN history'[o]
                     PROVE  history'[o][j].by = r <=> o = t /\ j = n
            OBVIOUS
        <3>a. \A p \in Request : \A i \in DOMAIN history[p] : history[p][i].by # r
            BY <1>3 DEF Untraced
        <3>1. CASE o # t
            <4>1. history'[o] = history[o]
                BY <1>1, <3>1
            <4> QED
                BY <3>a, <3>1, <4>1
        <3>2. CASE o = t /\ j # n
            <4>1. j \in DOMAIN history[t]
                BY <1>1, <3>2
            <4>2. history'[t][j] = history[t][j]
                BY <1>1, <4>1
            <4> QED
                BY <1>1, <3>a, <3>2, <4>1, <4>2
        <3>3. CASE o = t /\ j = n
            BY <1>1, <3>3
        <3> QED
            BY <3>1, <3>2, <3>3
    <2>2. n \in DOMAIN history'[t]
        BY <1>1
    <2> QED
        BY <1>1, <2>1, <2>2 DEF TracedOnce
<1>8. TellsTruth(r)'
    <2>1. CASE Goto(r, "notify") /\ UNCHANGED <<hook, result, reply>>
        <3>1. pc'[r] = "notify" /\ result'[r] = "" /\ reply'[r] = reply[r]
            BY <1>3, <2>1 DEF Goto, IInv, TypeOK
        <3>2. Recorded(r)'
            <4>1. n \in DOMAIN history'[t]
                BY <1>1
            <4> QED
                BY <1>1, <1>3, <1>4, <3>1, <4>1 DEF Recorded
        <3>3. call[r].op = "CreateOrder" => orders'[r] # None
            BY <1>2, <1>5 DEF t, Target
        <3>4. AnswerInv(r)'
            BY <1>5, <1>7, <3>1, <3>2, <3>3 DEF AnswerInv, Refusals
        <3>5. Covered(r)'
            BY <1>3, <3>1 DEF Covered
        <3>6. ReplyInv(r)'
            BY <1>2, <1>5, <3>1, <3>5 DEF ReplyInv, Rereading
        <3> QED
            BY <3>1, <3>4, <3>6 DEF TellsTruth
    <2>2. CASE Answer(r, "lost") /\ reply' = [reply EXCEPT ![r] = NoReply]
        <3>1. pc'[r] = "done" /\ result'[r] = "lost" /\ reply'[r] = NoReply
            BY <2>2 DEF Answer, Goto, IInv, TypeOK
        <3>2. AnswerInv(r)'
            BY <3>1 DEF AnswerInv, Refusals
        <3>3. ReplyInv(r)'
            BY <3>1 DEF ReplyInv, Rereading
        <3> QED
            BY <3>1, <3>2, <3>3 DEF TellsTruth
    <2> QED
        BY <2>1, <2>2 DEF Commit
<1> QED
    BY <1>6, <1>8, CommitAudits, CommitLeavesOthers DEF AuditInv

LEMMA NotifyPartnerTells ==
    ASSUME IInv, AuditInv, NEW r \in Request, NotifyPartner(r)
    PROVE  AuditInv'
<1> DEFINE w0 == [order |-> Target(r), status |-> reply[r].status, by |-> r]
<1>1. /\ pc[r] = "notify" /\ pc'[r] = "done" /\ result'[r] = "ok" /\ reply'[r] = reply[r]
      /\ UNCHANGED <<call, orders, history>>
    BY DEF NotifyPartner, Answer, Goto, IInv, TypeOK, db
<1>2. sent' = sent \/ sent' = sent \cup {w0}
    BY DEF NotifyPartner
<1>3. \A q \in Request \ {r} : Untouched(q)
    BY DEF NotifyPartner, Answer, Goto, IInv, TypeOK, Untouched
<1>4. TellsTruth(r) /\ RequestInv(r) /\ call[r].op \in Transactional
    BY <1>1 DEF AuditInv, IInv, RequestInv, Placement, Transactional, StatusOps
<1>5. /\ TracedOnce(r) /\ Recorded(r) /\ Covered(r)
      /\ call[r].op = "CreateOrder" => orders[r] # None
    BY <1>1, <1>4 DEF TellsTruth, AnswerInv, ReplyInv
<1>6. w0.order = Target(r) /\ w0.status = reply[r].status /\ w0.by = r
    OBVIOUS
<1> HIDE DEF w0
<1>7. WebhooksAreTrue'
    <2>1. ASSUME NEW w \in sent' PROVE \E i \in DOMAIN history[w.order] :
                    history[w.order][i].by = w.by /\ history[w.order][i].to = w.status
        <3>1. CASE w \in sent
            BY <3>1 DEF AuditInv, WebhooksAreTrue
        <3>2. CASE w = w0
            BY <1>5, <1>6, <3>2 DEF Recorded
        <3> QED
            BY <1>2, <2>1, <3>1, <3>2
    <2> QED
        BY <1>1, <2>1 DEF WebhooksAreTrue
<1>8. AuditComplete'
    BY <1>1 DEF AuditInv, AuditComplete
<1>9. TellsTruth(r)'
    <2>1. TracedOnce(r)' /\ Covered(r)'
        BY <1>1, <1>5 DEF TracedOnce, Covered, Target
    <2>2. AnswerInv(r)'
        BY <1>1, <1>5, <2>1 DEF AnswerInv, Refusals
    <2>3. ReplyInv(r)'
        BY <1>1, <1>4, <2>1 DEF ReplyInv, Rereading
    <2> QED
        BY <1>1, <2>2, <2>3 DEF TellsTruth
<1>10. \A q \in Request \ {r} : TellsTruth(q)'
    BY <1>1, <1>3, UntouchedTellsTruth DEF AuditInv
<1> QED
    BY <1>7, <1>8, <1>9, <1>10 DEF AuditInv

-----------------------------------------------------------------------------
(***************************************************************************)
(* The invariant and what follows from it.                                 *)
(***************************************************************************)

LEMMA AuditInit == Init => AuditInv
<1> SUFFICES ASSUME Init PROVE AuditInv
    OBVIOUS
<1>1. \A o \in Request : history[o] = <<>> /\ orders[o] = None
    BY DEF Init
<1>2. AuditComplete
    BY <1>1 DEF AuditComplete
<1>3. WebhooksAreTrue
    BY DEF Init, WebhooksAreTrue
<1>4. ASSUME NEW r \in Request PROVE TellsTruth(r)
    <2>1. pc[r] = "idle" /\ result[r] = "" /\ reply[r] = NoReply
        BY DEF Init
    <2>2. Untraced(r)
        BY <1>1 DEF Untraced
    <2> QED
        BY <2>1, <2>2 DEF TellsTruth, AnswerInv, Refusals
<1> QED
    BY <1>2, <1>3, <1>4 DEF AuditInv

LEMMA StutterTells ==
    ASSUME AuditInv, UNCHANGED vars
    PROVE  AuditInv'
<1>1. AuditComplete' /\ WebhooksAreTrue'
    BY DEF vars, AuditInv, AuditComplete, WebhooksAreTrue
<1>2. \A q \in Request : Untouched(q)
    BY DEF vars, Untouched
<1>3. \A q \in Request : TellsTruth(q)'
    BY <1>2, UntouchedTellsTruth DEF vars, AuditInv
<1> QED
    BY <1>1, <1>3 DEF AuditInv

LEMMA AuditNext == IInv /\ AuditInv /\ [Next]_vars => AuditInv'
<1> SUFFICES ASSUME IInv, AuditInv, [Next]_vars PROVE AuditInv'
    OBVIOUS
<1>1. CASE UNCHANGED vars
    BY <1>1, StutterTells
<1>2. CASE \E r \in Request : \E c \in Calls : Arrive(r, c)
    BY <1>2, ArriveTells
<1>3. CASE \E r \in Request : Fail(r)
    BY <1>3, RefusedStep DEF Fail
<1>4. CASE \E r \in Request : Step(r)
    <2> PICK r \in Request : Step(r)
        BY <1>4
    <2>1. CASE CreateOrder(r)
        BY <2>1, CheckoutTells, CommitTells, NotifyPartnerTells DEF CreateOrder
    <2>2. CASE pc[r] # "idle" /\ call[r].op \in StatusOps /\ StatusChange(r)
        BY <2>2, StatusChangeTells, ReadOrderTells, ReadHistoryTells, CommitTells, NotifyPartnerTells
           DEF StatusChange
    <2>3. CASE GetOrderByID(r)
        BY <2>3, ReadOrderTells, ReadHistoryTells DEF GetOrderByID
    <2>4. CASE MenuEdit(r)
        BY <2>4, MenuEditTells
    <2> QED
        BY <2>1, <2>2, <2>3, <2>4 DEF Step, UpdateOrderStatus, CancelOrderByCustomer, StatusOps
<1> QED
    BY <1>1, <1>2, <1>3, <1>4 DEF Next, Finished

\* The histories, the answers being prepared and the webhooks agree in every reachable state.
THEOREM AuditInvariant == Spec => []AuditInv
    BY AuditInit, AuditNext, Invariant, PTL DEF Spec

\* However calls on an order interleave, fail or are cut short, its committed history is the whole
\* of its life: one entry for each change, in order, each legal for its actor.
THEOREM Audit == Spec => []AuditComplete
<1>1. AuditInv => AuditComplete
    BY DEF AuditInv
<1> QED
    BY <1>1, AuditInvariant, PTL

\* No webhook tells the partner of a change that was not committed.
THEOREM Webhooks == Spec => []WebhooksAreTrue
<1>1. AuditInv => WebhooksAreTrue
    BY DEF AuditInv
<1> QED
    BY <1>1, AuditInvariant, PTL

\* A status that is returned is one the returned history explains, although the two were read by
\* separate statements.
THEOREM HistoryCovers == Spec => []HistoryCoversStatus
<1>1. AuditInv => HistoryCoversStatus
    <2> SUFFICES ASSUME AuditInv, NEW r \in Request, result[r] = "ok", reply[r] # NoReply
                 PROVE  \E e \in reply[r].trail : e.to = reply[r].status
        BY DEF HistoryCoversStatus
    <2>1. ReplyInv(r)
        BY DEF AuditInv, TellsTruth, AnswerInv
    <2> QED
        BY <2>1 DEF ReplyInv, Covered
<1> QED
    BY <1>1, AuditInvariant, PTL

LEMMA TracesInHistory ==
    ASSUME NEW r \in Request, NEW p
    PROVE  p \in Traces(r) <=>
               \E o \in Request : \E i \in DOMAIN history[o] : history[o][i].by = r /\ p = <<o, i>>
    BY DEF Traces

LEMMA UntracedHasNone ==
    ASSUME NEW r \in Request, Untraced(r)
    PROVE  Traces(r) = {}
    BY TracesInHistory DEF Untraced

LEMMA TracedOnceHasOne ==
    ASSUME NEW r \in Request, Target(r) \in Request, TracedOnce(r)
    PROVE  Cardinality(Traces(r)) = 1
<1>1. PICK i \in DOMAIN history[Target(r)] :
          \A o \in Request : \A j \in DOMAIN history[o] : history[o][j].by = r <=> o = Target(r) /\ j = i
    BY DEF TracedOnce
<1>2. Traces(r) = {<<Target(r), i>>}
    BY <1>1, TracesInHistory
<1> QED
    BY <1>2, FS_Singleton

\* A caller told "ok" has made its change exactly once; a caller refused, or told of an internal
\* error, has changed nothing.
THEOREM Answers == Spec => []AnswersAreTrue
<1>1. IInv /\ AuditInv => AnswersAreTrue
    <2> SUFFICES ASSUME IInv, AuditInv, NEW r \in Request
                 PROVE  /\ result[r] = "ok" /\ call[r].op \in Transactional => Cardinality(Traces(r)) = 1
                        /\ result[r] \in Refusals \cup {"internal"} => Traces(r) = {}
                        /\ result[r] = "ok" /\ call[r].op = "CreateOrder" => orders[r] # None
        BY DEF AnswersAreTrue
    <2>1. AnswerInv(r) /\ RequestInv(r)
        BY DEF IInv, AuditInv, TellsTruth
    <2>2. ASSUME result[r] = "ok", call[r].op \in Transactional
          PROVE  Cardinality(Traces(r)) = 1 /\ (call[r].op = "CreateOrder" => orders[r] # None)
        <3>1. pc[r] = "done" /\ call[r] \in Call
            BY <2>1, <2>2 DEF AnswerInv, RequestInv
        <3>2. Target(r) \in Request
            BY <2>2, <3>1, CallTypes DEF Target, Transactional, StatusCall, CancelCall
        <3> QED
            BY <2>1, <2>2, <3>2, TracedOnceHasOne DEF AnswerInv
    <2>3. ASSUME result[r] \in Refusals \cup {"internal"} PROVE Traces(r) = {}
        BY <2>1, <2>3, UntracedHasNone DEF AnswerInv
    <2> QED
        BY <2>2, <2>3 DEF Transactional
<1> QED
    BY <1>1, Invariant, AuditInvariant, PTL


-----------------------------------------------------------------------------
(***************************************************************************)
(* The ledger.                                                             *)
(***************************************************************************)

Trail(h) == [i \in DOMAIN h |-> h[i].to]

\* The variables of the ledger.
Trails == [o \in Request |-> [i \in DOMAIN history[o] |-> history[o][i].to]]

Announced == {[order |-> w.order, status |-> w.status] : w \in sent}

LEMMA TrailOfHistory ==
    ASSUME NEW h \in Seq(Entry)
    PROVE  /\ Trail(h) \in Seq(Statuses) /\ Len(Trail(h)) = Len(h)
           /\ \A i \in 1 .. Len(h) : Trail(h)[i] = h[i].to
           /\ Trail(h) = <<>> <=> h = <<>>
<1>1. DOMAIN h = 1 .. Len(h) /\ Len(h) \in Nat /\ \A i \in 1 .. Len(h) : h[i].to \in Statuses
    <2>1. \A e \in Entry : e.to \in Statuses
        BY DEF Entry
    <2> QED
        BY <2>1
<1>2. Trail(h) = [i \in 1 .. Len(h) |-> h[i].to]
    BY <1>1 DEF Trail
<1>3. Trail(h) \in Seq(Statuses) /\ Len(Trail(h)) = Len(h)
    BY <1>1, <1>2
<1> QED
    BY <1>1, <1>2, <1>3

\* One more entry is one more status.
LEMMA TrailGrows ==
    ASSUME NEW h \in Seq(Entry), NEW e \in Entry
    PROVE  Trail(Append(h, e)) = Append(Trail(h), e.to)
<1>1. /\ Append(h, e) \in Seq(Entry) /\ Len(Append(h, e)) = Len(h) + 1
      /\ \A i \in 1 .. Len(h) : Append(h, e)[i] = h[i]
      /\ Append(h, e)[Len(h) + 1] = e
    BY AppendProperties
<1>2. /\ Append(Trail(h), e.to) \in Seq(Statuses) /\ Len(Append(Trail(h), e.to)) = Len(h) + 1
      /\ \A i \in 1 .. Len(h) : Append(Trail(h), e.to)[i] = h[i].to
      /\ Append(Trail(h), e.to)[Len(h) + 1] = e.to
    <2>1. e.to \in Statuses
        BY DEF Entry
    <2> QED
        BY <2>1, TrailOfHistory, AppendProperties
<1> DEFINE a == Trail(Append(h, e))
           b == Append(Trail(h), e.to)
<1>3. /\ a \in Seq(Statuses) /\ Len(a) = Len(h) + 1
      /\ \A i \in 1 .. Len(h) + 1 : a[i] = Append(h, e)[i].to
    BY <1>1, TrailOfHistory
<1> HIDE DEF a
<1>4. \A i \in 1 .. Len(h) + 1 : a[i] = b[i]
    <2> TAKE i \in 1 .. Len(h) + 1
    <2> HIDE DEF b
    <2>1. CASE i = Len(h) + 1
        BY <1>1, <1>2, <1>3, <2>1 DEF b
    <2>2. CASE i \in 1 .. Len(h)
        BY <1>1, <1>2, <1>3, <2>2 DEF b
    <2> QED
        BY <2>1, <2>2
<1> HIDE DEF b
<1> QED
    BY <1>2, <1>3, <1>4, SeqEqual DEF a, b

\* A commit adds a status to the trail of its order.
LEMMA TrailsGrow ==
    ASSUME IInv, NEW r \in Request, Commit(r)
    PROVE  /\ Target(r) \in Request
           /\ Trails' = [Trails EXCEPT ![Target(r)] = Append(@, HistoryEntry(r).to)]
           /\ Announced' = Announced
<1> DEFINE t == Target(r)
           e == HistoryEntry(r)
<1>1. /\ t \in Request /\ e \in Entry /\ history[t] \in Seq(Entry)
      /\ history'[t] = Append(history[t], e)
      /\ \A o \in Request : o # t => history'[o] = history[o]
    BY CommitRecords
<1>2. sent' = sent
    BY CommitWrites
<1> HIDE DEF t, e
<1>3. Trail(history'[t]) = Append(Trail(history[t]), e.to)
    BY <1>1, TrailGrows
<1>4. Trails = [o \in Request |-> Trail(history[o])] /\ Trails' = [o \in Request |-> Trail(history'[o])]
    BY DEF Trails, Trail
<1> HIDE DEF Trails, Trail
<1>5. Trails' = [Trails EXCEPT ![t] = Append(@, e.to)]
    BY <1>1, <1>3, <1>4
<1> QED
    BY <1>1, <1>2, <1>5 DEF Announced, t, e

\* The two modules have the lifecycle of their own copy of OrderLifecycle.
LEMMA SameLifecycle ==
    /\ Ledger!Actors = Actors /\ Ledger!Statuses = Statuses
    /\ \A a, s, t : Ledger!Legal(a, s, t) <=> Legal(a, s, t)
<1>1. Ledger!Actors = Actors /\ Ledger!Statuses = Statuses
    BY DEF Ledger!Actors, Actors, Ledger!Statuses, Statuses
<1>2. Ledger!cancellableBy = cancellableBy /\ Ledger!forwardTransitions = forwardTransitions
    BY DEF cancellableBy, Ledger!cancellableBy, forwardTransitions, Ledger!forwardTransitions
<1> QED
    BY <1>1, <1>2 DEF Legal, Ledger!Legal, CanBeCancelledBy, Ledger!CanBeCancelledBy,
       CanTransitionTo, Ledger!CanTransitionTo

LEMMA CommitIsLedgers ==
    ASSUME IInv, AuditInv, NEW r \in Request, Commit(r)
    PROVE  Ledger!Next
<1>1. pc[r] = "commit" /\ Target(r) \in Request /\ HistoryEntry(r) \in Entry
    BY CommitRecords, CommitWrites
<1>2. PICK o \in Request, e \in Entry : o = Target(r) /\ e = HistoryEntry(r)
    BY <1>1
<1>3. history[o] \in Seq(Entry) /\ Trails[o] = Trail(history[o])
    BY DEF Trails, Trail, IInv, TypeOK
<1>4. Ledger!Record(o, e.to) /\ e.to \in Ledger!Statuses
    <2>1. Trails' = [Trails EXCEPT ![o] = Append(Trails[o], e.to)] /\ Announced' = Announced
        BY <1>2, TrailsGrow
    <2>2. e.to \in Ledger!Statuses
        BY SameLifecycle DEF Entry
    <2> QED
        BY <2>1, <2>2 DEF Ledger!Record, Trails, Announced
<1>5. call[r].op = "CreateOrder" => e.to = "created" /\ orders[o] = None
    BY <1>1, <1>2, CommitEntry, CommitKnows DEF StatusOps
<1>6. ASSUME call[r].op # "CreateOrder"
      PROVE  e.from = orders[o].status /\ Legal(e.actor, e.from, e.to) /\ orders[o] # None
    <2>1. e.from = orders[o].status /\ Legal(e.actor, e.from, e.to)
        BY <1>1, <1>2, <1>6, CommitEntry
    <2>2. OrderHeld(r) /\ Target(r) = call[r].order
        BY <1>1, <1>6, CommitKnows
    <2> QED
        BY <1>2, <2>1, <2>2 DEF OrderHeld
<1>7. CASE call[r].op = "CreateOrder"
    <2>1. Trails[o] = <<>>
        BY <1>1, <1>3, <1>5, <1>7, TrailOfHistory DEF AuditInv, AuditComplete
    <2>2. Ledger!Place(o)
        BY <1>4, <1>5, <1>7, <2>1 DEF Ledger!Place, Trails
    <2> QED
        BY <1>1, <2>2 DEF Ledger!Next
<1>8. CASE call[r].op # "CreateOrder"
    <2>1. history[o] # <<>> /\ history[o][Len(history[o])].to = e.from
        BY <1>1, <1>6, <1>8 DEF AuditInv, AuditComplete, WholeStory
    <2>2. Len(history[o]) \in 1 .. Len(history[o])
        BY <1>1, <2>1
    <2>3. Trails[o] # <<>> /\ Trails[o][Len(Trails[o])] = e.from
        BY <1>1, <1>3, <2>1, <2>2, TrailOfHistory
    <2>4. e.actor \in Ledger!Actors /\ Ledger!Legal(e.actor, Trails[o][Len(Trails[o])], e.to)
        BY <1>1, <1>6, <1>8, <2>3, SameLifecycle DEF Entry
    <2>5. Ledger!Move(o, e.to)
        BY <1>4, <2>3, <2>4 DEF Ledger!Move, Trails
    <2> QED
        BY <1>1, <1>4, <2>5 DEF Ledger!Next
<1> QED
    BY <1>7, <1>8

LEMMA NotifyIsLedgers ==
    ASSUME IInv, AuditInv, AuditInv', NEW r \in Request, NotifyPartner(r)
    PROVE  [Ledger!Next]_Ledger!vars
<1> DEFINE w == [order |-> Target(r), status |-> reply[r].status, by |-> r]
<1>1. UNCHANGED history /\ (sent' = sent \/ sent' = sent \cup {w})
    BY DEF NotifyPartner, db
<1>2. CASE sent' = sent
    BY <1>1, <1>2 DEF Ledger!vars
<1>3. CASE sent' = sent \cup {w}
    <2>1. Target(r) \in Request
        <3>1. pc[r] = "notify" /\ call[r] \in Call /\ call[r].op \in Transactional
            BY DEF NotifyPartner, IInv, RequestInv, Placement, Transactional, StatusOps
        <3> QED
            BY <3>1, CallTypes DEF Target, Transactional, StatusCall, CancelCall
    <2>2. PICK o \in Request, s \in {reply[r].status} : o = Target(r)
        BY <2>1
    <2>3. w.order = o /\ w.status = s
        BY <2>2
    <2> HIDE DEF w
    <2>4. PICK i \in DOMAIN history[o] : history[o][i].to = s
        BY <1>1, <1>3, <2>3 DEF AuditInv, WebhooksAreTrue
    <2>5. s \in Statuses
        <3>1. history[o] \in Seq(Entry)
            BY DEF IInv, TypeOK
        <3>2. history[o][i] \in Entry
            BY <3>1
        <3> QED
            BY <2>4, <3>2 DEF Entry
    <2>6. s \in {Trails[o][j] : j \in DOMAIN Trails[o]}
        BY <2>4 DEF Trails
    <2>7. Announced' = Announced \cup {[order |-> o, status |-> s]} /\ Trails' = Trails
        BY <1>1, <1>3, <2>3 DEF Announced, Trails
    <2>8. Ledger!Announce(o, s) /\ s \in Ledger!Statuses
        BY <2>5, <2>6, <2>7, SameLifecycle DEF Ledger!Announce, Trails, Announced
    <2> QED
        BY <2>8 DEF Ledger!Next
<1> QED
    BY <1>1, <1>2, <1>3

LEMMA LedgerInit == Init => Ledger!Init
<1> SUFFICES ASSUME Init PROVE Ledger!Init
    OBVIOUS
<1>1. \A o \in Request : history[o] = <<>>
    BY DEF Init
<1>2. Trails = [o \in Request |-> <<>>]
    BY <1>1 DEF Trails
<1>3. Announced = {}
    BY DEF Init, Announced
<1> QED
    BY <1>2, <1>3 DEF Ledger!Init, Trails, Announced

LEMMA LedgerNext == IInv /\ AuditInv /\ AuditInv' /\ [Next]_vars => [Ledger!Next]_Ledger!vars
<1> SUFFICES ASSUME IInv, AuditInv, AuditInv', [Next]_vars PROVE [Ledger!Next]_Ledger!vars
    OBVIOUS
<1>1. CASE UNCHANGED <<history, sent>>
    BY <1>1 DEF Ledger!vars
<1>2. CASE Unwritten
    BY <1>1, <1>2 DEF Unwritten
<1>3. ASSUME NEW r \in Request, UpdateItem(r) \/ DeleteItem(r) PROVE UNCHANGED <<history, sent>>
    BY <1>3 DEF UpdateItem, DeleteItem, Abort, Rollback, db
<1> QED
    BY <1>1, <1>2, <1>3, RowsWritten, CommitIsLedgers, NotifyIsLedgers

\* OrderService keeps the promise the partner's kitchen relies on, for any number of orders and
\* requests: a ledger that grows by legal changes and announces only what it has.
THEOREM LedgerImplemented == Spec => ImplementsLedger
    BY LedgerInit, LedgerNext, Invariant, AuditInvariant, PTL DEF Spec, ImplementsLedger, Ledger!Spec

-----------------------------------------------------------------------------
(***************************************************************************)
(* The store.                                                              *)
(***************************************************************************)

\* Every call is one of those that may be made, so quantities and prices are among theirs.
SourceInv ==
    /\ \A r \in Request : call[r] \in Calls \cup {None}
    /\ \A d \in Dish : menu[d].price \in ListedPrices

LEMMA CallsWritten ==
    ASSUME [Next]_vars
    PROVE  call' = call \/ \E r \in Request, c \in Calls : Arrive(r, c)
<1>1. CASE UNCHANGED vars
    BY <1>1 DEF vars
<1>2. ASSUME NEW r \in Request, NEW error, Abort(r, error) PROVE call' = call
    BY <1>2 DEF Abort, Rollback
<1>3. ASSUME NEW r \in Request, Fail(r) PROVE call' = call
    BY <1>2, <1>3 DEF Fail
<1>4. ASSUME NEW r \in Request, Commit(r) \/ NotifyPartner(r) \/ GetWebhookURL(r) PROVE call' = call
    BY <1>4 DEF Commit, NotifyPartner, GetWebhookURL
<1>5. ASSUME NEW r \in Request, CreateOrder(r) PROVE call' = call
    <2>1. GetRestaurant(r) => call' = call
        BY <1>2 DEF GetRestaurant
    <2>2. \A d \in Dish : LockDish(r, d) \/ RefuseDish(r, d) => call' = call
        BY <1>2 DEF LockDish, RefuseDish
    <2>3. \A d \in Dish : DecrementStock(r, d) => call' = call
        BY <1>2 DEF DecrementStock
    <2>4. ReceiveDishes(r) => call' = call
        BY <1>2 DEF ReceiveDishes
    <2>5. PersistOrder(r) => call' = call
        BY <1>2 DEF PersistOrder
    <2> QED
        BY <1>4, <1>5, <2>1, <2>2, <2>3, <2>4, <2>5 DEF CreateOrder
<1>6. ASSUME NEW r \in Request, ReadOrder(r) \/ ReadHistory(r) PROVE call' = call
    <2>1. ReadOrder(r) => call' = call
        BY <1>2 DEF ReadOrder
    <2>2. ReadHistory(r) => call' = call
        BY <1>2 DEF ReadHistory
    <2> QED
        BY <1>6, <2>1, <2>2
<1>7. ASSUME NEW r \in Request, StatusChange(r) PROVE call' = call
    <2>1. LockOrder(r) => call' = call
        BY <1>2 DEF LockOrder
    <2>2. Decide(r) => call' = call
        BY <1>2 DEF Decide
    <2>3. \A d \in Dish : IncrementStock(r, d) => call' = call
        BY <1>2 DEF IncrementStock
    <2>4. ApplyStatusChange(r) => call' = call
        BY <1>2 DEF ApplyStatusChange
    <2> QED
        BY <1>4, <1>6, <1>7, <2>1, <2>2, <2>3, <2>4 DEF StatusChange
<1>8. ASSUME NEW r \in Request, MenuEdit(r) PROVE call' = call
    <2>1. AssertItemOwned(r) => call' = call
        BY <1>2 DEF AssertItemOwned
    <2>2. UpdateItem(r) => call' = call
        BY <1>2 DEF UpdateItem
    <2>3. DeleteItem(r) => call' = call
        BY <1>2 DEF DeleteItem
    <2>4. UpdateRestaurant(r) => call' = call
        BY DEF UpdateRestaurant
    <2> QED
        BY <1>8, <2>1, <2>2, <2>3, <2>4 DEF MenuEdit
<1> QED
    BY <1>1, <1>3, <1>5, <1>6, <1>7, <1>8
       DEF Next, Step, Finished, UpdateOrderStatus, CancelOrderByCustomer, GetOrderByID, vars

\* A price is never written but by a partner.
LEMMA EditedPrice ==
    ASSUME IInv, SourceInv, NEW r \in Request, UpdateItem(r)
    PROVE  \/ menu' = menu /\ orders' = orders
           \/ /\ \E d \in Dish, row \in Row : /\ menu[d].exists /\ row.exists
                                              /\ row.price \in ListedPrices
                                              /\ menu' = [menu EXCEPT ![d] = row]
              /\ orders' = orders
<1>1. CASE Abort(r, "ErrMenuItemNotFound")
    BY <1>1 DEF Abort, Rollback, db
<1>2. CASE ~Abort(r, "ErrMenuItemNotFound")
    <2>1. /\ pc[r] = "edit" /\ menu[call[r].dish].exists /\ orders' = orders
          /\ menu' = [menu EXCEPT ![call[r].dish] = Edited(menu[call[r].dish], call[r])]
        BY <1>2 DEF UpdateItem
    <2>2. call[r] \in EditCall /\ call[r] \in Calls
        <3>1. call[r] \in Call /\ call[r].op = "UpdateItem"
            BY <2>1 DEF IInv, RequestInv, Placement
        <3> QED
            BY <3>1, CallTypes, NoneAssumption DEF SourceInv
    <2>3. PICK c \in EditCall \cap Calls, d \in Dish : c = call[r] /\ d = c.dish
        BY <2>2 DEF EditCall
    <2>4. menu \in [Dish -> Row] /\ menu[d] \in Row
        BY DEF IInv, TypeOK
    <2>5. Edited(menu[d], c) \in Row /\ Edited(menu[d], c).exists
        BY <2>1, <2>3, <2>4, EditedRow
    <2>6. Edited(menu[d], c).price \in {c.price, menu[d].price} /\ ("price" \notin c.fields => Edited(menu[d], c).price = menu[d].price)
        BY <2>4 DEF Edited, Row
    <2>7. c.price \in ListedPrices /\ menu[d].price \in ListedPrices
        <3>1. c.op = "UpdateItem"
            BY DEF EditCall
        <3> QED
            BY <3>1 DEF SourceInv, ListedPrices
    <2> QED
        BY <2>1, <2>3, <2>5, <2>6, <2>7
<1> QED
    BY <1>1, <1>2

LEMMA RemovedRow ==
    ASSUME IInv, NEW r \in Request, DeleteItem(r)
    PROVE  \/ menu' = menu /\ orders' = orders
           \/ /\ \E d \in Dish : menu[d].exists /\ ~Ordered(d) /\ menu' = [menu EXCEPT ![d].exists = FALSE]
              /\ orders' = orders
<1>1. ASSUME NEW error, Abort(r, error) PROVE menu' = menu /\ orders' = orders
    BY <1>1 DEF Abort, Rollback, db
<1>2. CASE menu[call[r].dish].exists /\ ~Ordered(call[r].dish)
    <2>1. \/ /\ pc[r] = "remove" /\ orders' = orders
             /\ menu' = [menu EXCEPT ![call[r].dish].exists = FALSE]
        BY <1>2 DEF DeleteItem
    <2>2. call[r].dish \in Dish
        BY <2>1, CallTypes DEF IInv, RequestInv, Placement, RemoveCall
    <2> QED
        BY <1>2, <2>1, <2>2
<1> QED
    BY <1>1, <1>2 DEF DeleteItem

LEMMA SourceInit == Init => SourceInv
    BY DEF Init, SourceInv, ListedPrices

LEMMA SourceNext == IInv /\ SourceInv /\ [Next]_vars => SourceInv'
<1> SUFFICES ASSUME IInv, SourceInv, [Next]_vars PROVE SourceInv'
    OBVIOUS
<1>1. \A r \in Request : call'[r] \in Calls \cup {None}
    <2>1. ASSUME NEW q \in Request, NEW c \in Calls, Arrive(q, c) PROVE call' = [call EXCEPT ![q] = c]
        BY <2>1 DEF Arrive
    <2> QED
        BY <2>1, CallsWritten DEF SourceInv, IInv, TypeOK
<1>2. \A d \in Dish : menu'[d].price \in ListedPrices
    <2> SUFFICES ASSUME NEW d \in Dish PROVE menu'[d].price \in ListedPrices
        OBVIOUS
    <2>1. menu[d].price \in ListedPrices /\ menu \in [Dish -> Row] /\ menu[d] \in Row
        BY DEF SourceInv, IInv, TypeOK
    <2>2. ASSUME NEW r \in Request, Commit(r) PROVE menu'[d].price = menu[d].price
        BY <2>1, <2>2, CommitWrites, CommitKnows, StockedRow
    <2>3. ASSUME NEW r \in Request, UpdateItem(r) PROVE menu'[d].price \in ListedPrices
        BY <2>1, <2>3, EditedPrice
    <2>4. ASSUME NEW r \in Request, DeleteItem(r) PROVE menu'[d].price = menu[d].price
        BY <2>1, <2>4, RemovedRow DEF Row
    <2>5. ASSUME NEW r \in Request, NotifyPartner(r) PROVE menu' = menu
        BY <2>5 DEF NotifyPartner, db
    <2> QED
        BY <2>1, <2>2, <2>3, <2>4, <2>5, RowsWritten DEF Unwritten
<1> QED
    BY <1>1, <1>2 DEF SourceInv, ListedPrices

\* What a commit leaves on the shelves.
LEMMA CommitLeaves ==
    ASSUME IInv, NEW r \in Request, Commit(r), NEW left \in [Dish -> Int],
           \A d \in Dish : delta[r][d] = left[d]
    PROVE  /\ menu' = [d \in Dish |-> [menu[d] EXCEPT !.stock = @ + left[d]]]
           /\ \A d \in Dish : menu[d].stock + left[d] \in Portions
<1>1. pc[r] = "commit" /\ menu' = [d \in Dish |-> Stocked(menu[d], OwnStock(r, d))]
    BY CommitWrites
<1>2. \A d \in Dish : OwnStock(r, d) = menu[d].stock + left[d] /\ OwnStock(r, d) \in Portions
    BY <1>1, CommitKnows DEF OwnStock
<1>3. \A d \in Dish : Stocked(menu[d], OwnStock(r, d)) = [menu[d] EXCEPT !.stock = menu[d].stock + left[d]]
    BY <1>2 DEF Stocked
<1> QED
    BY <1>1, <1>2, <1>3

LEMMA CheckoutIsPlaced ==
    ASSUME IInv, SourceInv, NEW r \in Request, Commit(r), call[r].op = "CreateOrder"
    PROVE  Store!Next
<1>1. /\ pc[r] = "commit" /\ CheckoutInv(r) /\ orders[r] = None /\ Target(r) = r
      /\ draft[r] = NewOrder(r) /\ call[r] \in Call
    BY CommitWrites, CommitKnows DEF StatusOps
<1>2. call[r] \in CheckoutCall /\ call[r] \in Calls
    BY <1>1, CallTypes, NoneAssumption DEF SourceInv
<1>3. PICK c \in CheckoutCall \cap Calls : c = call[r]
    BY <1>2
<1>4. PICK u \in Customer, x \in Restaurant, qty \in [Dish -> AskedQuantities] :
          u = c.user /\ x = c.rest /\ qty = c.qty
    <2>1. c.user \in Customer /\ c.rest \in Restaurant /\ c.qty \in [Dish -> Nat] /\ c.op = "CreateOrder"
        BY DEF CheckoutCall, Quantities
    <2>2. \A d \in Dish : c.qty[d] \in AskedQuantities
        BY <2>1 DEF AskedQuantities
    <2>3. c.qty \in [Dish -> AskedQuantities]
        BY <2>1, <2>2
    <2> QED
        BY <2>1, <2>3
<1>5. /\ qty \in [Dish -> Nat] /\ Basket(qty) # {} /\ Basket(qty) \subseteq Dish
      /\ Store!InBasket(qty) = Basket(qty)
    BY <1>4 DEF CheckoutCall, Quantities, Basket, Store!InBasket
<1>6. /\ \A d \in Basket(qty) : Taken(r, d) /\ seen[r][d] = menu[d]
      /\ \A d \in Dish : delta[r][d] = 0 - qty[d]
    <2>1. /\ \A d \in Basket(qty) : Taken(r, d)
          /\ \A d \in Dish : d \notin Basket(qty) => delta[r][d] = 0
        BY <1>1, <1>3, <1>4 DEF CheckoutInv
    <2>2. \A d \in Basket(qty) : seen[r][d] = menu[d] /\ delta[r][d] = 0 - qty[d]
        BY <1>3, <1>4, <2>1 DEF Taken, Wanted, Locked
    <2>3. \A d \in Dish : d \notin Basket(qty) => qty[d] = 0
        BY <1>5 DEF Basket
    <2> QED
        BY <2>1, <2>2, <2>3
<1>7. \A d \in Store!InBasket(qty) : Store!Sellable(d, x, qty[d])
    BY <1>3, <1>4, <1>5, <1>6 DEF Taken, Wanted, Store!Sellable
<1>8. menu' = [d \in Dish |-> [menu[d] EXCEPT !.stock = @ - qty[d]]]
    <2> DEFINE left == [d \in Dish |-> 0 - qty[d]]
    <2>1. left \in [Dish -> Int] /\ \A d \in Dish : left[d] = 0 - qty[d]
        BY <1>5
    <2> HIDE DEF left
    <2>2. menu' = [d \in Dish |-> [menu[d] EXCEPT !.stock = menu[d].stock + left[d]]]
        BY <1>6, <2>1, CommitLeaves
    <2>3. \A d \in Dish : menu[d].stock + left[d] = menu[d].stock - qty[d]
        BY <1>5, <2>1, RowStock DEF IInv, TypeOK
    <2> QED
        BY <2>2, <2>3
<1>9. orders' = [orders EXCEPT ![r] =
          [user |-> u, rest |-> x, status |-> "created", qty |-> qty,
           price |-> [d \in Dish |-> IF d \in Store!InBasket(qty) THEN menu[d].price ELSE 0]]]
    <2>1. orders' = [orders EXCEPT ![r] = NewOrder(r)]
        BY <1>1, CommitWrites
    <2>2. [d \in Dish |-> IF d \in Basket(qty) THEN seen[r][d].price ELSE 0] =
              [d \in Dish |-> IF d \in Store!InBasket(qty) THEN menu[d].price ELSE 0]
        BY <1>5, <1>6
    <2> QED
        BY <1>3, <1>4, <2>1, <2>2 DEF NewOrder
<1>10. Store!PlaceOrder(r, u, x, qty)
    BY <1>1, <1>5, <1>7, <1>8, <1>9 DEF Store!PlaceOrder
<1> QED
    BY <1>10 DEF Store!Next

LEMMA SameLifecycleOfStore ==
    /\ Store!Actors = Actors /\ Store!Statuses = Statuses
    /\ \A s, t : Store!CanTransitionTo(s, t) <=> CanTransitionTo(s, t)
    /\ \A a, s : Store!CanBeCancelledBy(s, a) <=> CanBeCancelledBy(s, a)
    BY DEF Store!Actors, Actors, Store!Statuses, Statuses, cancellableBy, Store!cancellableBy,
       forwardTransitions, Store!forwardTransitions, CanBeCancelledBy, Store!CanBeCancelledBy,
       CanTransitionTo, Store!CanTransitionTo

LEMMA StatusChangeIsMoved ==
    ASSUME IInv, NEW r \in Request, Commit(r), call[r].op \in StatusOps
    PROVE  Store!Next
<1>1. /\ pc[r] = "commit" /\ OrderHeld(r) /\ Written(r) /\ Target(r) = call[r].order
      /\ Target(r) \in Request /\ got[r] \in Order /\ draft[r] = Restated(r) /\ call[r] \in Call
    BY CommitWrites, CommitKnows DEF StatusOps
<1>2. PICK o \in Request, s \in Statuses : o = call[r].order /\ s = NewStatus(r)
    BY <1>1, NewStatusType
<1>3. orders[o] = got[r] /\ orders[o] # None /\ orders[o] \in Order
    BY <1>1, <1>2 DEF OrderHeld
<1>4. orders' = [orders EXCEPT ![o].status = s]
    <2>1. orders' = [orders EXCEPT ![o] = Restated(r)]
        BY <1>1, <1>2, CommitWrites
    <2>2. Restated(r) = Moved(orders[o], s)
        BY <1>2, <1>3, MovedOrder DEF Restated
    <2> QED
        BY <2>1, <2>2 DEF Moved
<1>5. OrderRefusal(r) = "" /\ \A d \in Dish : IF d \in Returned(r) THEN Restocked(r, d) ELSE delta[r][d] = 0
    BY <1>1 DEF Written
<1>6. CASE s = "cancelled"
    <2>1. PICK qty \in [Dish -> Nat] : qty = orders[o].qty
        BY <1>3 DEF Order, Quantities
    <2>2. \A d \in Dish : delta[r][d] = qty[d]
        <3>1. Returned(r) = Basket(qty)
            BY <1>2, <1>3, <1>6, <2>1 DEF Returned
        <3>2. \A d \in Dish : d \notin Basket(qty) => qty[d] = 0
            BY DEF Basket
        <3>3. \A d \in Dish : Restocked(r, d) => delta[r][d] = qty[d]
            BY <1>3, <2>1 DEF Restocked
        <3> QED
            BY <1>5, <3>1, <3>2, <3>3
    <2>3. /\ menu' = [d \in Dish |-> [menu[d] EXCEPT !.stock = @ + qty[d]]]
          /\ \A d \in Dish : menu[d].stock + qty[d] \in Portions
        <3>1. qty \in [Dish -> Int]
            BY <2>1
        <3> QED
            BY <2>2, <3>1, CommitLeaves
    <2>4. \E a \in Store!Actors : Store!CanBeCancelledBy(orders[o].status, a)
        <3>1. ActorOf[call[r].op] \in Actors
            BY DEF StatusOps, ActorOf, Actors
        <3>2. CanBeCancelledBy(got[r].status, ActorOf[call[r].op])
            BY <1>2, <1>5, <1>6, OrderRefusalNone
        <3>3. CanBeCancelledBy(orders[o].status, ActorOf[call[r].op])
            BY <1>3, <3>2
        <3> QED
            BY <3>1, <3>3, SameLifecycleOfStore
    <2>5. Store!Cancel(o)
        BY <1>3, <1>4, <1>6, <2>1, <2>3, <2>4 DEF Store!Cancel
    <2> QED
        BY <2>5 DEF Store!Next
<1>7. CASE s # "cancelled"
    <2>1. menu' = menu
        <3>1. \A d \in Dish : delta[r][d] = 0
            BY <1>2, <1>5, <1>7 DEF Returned
        <3>2. \A d \in Dish : OwnStock(r, d) = menu[d].stock /\ OwnStock(r, d) \in Portions /\ menu[d] \in Row
            BY <1>1, <3>1, CommitKnows, RowStock DEF OwnStock, IInv, TypeOK
        <3>3. \A d \in Dish : Stocked(menu[d], OwnStock(r, d)) = menu[d]
            BY <3>2, StockedRow
        <3> QED
            BY <3>3, CommitWrites DEF IInv, TypeOK
    <2>2. Store!CanTransitionTo(orders[o].status, s) /\ s \in Store!Statuses
        BY <1>2, <1>3, <1>5, <1>7, OrderRefusalNone, SameLifecycleOfStore
    <2>3. Store!Advance(o)
        BY <1>3, <1>4, <2>1, <2>2 DEF Store!Advance
    <2> QED
        BY <2>3 DEF Store!Next
<1> QED
    BY <1>6, <1>7

LEMMA EditIsStores ==
    ASSUME IInv, SourceInv, NEW r \in Request, UpdateItem(r)
    PROVE  [Store!Next]_Store!vars
<1>1. CASE menu' = menu /\ orders' = orders
    BY <1>1 DEF Store!vars
<1>2. ASSUME NEW d \in Dish, NEW row \in Row, menu[d].exists, row.exists, row.price \in ListedPrices,
             menu' = [menu EXCEPT ![d] = row], orders' = orders
      PROVE  Store!Next
    <2>1. row = [exists |-> TRUE, price |-> row.price, stock |-> row.stock, avail |-> row.avail]
          /\ row.stock \in Portions /\ row.avail \in BOOLEAN
        BY <1>2 DEF Row
    <2>2. Store!EditDish(d)
        BY <1>2, <2>1 DEF Store!EditDish
    <2> QED
        BY <2>2 DEF Store!Next
<1> QED
    BY <1>1, <1>2, EditedPrice

LEMMA RemovalIsStores ==
    ASSUME IInv, NEW r \in Request, DeleteItem(r)
    PROVE  [Store!Next]_Store!vars
<1>1. CASE menu' = menu /\ orders' = orders
    BY <1>1 DEF Store!vars
<1>2. ASSUME NEW d \in Dish, menu[d].exists, ~Ordered(d),
             menu' = [menu EXCEPT ![d].exists = FALSE], orders' = orders
      PROVE  Store!Next
    <2>1. ASSUME NEW o \in Request, orders[o] # None PROVE orders[o].qty[d] = 0
        <3>1. orders[o].qty[d] \in Nat /\ d \notin Basket(orders[o].qty)
            BY <1>2, <2>1 DEF Ordered, IInv, TypeOK, Order, Quantities
        <3> QED
            BY <3>1 DEF Basket
    <2>2. Store!RemoveDish(d)
        BY <1>2, <2>1 DEF Store!RemoveDish
    <2> QED
        BY <2>2 DEF Store!Next
<1> QED
    BY <1>1, <1>2, RemovedRow

LEMMA StoreInit == Init => Store!Init
    BY DEF Init, Store!Init

LEMMA StoreNext == IInv /\ SourceInv /\ [Next]_vars => [Store!Next]_Store!vars
<1> SUFFICES ASSUME IInv, SourceInv, [Next]_vars PROVE [Store!Next]_Store!vars
    OBVIOUS
<1>1. CASE Unwritten
    BY <1>1 DEF Unwritten, Store!vars
<1>2. ASSUME NEW r \in Request, NotifyPartner(r) PROVE UNCHANGED Store!vars
    BY <1>2 DEF NotifyPartner, db, Store!vars
<1>3. ASSUME NEW r \in Request, Commit(r) PROVE Store!Next
    <2>1. call[r].op = "CreateOrder" \/ call[r].op \in StatusOps
        BY <1>3, CommitWrites, CommitKnows
    <2> QED
        BY <1>3, <2>1, CheckoutIsPlaced, StatusChangeIsMoved
<1> QED
    BY <1>1, <1>2, <1>3, RowsWritten, EditIsStores, RemovalIsStores

\* The transactions of OrderService are atomic, for any number of them: whatever statements of
\* other requests run in between, and wherever a request is cut short, menu and orders change as
\* if every order had been placed, moved or cancelled, with its stock, in one step.
THEOREM StoreImplemented == Spec => ImplementsStore
<1>1. Spec => []SourceInv
    BY SourceInit, SourceNext, Invariant, PTL DEF Spec
<1> QED
    BY <1>1, StoreInit, StoreNext, Invariant, PTL DEF Spec, ImplementsStore, Store!Spec
=============================================================================
