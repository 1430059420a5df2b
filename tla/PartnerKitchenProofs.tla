------------------------ MODULE PartnerKitchenProofs ------------------------
(***************************************************************************)
(* Proofs about the webhook dispatcher and the partner's kitchen, for any  *)
(* number of orders, slots, attempts and events kept.                      *)
(***************************************************************************)
EXTENDS PartnerKitchen, FiniteSetTheorems, SequenceTheorems, TLAPS

-----------------------------------------------------------------------------
(***************************************************************************)
(* The inductive invariant.  A cooking routine knows something of the      *)
(* history of its order: what it was told is what the platform did, and    *)
(* stays true because the platform moves orders forward only, and the key  *)
(* the kitchen presents is the one it was started with.                    *)
(***************************************************************************)

StatusChange == [to: Statuses, by: {"customer", "staff", "kitchen"}]

Committed(h, s) == \E k \in DOMAIN h : h[k].to = s

Current(h) == h[Len(h)].to

StepNumbers == {1, 2, 3}

\* The statuses an order has left for good when step i is committed.
Behind(i) ==
    {"created"} \cup (IF i > 1 THEN {"accepted"} ELSE {}) \cup (IF i > 2 THEN {"cooking"} ELSE {})

Forward(h) == \A i \in StepNumbers : Committed(h, Steps[i]) => Current(h) \notin Behind(i)

\* What routine r of order o with history h was told is so, when K are the orders of the restaurant
\* whose key it presents.
Informed(o, r, h, K) ==
    /\ r.at # "none" => h # <<>>
    /\ \A i \in StepNumbers : i < r.step => Committed(h, Steps[i])
    /\ r.code = "2xx" => Committed(h, Steps[r.step])
    /\ r.at = "finished" => \A i \in StepNumbers : Committed(h, Steps[i])
    /\ (r.at = "awaiting" /\ r.code = "4xx") \/ r.at = "rejected" =>
           ~(o \in K /\ CanTransitionTo(Current(h), Steps[r.step]))

OrderInv(o) == Forward(history[o]) /\ Informed(o, routine[o], history[o], keyed)

\* A webhook announces what was committed, and the partner handles what it received.
EventInv(e) ==
    /\ e \in owed \/ sender[e] # "none" => Committed(history[e.order], e.status)
    /\ request[e] # "unsent" => sender[e] # "none"
    /\ handler[e] # "none" => request[e] = "received"

SlotInv == IsFiniteSet(InFlight) /\ slots = Cardinality(InFlight) /\ slots <= MaxInFlight

CloseInv ==
    ~forced =>
        /\ phase \in {"closing", "closed"} => \A e \in Event : handler[e] # "running"
        /\ phase = "closed" => \A o \in OrderId : ~Active(o)

IInv ==
    /\ TypeOK
    /\ SlotInv
    /\ CloseInv
    /\ EventsAreLatest
    /\ \A p \in patches : history[p.order] # <<>>
    /\ \A e \in Event : EventInv(e)
    /\ \A o \in OrderId : OrderInv(o)

-----------------------------------------------------------------------------
(***************************************************************************)
(* Histories and routines.                                                 *)
(***************************************************************************)

LEMMA TheSteps ==
    /\ Len(Steps) = 3 /\ 1 .. Len(Steps) = StepNumbers
    /\ Steps[1] = "accepted" /\ Steps[2] = "cooking" /\ Steps[3] = "ready"
    BY DEF Steps, StepNumbers

LEMMA Lengthened ==
    ASSUME NEW S, NEW h \in Seq(S), NEW x \in S
    PROVE  LET h2 == Append(h, x)
           IN  /\ h2 \in Seq(S) /\ h2 # <<>> /\ Len(h2) \in Nat /\ h2[Len(h2)] = x
               /\ DOMAIN h2 = DOMAIN h \cup {Len(h2)}
               /\ \A k \in DOMAIN h : h2[k] = h[k]
    OBVIOUS

LEMMA CommittedMore ==
    ASSUME NEW h \in Seq(StatusChange), NEW x \in StatusChange
    PROVE  /\ Current(Append(h, x)) = x.to
           /\ Append(h, x) # <<>>
           /\ \A s : Committed(Append(h, x), s) <=> Committed(h, s) \/ s = x.to
<1> DEFINE h2 == Append(h, x)
<1>1. /\ h2 # <<>> /\ h2[Len(h2)] = x /\ DOMAIN h2 = DOMAIN h \cup {Len(h2)}
      /\ \A k \in DOMAIN h : h2[k] = h[k]
    BY Lengthened
<1> HIDE DEF h2
<1>2. \A s : Committed(h2, s) <=> Committed(h, s) \/ s = x.to
    BY <1>1 DEF Committed
<1>3. Current(h2) = x.to
    BY <1>1 DEF Current
<1> QED
    BY <1>1, <1>2, <1>3 DEF h2

\* A change the platform may make.
MayFollow(h, t) ==
    IF h = <<>> THEN t = "created" ELSE \E a \in Actors : Legal(a, Current(h), t)

LEMMA ForwardMore ==
    ASSUME NEW h \in Seq(StatusChange), NEW x \in StatusChange, Forward(h), MayFollow(h, x.to)
    PROVE  Forward(Append(h, x))
<1> SUFFICES ASSUME NEW i \in StepNumbers, Committed(Append(h, x), Steps[i])
             PROVE  Current(Append(h, x)) \notin Behind(i)
    BY DEF Forward
<1>1. Current(Append(h, x)) = x.to /\ (Committed(h, Steps[i]) \/ Steps[i] = x.to)
    BY CommittedMore
<1>2. CASE Steps[i] = x.to
    BY <1>1, <1>2, TheSteps DEF StepNumbers, Behind
<1>3. CASE Committed(h, Steps[i])
    <2>1. h # <<>> /\ Current(h) \notin Behind(i)
        BY <1>3 DEF Committed, Forward
    <2>2. \E a \in Actors : Legal(a, Current(h), x.to)
        BY <2>1 DEF MayFollow
    <2>3. x.to \notin Behind(i)
        BY <2>1, <2>2 DEF StepNumbers, Behind, Legal, CanTransitionTo, forwardTransitions
    <2> QED
        BY <1>1, <2>3
<1> QED
    BY <1>1, <1>2, <1>3

Routine == [at: {"none", "pause", "request", "awaiting", "backoff"} \cup Ended,
            step: 1 .. Len(Steps), attempt: 1 .. Attempts, code: {"none", "2xx", "4xx", "5xx"}]

LEMMA InformedStill ==
    ASSUME NEW h \in Seq(StatusChange), NEW x \in StatusChange, Forward(h), MayFollow(h, x.to),
           NEW r \in Routine, NEW o, NEW K, Informed(o, r, h, K)
    PROVE  Informed(o, r, Append(h, x), K)
<1> DEFINE h2 == Append(h, x)
<1>1. h2 # <<>> /\ Current(h2) = x.to /\ \A s : Committed(h, s) => Committed(h2, s)
    BY CommittedMore
<1> HIDE DEF h2
<1>2. r.step \in StepNumbers
    BY TheSteps DEF Routine
<1>3. ASSUME (r.at = "awaiting" /\ r.code = "4xx") \/ r.at = "rejected"
      PROVE  ~(o \in K /\ CanTransitionTo(Current(h2), Steps[r.step]))
    <2> SUFFICES ASSUME o \in K PROVE ~CanTransitionTo(Current(h2), Steps[r.step])
        OBVIOUS
    <2>1. h # <<>> /\ ~CanTransitionTo(Current(h), Steps[r.step])
        BY <1>3 DEF Informed
    <2>2. PICK a \in Actors : Legal(a, Current(h), x.to)
        BY <2>1 DEF MayFollow
    <2>3. \A i \in StepNumbers : i < r.step => Current(h) \notin Behind(i)
        BY DEF Forward, Informed
    <2>4. CASE r.step = 1
        BY <1>1, <2>1, <2>2, <2>4, TheSteps DEF Legal, CanTransitionTo, forwardTransitions
    <2>5. CASE r.step = 2
        BY <1>1, <2>1, <2>2, <2>3, <2>5, TheSteps
           DEF StepNumbers, Behind, Legal, CanTransitionTo, forwardTransitions
    <2>6. CASE r.step = 3
        BY <1>1, <2>1, <2>2, <2>3, <2>6, TheSteps
           DEF StepNumbers, Behind, Legal, CanTransitionTo, forwardTransitions
    <2> QED
        BY <1>2, <2>4, <2>5, <2>6 DEF StepNumbers
<1> QED
    BY <1>1, <1>2, <1>3 DEF Informed, h2

\* The platform's answer to the PATCH a routine is waiting for.
LEMMA InformedByAnswer ==
    ASSUME NEW r \in Routine, NEW h, NEW o, NEW K, Informed(o, r, h, K), r.at = "awaiting",
           NEW c \in {"2xx", "4xx", "5xx"},
           c = "2xx" => Committed(h, Steps[r.step]),
           c = "4xx" => ~(o \in K /\ CanTransitionTo(Current(h), Steps[r.step]))
    PROVE  [r EXCEPT !.code = c] \in Routine /\ Informed(o, [r EXCEPT !.code = c], h, K)
<1> DEFINE n == [r EXCEPT !.code = c]
<1>1. /\ n \in Routine /\ n.at = r.at /\ n.step = r.step /\ n.code = c
    BY DEF Routine
<1> HIDE DEF n
<1> QED
    BY <1>1 DEF Informed, n

\* A routine that goes on to another statement of the same step.
LEMMA InformedElsewhere ==
    ASSUME NEW r \in Routine, NEW h, NEW o, NEW K, Informed(o, r, h, K), h # <<>>,
           NEW at \in {"pause", "request", "awaiting", "backoff", "gaveUp", "cancelled"}
    PROVE  LET n == [r EXCEPT !.at = at, !.code = "none"]
           IN  n \in Routine /\ n.at = at /\ Informed(o, n, h, K)
<1> DEFINE n == [r EXCEPT !.at = at, !.code = "none"]
<1>1. n \in Routine /\ n.at = at /\ n.step = r.step /\ n.code = "none"
    BY DEF Routine, Ended
<1> HIDE DEF n
<1> QED
    BY <1>1 DEF Informed, n

-----------------------------------------------------------------------------
(***************************************************************************)
(* What a step that leaves some of the state alone keeps.                  *)
(***************************************************************************)

LEMMA SlotsSame == SlotInv /\ UNCHANGED <<slots, sender>> => SlotInv'
    BY DEF SlotInv, InFlight

LEMMA CloseSame ==
    ASSUME CloseInv, UNCHANGED <<phase, forced, handler>>, \A o \in OrderId : Active(o)' => Active(o)
    PROVE  CloseInv'
    BY DEF CloseInv

LEMMA LatestSame == EventsAreLatest /\ UNCHANGED <<events, received>> => EventsAreLatest'
    BY DEF EventsAreLatest

LEMMA EventsSame ==
    ASSUME \A e \in Event : EventInv(e), UNCHANGED <<sender, request, handler, owed, history>>
    PROVE  \A e \in Event : EventInv(e)'
    BY DEF EventInv

LEMMA OrdersSame ==
    ASSUME \A o \in OrderId : OrderInv(o), UNCHANGED <<history, routine, keyed>>
    PROVE  \A o \in OrderId : OrderInv(o)'
    BY DEF OrderInv

LEMMA EventsOfOrders ==
    /\ \A e \in Event : e.order \in OrderId /\ e.status \in Statuses
    /\ \A o \in OrderId, s \in Statuses :
           LET e == [order |-> o, status |-> s] IN e \in Event /\ e.order = o /\ e.status = s
    BY KitchenAssumption

LEMMA Types ==
    ASSUME TypeOK
    PROVE  /\ history \in [OrderId -> Seq(StatusChange)]
           /\ routine \in [OrderId -> Routine]
           /\ patches \subseteq [order: OrderId, to: Statuses, attempt: 1 .. Attempts]
    BY DEF TypeOK, StatusChange, Routine

\* A step of the platform that adds a legal change to an order: no invariant of anybody breaks.
LEMMA ChangeKeeps ==
    ASSUME IInv, NEW o \in OrderId, NEW t \in Statuses, NEW by \in {"customer", "staff", "kitchen"},
           Change(o, t, by), MayFollow(history[o], t)
    PROVE  /\ history' \in [OrderId -> Seq(StatusChange)]
           /\ owed' \subseteq Event
           /\ Current(history'[o]) = t /\ Committed(history'[o], t)
           /\ \A p \in OrderId : history[p] # <<>> => history'[p] # <<>>
           /\ \A p \in OrderId : Forward(history'[p]) /\ Informed(p, routine[p], history'[p], keyed)
           /\ UNCHANGED <<sender, request, handler>> => \A e \in Event : EventInv(e)'
<1> DEFINE x == [to |-> t, by |-> by]
           f == [order |-> o, status |-> t]
<1>1. x \in StatusChange /\ x.to = t /\ f \in Event /\ f.order = o /\ f.status = t
    BY EventsOfOrders DEF StatusChange
<1>2. history \in [OrderId -> Seq(StatusChange)] /\ routine \in [OrderId -> Routine]
    BY Types DEF IInv
<1>3. history' = [history EXCEPT ![o] = Append(history[o], x)] /\ owed' = owed \cup {f}
    BY DEF Change
<1> HIDE DEF x, f
<1>4. Append(history[o], x) \in Seq(StatusChange)
    BY <1>1, <1>2
<1>5. /\ history' \in [OrderId -> Seq(StatusChange)]
      /\ history'[o] = Append(history[o], x)
      /\ \A p \in OrderId \ {o} : history'[p] = history[p]
    BY <1>2, <1>3, <1>4
<1>6. /\ Current(history'[o]) = t /\ history'[o] # <<>>
      /\ \A s : Committed(history'[o], s) <=> Committed(history[o], s) \/ s = t
    BY <1>1, <1>2, <1>5, CommittedMore
<1>7. \A p \in OrderId : Forward(history'[p]) /\ Informed(p, routine[p], history'[p], keyed)
    <2>1. Forward(history'[o]) /\ Informed(o, routine[o], history'[o], keyed)
        BY <1>1, <1>2, <1>5, ForwardMore, InformedStill DEF IInv, OrderInv
    <2> QED
        BY <1>5, <2>1 DEF IInv, OrderInv
<1>8. \A p \in OrderId : \A s : Committed(history[p], s) => Committed(history'[p], s)
    BY <1>5, <1>6
<1>9. ASSUME UNCHANGED <<sender, request, handler>>, NEW e \in Event PROVE EventInv(e)'
    <2>1. EventInv(e) /\ e.order \in OrderId
        BY EventsOfOrders DEF IInv
    <2>2. CASE e = f
        BY <1>1, <1>6, <1>9, <2>1, <2>2 DEF EventInv
    <2>3. CASE e # f
        BY <1>3, <1>8, <1>9, <2>1, <2>3 DEF EventInv
    <2> QED
        BY <2>2, <2>3
<1>10. owed' \subseteq Event
    BY <1>1, <1>3 DEF IInv, TypeOK
<1> QED
    BY <1>5, <1>6, <1>7, <1>9, <1>10

\* The platform adds a change and no routine hears of it.
LEMMA ChangeUnheard ==
    ASSUME IInv, NEW o \in OrderId, NEW t \in Statuses, NEW by \in {"customer", "staff", "kitchen"},
           Change(o, t, by), MayFollow(history[o], t),
           UNCHANGED <<dispatcherVars, patches, partner, routine, flakes>>
    PROVE  IInv'
<1> USE DEF dispatcherVars, partner
<1>1. TypeOK'
    BY ChangeKeeps DEF IInv, TypeOK, StatusChange
<1>2. SlotInv' /\ EventsAreLatest' /\ CloseInv'
    BY SlotsSame, LatestSame, CloseSame DEF IInv, Active
<1>3. \A p \in patches' : history'[p.order] # <<>>
    BY ChangeKeeps, Types DEF IInv
<1>4. \A e \in Event : EventInv(e)'
    BY ChangeKeeps
<1>5. \A p \in OrderId : OrderInv(p)'
    BY ChangeKeeps DEF OrderInv
<1> QED
    BY <1>1, <1>2, <1>3, <1>4, <1>5 DEF IInv

LEMMA PlaceOrderStep ==
    ASSUME IInv, NEW o \in OrderId, PlaceOrder(o)
    PROVE  IInv'
<1>1. MayFollow(history[o], "created")
    BY DEF PlaceOrder, MayFollow
<1> QED
    BY <1>1, ChangeUnheard DEF PlaceOrder, Statuses

LEMMA MoveOrderStep ==
    ASSUME IInv, NEW o \in OrderId, NEW t \in Statuses, NEW a \in Others, MoveOrder(o, t, a)
    PROVE  IInv'
<1>1. MayFollow(history[o], t)
    BY KitchenAssumption DEF MoveOrder, MayFollow, status, Current
<1> QED
    BY <1>1, ChangeUnheard DEF MoveOrder

\* Only the answer of a routine that awaits p changes.
LEMMA RespondWrites ==
    ASSUME TypeOK, NEW p \in patches, NEW c, Respond(p, c)
    PROVE  /\ \A o \in OrderId \ {p.order} : routine'[o] = routine[o]
           /\ ~Awaited(p) => routine' = routine
           /\ Awaited(p) => routine' = [routine EXCEPT ![p.order] = [@ EXCEPT !.code = c]]
<1>1. p.order \in OrderId /\ routine \in [OrderId -> Routine]
    BY Types
<1>2. CASE Awaited(p)
    <2>1. routine' = [routine EXCEPT ![p.order] = [@ EXCEPT !.code = c]]
        BY <1>2 DEF Respond
    <2> QED
        BY <1>1, <1>2, <2>1
<1>3. CASE ~Awaited(p)
    <2>1. routine[p.order] \in Routine
        BY <1>1
    <2>2. [routine[p.order] EXCEPT !.code = routine[p.order].code] = routine[p.order]
        BY <2>1 DEF Routine
    <2>3. routine' = [routine EXCEPT ![p.order] = routine[p.order]]
        BY <1>3, <2>2 DEF Respond
    <2> QED
        BY <1>1, <1>3, <2>3
<1> QED
    BY <1>2, <1>3

\* What is answered is so in the history after the step.
LEMMA RespondInforms ==
    ASSUME TypeOK, NEW p \in patches, NEW c \in {"2xx", "4xx", "5xx"}, Respond(p, c),
           NEW h, c = "2xx" => Committed(h, p.to),
           NEW K, c = "4xx" => ~(p.order \in K /\ CanTransitionTo(Current(h), p.to)),
           Informed(p.order, routine[p.order], h, K)
    PROVE  /\ routine' \in [OrderId -> Routine]
           /\ \A o \in OrderId : routine'[o].at = routine[o].at
           /\ Informed(p.order, routine'[p.order], h, K)
<1> DEFINE r == routine[p.order]
           n == [r EXCEPT !.code = c]
<1>1. p.order \in OrderId /\ routine \in [OrderId -> Routine] /\ r \in Routine
    BY Types
<1>2. CASE ~Awaited(p)
    BY <1>1, <1>2, RespondWrites
<1>3. CASE Awaited(p)
    <2>1. routine' = [routine EXCEPT ![p.order] = n]
        BY <1>3, RespondWrites
    <2>2. r.at = "awaiting" /\ Steps[r.step] = p.to
        BY <1>3 DEF Awaited
    <2>3. n \in Routine /\ Informed(p.order, n, h, K)
        BY <1>1, <2>2, InformedByAnswer
    <2>4. n.at = r.at
        BY <1>1 DEF Routine
    <2> HIDE DEF n
    <2> QED
        BY <1>1, <2>1, <2>3, <2>4
<1> QED
    BY <1>2, <1>3

LEMMA HandlePatchStep ==
    ASSUME IInv, NEW p \in patches, HandlePatch(p)
    PROVE  IInv'
<1> USE DEF HandlePatch, dispatcherVars, partner, platform
<1> DEFINE o == p.order
<1>1. /\ o \in OrderId /\ p.to \in Statuses /\ patches' \subseteq patches
      /\ history \in [OrderId -> Seq(StatusChange)] /\ history[o] # <<>>
      /\ UNCHANGED <<slots, sender, request, keyed, phase, forced, handler, events, received, flakes>>
    BY Types DEF IInv
<1>2. PICK c \in {"2xx", "4xx", "5xx"} :
          /\ Respond(p, c)
          /\ \/ Accepts(p) /\ Change(o, p.to, "kitchen") /\ c # "4xx"
             \/ c # "2xx" /\ (c = "4xx" => ~Accepts(p)) /\ UNCHANGED <<history, owed>>
    OBVIOUS
<1>3. Accepts(p) <=> o \in keyed /\ CanTransitionTo(Current(history[o]), p.to)
    BY DEF Accepts, Authorised, status, Current
<1>4. /\ history' \in [OrderId -> Seq(StatusChange)] /\ owed' \subseteq Event
      /\ \A q \in OrderId : history[q] # <<>> => history'[q] # <<>>
      /\ \A q \in OrderId : Forward(history'[q]) /\ Informed(q, routine[q], history'[q], keyed)
      /\ \A e \in Event : EventInv(e)'
      /\ c = "2xx" => Committed(history'[o], p.to)
      /\ c = "4xx" => ~(o \in keyed /\ CanTransitionTo(Current(history'[o]), p.to))
    <2>1. CASE Accepts(p) /\ Change(o, p.to, "kitchen") /\ c # "4xx"
        <3>1. MayFollow(history[o], p.to)
            BY <1>1, <1>3, <2>1 DEF MayFollow, Legal, Actors
        <3> QED
            BY <1>1, <2>1, <3>1, ChangeKeeps
    <2>2. CASE c # "2xx" /\ (c = "4xx" => ~Accepts(p)) /\ UNCHANGED <<history, owed>>
        <3>1. \A e \in Event : EventInv(e)'
            BY <1>1, <2>2, EventsSame DEF IInv
        <3> QED
            BY <1>1, <1>3, <2>2, <3>1 DEF IInv, TypeOK, OrderInv
    <2> QED
        BY <1>2, <2>1, <2>2
<1>5. /\ routine' \in [OrderId -> Routine]
      /\ \A q \in OrderId : routine'[q].at = routine[q].at
      /\ Informed(o, routine'[o], history'[o], keyed)
    BY <1>1, <1>2, <1>4, RespondInforms DEF IInv
<1>6. \A q \in OrderId \ {o} : routine'[q] = routine[q]
    BY <1>2, RespondWrites DEF IInv
<1>7. TypeOK'
    <2>1. /\ slots' \in Nat /\ phase' \in {"up", "stopping", "closing", "closed"} /\ forced' \in BOOLEAN
          /\ sender' \in [Event -> {"none", "skipped", "dropped", "running", "ended"}]
          /\ request' \in [Event -> {"unsent", "travelling", "received", "lost"}]
          /\ handler' \in [Event -> {"none", "running", "done"}]
          /\ events' \in Seq(Event) /\ received' \in Seq(Event) /\ flakes' \in [OrderId -> 0 .. 2]
          /\ keyed' \subseteq OrderId
        BY <1>1 DEF IInv, TypeOK
    <2>2. patches' \subseteq [order: OrderId, to: Statuses, attempt: 1 .. Attempts]
        BY <1>1, Types DEF IInv
    <2> QED
        BY <1>4, <1>5, <2>1, <2>2 DEF TypeOK, StatusChange, Routine
<1>8. SlotInv' /\ EventsAreLatest'
    BY <1>1, SlotsSame, LatestSame DEF IInv
<1>9. CloseInv'
    BY <1>1, <1>5, CloseSame DEF IInv, Active
<1>10. \A q \in patches' : history'[q.order] # <<>>
    BY <1>1, <1>4, Types DEF IInv
<1>11. \A q \in OrderId : OrderInv(q)'
    BY <1>4, <1>5, <1>6 DEF OrderInv
<1> QED
    BY <1>4, <1>7, <1>8, <1>9, <1>10, <1>11 DEF IInv

-----------------------------------------------------------------------------
(***************************************************************************)
(* The cooking routine.                                                    *)
(***************************************************************************)

\* A routine at work goes on to n, perhaps sending a PATCH.
LEMMA CookKeeps ==
    ASSUME IInv, NEW o \in OrderId, Active(o), NEW n \in Routine,
           routine' = [routine EXCEPT ![o] = n], Informed(o, n, history[o], keyed),
           patches' \subseteq [order: OrderId, to: Statuses, attempt: 1 .. Attempts],
           \A p \in patches' : p \in patches \/ p.order = o,
           flakes' \in [OrderId -> 0 .. 2],
           UNCHANGED <<dispatcherVars, platform, partner>>
    PROVE  IInv'
<1> USE DEF dispatcherVars, platform, partner
<1>1. routine \in [OrderId -> Routine] /\ Informed(o, routine[o], history[o], keyed)
    BY Types DEF IInv, OrderInv
<1>2. /\ routine' \in [OrderId -> Routine] /\ routine'[o] = n
      /\ \A q \in OrderId \ {o} : routine'[q] = routine[q]
    BY <1>1
<1>3. TypeOK'
    <2>1. /\ slots' \in Nat /\ phase' \in {"up", "stopping", "closing", "closed"} /\ forced' \in BOOLEAN
          /\ sender' \in [Event -> {"none", "skipped", "dropped", "running", "ended"}]
          /\ request' \in [Event -> {"unsent", "travelling", "received", "lost"}]
          /\ handler' \in [Event -> {"none", "running", "done"}]
          /\ events' \in Seq(Event) /\ received' \in Seq(Event) /\ owed' \subseteq Event
          /\ keyed' \subseteq OrderId
          /\ history' \in [OrderId -> Seq([to: Statuses, by: {"customer", "staff", "kitchen"}])]
        BY DEF IInv, TypeOK
    <2> QED
        BY <1>2, <2>1 DEF TypeOK, Routine
<1>4. SlotInv' /\ EventsAreLatest' /\ \A e \in Event : EventInv(e)'
    BY SlotsSame, LatestSame, EventsSame DEF IInv
<1>5. CloseInv'
    <2>1. \A q \in OrderId : Active(q)' => Active(q)
        BY <1>2 DEF Active
    <2> QED
        BY <2>1, CloseSame DEF IInv
<1>6. history[o] # <<>>
    BY <1>1 DEF Active, Informed
<1>7. \A p \in patches' : history'[p.order] # <<>>
    BY <1>6 DEF IInv
<1>8. \A q \in OrderId : OrderInv(q)'
    BY <1>2 DEF IInv, OrderInv
<1> QED
    BY <1>3, <1>4, <1>5, <1>7, <1>8 DEF IInv

\* What is so of a routine at work.
LEMMA AtWork ==
    ASSUME IInv, NEW o \in OrderId, Active(o)
    PROVE  /\ routine[o] \in Routine /\ Informed(o, routine[o], history[o], keyed) /\ history[o] # <<>>
           /\ patches \subseteq [order: OrderId, to: Statuses, attempt: 1 .. Attempts]
           /\ flakes \in [OrderId -> 0 .. 2] /\ routine[o].step \in StepNumbers
<1>1. routine[o] \in Routine /\ Informed(o, routine[o], history[o], keyed)
    BY Types DEF IInv, OrderInv
<1>2. history[o] # <<>>
    BY <1>1 DEF Active, Informed
<1>3. routine[o].step \in StepNumbers
    BY <1>1, TheSteps DEF Routine
<1> QED
    BY <1>1, <1>2, <1>3, Types DEF IInv, TypeOK

LEMMA EnterWrites ==
    ASSUME NEW o \in OrderId, NEW at, Enter(o, at), routine \in [OrderId -> Routine]
    PROVE  routine' = [routine EXCEPT ![o] = [routine[o] EXCEPT !.at = at, !.code = "none"]]
    BY DEF Enter, Routine

LEMMA FlakesTyped ==
    ASSUME NEW o \in OrderId, flakes \in [OrderId -> 0 .. 2], Flake(o)
    PROVE  flakes' \in [OrderId -> 0 .. 2]
<1>1. (IF flakes[o] < 2 THEN flakes[o] + 1 ELSE flakes[o]) \in 0 .. 2
    OBVIOUS
<1> QED
    BY <1>1 DEF Flake

\* A routine that goes on within its step.
LEMMA EnterKeeps ==
    ASSUME IInv, NEW o \in OrderId, Active(o),
           NEW at \in {"pause", "request", "awaiting", "backoff", "gaveUp", "cancelled"}, Enter(o, at),
           patches' \subseteq [order: OrderId, to: Statuses, attempt: 1 .. Attempts],
           \A p \in patches' : p \in patches \/ p.order = o,
           flakes' \in [OrderId -> 0 .. 2],
           UNCHANGED <<dispatcherVars, platform, partner>>
    PROVE  IInv'
<1> DEFINE n == [routine[o] EXCEPT !.at = at, !.code = "none"]
<1>1. n \in Routine /\ Informed(o, n, history[o], keyed)
    BY AtWork, InformedElsewhere
<1>2. routine' = [routine EXCEPT ![o] = n]
    BY EnterWrites, Types DEF IInv
<1> HIDE DEF n
<1> QED
    BY <1>1, <1>2, CookKeeps

LEMMA CancelledStep ==
    ASSUME IInv, NEW o \in OrderId, Cancelled(o)
    PROVE  IInv'
<1>1. Active(o)
    BY DEF Cancelled, Active, Ended
<1>2. Enter(o, "cancelled") /\ UNCHANGED <<dispatcherVars, platform, patches, partner, flakes>>
    BY DEF Cancelled
<1> QED
    BY <1>1, <1>2, AtWork, EnterKeeps

LEMMA SendPatchStep ==
    ASSUME IInv, NEW o \in OrderId, SendPatch(o)
    PROVE  IInv'
<1> DEFINE p == [order |-> o, to |-> Steps[routine[o].step], attempt |-> routine[o].attempt]
<1>1. Active(o)
    BY DEF SendPatch, Active, Ended
<1>2. p \in [order: OrderId, to: Statuses, attempt: 1 .. Attempts] /\ p.order = o
    BY <1>1, AtWork, TheSteps DEF StepNumbers, Routine, Statuses
<1>3. /\ \/ patches' = patches \cup {p} /\ Enter(o, "awaiting") /\ UNCHANGED flakes
         \/ Enter(o, "backoff") /\ Flake(o) /\ UNCHANGED patches
      /\ UNCHANGED <<dispatcherVars, platform, partner>>
    BY DEF SendPatch
<1> HIDE DEF p
<1>4. /\ patches' \subseteq [order: OrderId, to: Statuses, attempt: 1 .. Attempts]
      /\ \A q \in patches' : q \in patches \/ q.order = o
      /\ flakes' \in [OrderId -> 0 .. 2]
    BY <1>1, <1>2, <1>3, AtWork, FlakesTyped
<1> QED
    BY <1>1, <1>3, <1>4, EnterKeeps

LEMMA FlakedStep ==
    ASSUME IInv, NEW o \in OrderId, Flaked(o)
    PROVE  IInv'
<1>1. Active(o)
    BY DEF Flaked, Active, Ended
<1>2. Enter(o, "backoff") /\ Flake(o) /\ UNCHANGED <<dispatcherVars, platform, patches, partner>>
    BY DEF Flaked
<1> QED
    BY <1>1, <1>2, AtWork, FlakesTyped, EnterKeeps

LEMMA RejectedStep ==
    ASSUME IInv, NEW o \in OrderId, Rejected(o)
    PROVE  IInv'
<1> DEFINE r == routine[o]
           n == [r EXCEPT !.at = "rejected", !.code = "none"]
<1>1. Active(o) /\ r.at = "awaiting" /\ r.code = "4xx"
    BY DEF Rejected, Active, Ended, IsPermanent
<1>2. r \in Routine /\ Informed(o, r, history[o], keyed)
    BY <1>1, AtWork
<1>3. n \in Routine /\ n.at = "rejected" /\ n.code = "none" /\ n.step = r.step
    BY <1>2 DEF Routine, Ended
<1>4. routine' = [routine EXCEPT ![o] = n] /\ UNCHANGED <<dispatcherVars, platform, patches, partner, flakes>>
    BY EnterWrites, Types DEF Rejected, IInv
<1> HIDE DEF n
<1>5. Informed(o, n, history[o], keyed)
    BY <1>1, <1>2, <1>3 DEF Informed
<1> QED
    BY <1>1, <1>3, <1>4, <1>5, AtWork, CookKeeps

LEMMA AdvancedStep ==
    ASSUME IInv, NEW o \in OrderId, Advanced(o)
    PROVE  IInv'
<1> DEFINE r == routine[o]
           n == IF r.step = Len(Steps) THEN [r EXCEPT !.at = "finished", !.code = "none"]
                ELSE [at |-> "pause", step |-> r.step + 1, attempt |-> 1, code |-> "none"]
<1>1. Active(o) /\ r.code = "2xx"
    BY DEF Advanced, Active, Ended, Succeeded
<1>2. r \in Routine /\ Informed(o, r, history[o], keyed) /\ r.step \in StepNumbers /\ history[o] # <<>>
    BY <1>1, AtWork
<1>3. \A i \in StepNumbers : i <= r.step => Committed(history[o], Steps[i])
    BY <1>1, <1>2 DEF Informed, StepNumbers
<1>4. routine' = [routine EXCEPT ![o] = n] /\ UNCHANGED <<dispatcherVars, platform, patches, partner, flakes>>
    BY DEF Advanced
<1>5. /\ n \in Routine /\ n.code = "none"
      /\ \/ n.at = "finished" /\ n.step = 3 /\ r.step = 3
         \/ n.at = "pause" /\ n.step = r.step + 1
    <2>1. CASE r.step = 3
        BY <1>2, <2>1, TheSteps DEF Routine, Ended
    <2>2. CASE r.step \in {1, 2}
        BY <1>2, <2>2, TheSteps, KitchenAssumption DEF Routine
    <2> QED
        BY <1>2, <2>1, <2>2 DEF StepNumbers
<1> HIDE DEF n
<1>6. Informed(o, n, history[o], keyed)
    BY <1>2, <1>3, <1>5 DEF Informed, StepNumbers
<1> QED
    BY <1>1, <1>4, <1>5, <1>6, AtWork, CookKeeps

LEMMA RetryStep ==
    ASSUME IInv, NEW o \in OrderId, Retry(o)
    PROVE  IInv'
<1> DEFINE r == routine[o]
           n == [r EXCEPT !.at = "request", !.attempt = r.attempt + 1]
<1>1. Active(o) /\ UNCHANGED <<dispatcherVars, platform, patches, partner, flakes>>
    BY DEF Retry, Active, Ended
<1>2. r \in Routine /\ Informed(o, r, history[o], keyed) /\ history[o] # <<>>
    BY <1>1, AtWork
<1>3. CASE r.attempt < Attempts
    <2>1. n \in Routine /\ n.at = "request" /\ n.code = r.code /\ n.step = r.step
        <3>1. r.attempt + 1 \in 1 .. Attempts
            BY <1>2, <1>3, KitchenAssumption DEF Routine
        <3> DEFINE k == r.attempt + 1
        <3> HIDE DEF k
        <3> QED
            BY <1>2, <3>1 DEF Routine, k
    <2>2. routine' = [routine EXCEPT ![o] = n]
        <3>1. routine \in [OrderId -> Routine]
            BY Types DEF IInv
        <3>2. routine' = [routine EXCEPT ![o].at = "request", ![o].attempt = routine[o].attempt + 1]
            BY <1>3, Zenon DEF Retry, MayRetry, NextAttempt
        <3> QED
            BY <1>2, <3>1, <3>2 DEF Routine
    <2> HIDE DEF n
    <2>3. Informed(o, n, history[o], keyed)
        BY <1>2, <2>1 DEF Informed
    <2> QED
        BY <1>1, <2>1, <2>2, <2>3, AtWork, CookKeeps
<1>4. CASE ~(r.attempt < Attempts)
    <2>1. Enter(o, "gaveUp")
        BY <1>4 DEF Retry, MayRetry
    <2> QED
        BY <1>1, <2>1, AtWork, EnterKeeps
<1> QED
    BY <1>3, <1>4

-----------------------------------------------------------------------------
(***************************************************************************)
(* The dispatcher and the partner's handler.                               *)
(***************************************************************************)

\* A step of the dispatcher or of the handler: no order and no routine changes.
LEMMA EventStepKeeps ==
    ASSUME IInv, TypeOK', SlotInv', CloseInv', EventsAreLatest', \A e \in Event : EventInv(e)',
           UNCHANGED <<history, patches, routine, keyed>>
    PROVE  IInv'
    BY OrdersSame DEF IInv

LEMMA Dispatched ==
    ASSUME TypeOK, SlotInv, NEW e \in Event, Dispatch(e)
    PROVE  /\ slots' \in Nat /\ SlotInv'
           /\ sender' \in [Event -> {"none", "skipped", "dropped", "running", "ended"}]
           /\ request' \in [Event -> {"unsent", "travelling", "received", "lost"}]
           /\ sender[e] = "none" /\ sender'[e] # "none"
           /\ \A f \in Event \ {e} : sender'[f] = sender[f] /\ request'[f] = request[f]
<1>1. /\ slots \in Nat
      /\ sender \in [Event -> {"none", "skipped", "dropped", "running", "ended"}]
      /\ request \in [Event -> {"unsent", "travelling", "received", "lost"}]
    BY DEF TypeOK
<1>2. CASE e \in Hooked /\ slots < MaxInFlight /\ slots' = slots + 1
           /\ sender' = [sender EXCEPT ![e] = "running"]
           /\ request' = [request EXCEPT ![e] = "travelling"]
    <2>1. sender[e] = "none"
        BY DEF Dispatch
    <2>2. e \notin InFlight /\ InFlight' = InFlight \cup {e}
        BY <1>1, <1>2, <2>1 DEF InFlight
    <2>3. IsFiniteSet(InFlight') /\ Cardinality(InFlight') = Cardinality(InFlight) + 1
        BY <2>2, FS_AddElement DEF SlotInv
    <2>4. slots' \in Nat /\ slots' <= MaxInFlight
        BY <1>1, <1>2, DispatcherAssumption
    <2>5. SlotInv'
        BY <1>2, <2>3, <2>4 DEF SlotInv
    <2> QED
        BY <1>1, <1>2, <2>1, <2>4, <2>5
<1>3. CASE \E s \in {"skipped", "dropped"} :
               sender' = [sender EXCEPT ![e] = s] /\ UNCHANGED <<slots, request>>
    <2>1. sender[e] = "none"
        BY DEF Dispatch
    <2>2. PICK s \in {"skipped", "dropped"} :
              sender' = [sender EXCEPT ![e] = s] /\ UNCHANGED <<slots, request>>
        BY <1>3
    <2>3. InFlight' = InFlight
        BY <1>1, <2>1, <2>2 DEF InFlight
    <2> QED
        BY <1>1, <2>1, <2>2, <2>3 DEF SlotInv
<1> QED
    BY <1>2, <1>3 DEF Dispatch

LEMMA NotifyStep ==
    ASSUME IInv, NEW e \in Event, Notify(e)
    PROVE  IInv'
<1> USE DEF Notify, partner
<1>1. /\ slots' \in Nat /\ SlotInv'
      /\ sender' \in [Event -> {"none", "skipped", "dropped", "running", "ended"}]
      /\ request' \in [Event -> {"unsent", "travelling", "received", "lost"}]
      /\ sender[e] = "none" /\ sender'[e] # "none"
      /\ \A f \in Event \ {e} : sender'[f] = sender[f] /\ request'[f] = request[f]
    BY Dispatched DEF IInv
<1>2. TypeOK'
    BY <1>1 DEF IInv, TypeOK
<1>3. CloseInv' /\ EventsAreLatest'
    BY LatestSame, CloseSame DEF IInv, Active
<1>4. ASSUME NEW f \in Event PROVE EventInv(f)'
    <2>1. EventInv(f) /\ EventInv(e)
        BY DEF IInv
    <2>2. CASE f = e
        BY <1>1, <2>1, <2>2 DEF EventInv
    <2>3. CASE f # e
        BY <1>1, <2>1, <2>3 DEF EventInv
    <2> QED
        BY <2>2, <2>3
<1> QED
    BY <1>1, <1>2, <1>3, <1>4, EventStepKeeps

LEMMA EndDeliveryStep ==
    ASSUME IInv, NEW e \in Event, EndDelivery(e)
    PROVE  IInv'
<1> USE DEF EndDelivery, partner, platform
<1>1. /\ sender[e] = "running" /\ sender' = [sender EXCEPT ![e] = "ended"]
      /\ slots' = slots - 1 /\ request' = request
    BY DEF Finish
<1>2. /\ slots \in Nat
      /\ sender \in [Event -> {"none", "skipped", "dropped", "running", "ended"}]
    BY DEF IInv, TypeOK
<1>3. e \in InFlight /\ InFlight' = InFlight \ {e}
    BY <1>1, <1>2 DEF InFlight
<1>4. /\ IsFiniteSet(InFlight') /\ Cardinality(InFlight') = Cardinality(InFlight) - 1
      /\ Cardinality(InFlight') \in Nat
    BY <1>3, FS_RemoveElement, FS_CardinalityType DEF IInv, SlotInv
<1>5. slots' \in Nat /\ slots' <= MaxInFlight /\ slots' = Cardinality(InFlight')
    BY <1>1, <1>2, <1>4, DispatcherAssumption DEF IInv, SlotInv
<1>6. SlotInv'
    BY <1>4, <1>5 DEF SlotInv
<1>7. TypeOK'
    BY <1>1, <1>2, <1>5 DEF IInv, TypeOK
<1>8. CloseInv' /\ EventsAreLatest'
    BY LatestSame, CloseSame DEF IInv, Active
<1>9. \A f \in Event : EventInv(f)'
    BY <1>1, <1>2 DEF IInv, EventInv
<1> QED
    BY <1>6, <1>7, <1>8, <1>9, EventStepKeeps

LEMMA LoseWebhookStep ==
    ASSUME IInv, NEW e \in Event, LoseWebhook(e)
    PROVE  IInv'
<1> USE DEF LoseWebhook, Lose, partner, platform
<1>1. TypeOK'
    BY DEF IInv, TypeOK
<1>2. SlotInv' /\ CloseInv' /\ EventsAreLatest'
    BY SlotsSame, LatestSame, CloseSame DEF IInv, Active
<1>3. \A f \in Event : EventInv(f)'
    BY DEF IInv, EventInv, TypeOK
<1> QED
    BY <1>1, <1>2, <1>3, EventStepKeeps

LEMMA PlatformExitStep ==
    ASSUME IInv, PlatformExit
    PROVE  IInv'
<1> USE DEF PlatformExit, Exit, partner
<1>1. TypeOK'
    BY DEF IInv, TypeOK
<1>2. InFlight' = {}
    BY DEF InFlight
<1>3. SlotInv'
    BY <1>2, FS_EmptySet, DispatcherAssumption DEF SlotInv
<1>4. CloseInv' /\ EventsAreLatest'
    BY LatestSame, CloseSame DEF IInv, Active
<1>5. \A f \in Event : EventInv(f)'
    BY DEF IInv, EventInv
<1> QED
    BY <1>1, <1>3, <1>4, <1>5, EventStepKeeps

\* The last elements of a sequence that has grown by one: all of them, or one more than before less
\* the first.
LEMMA LastOfAll ==
    ASSUME NEW S, NEW q \in Seq(S)
    PROVE  SubSeq(q, Len(q) - Len(q) + 1, Len(q)) = q
<1>1. Len(q) - Len(q) + 1 = 1
    OBVIOUS
<1> QED
    BY <1>1, SubSeqFull

LEMMA LastOfLonger ==
    ASSUME NEW S, NEW q \in Seq(S), NEW e \in S, NEW k \in Nat \ {0}, k <= Len(q)
    PROVE  /\ Append(Tail(SubSeq(q, Len(q) - k + 1, Len(q))), e)
              = SubSeq(Append(q, e), Len(Append(q, e)) - k + 1, Len(Append(q, e)))
           /\ Len(SubSeq(q, Len(q) - k + 1, Len(q))) = k
<1> DEFINE m == Len(q) - k + 2
           r == Append(q, e)
           t == SubSeq(q, Len(q) - k + 1, Len(q))
<1>1. /\ m \in Int /\ m \in 2 .. Len(q) + 1 /\ m - 1 = Len(q) - k + 1
      /\ m - 1 \in 1 .. Len(q) /\ Len(q) \in m - 1 .. Len(q) /\ (m - 1) + 1 = m
    OBVIOUS
<1>2. /\ r \in Seq(S) /\ Len(r) = Len(q) + 1 /\ r[Len(q) + 1] = e
      /\ \A i \in 1 .. Len(q) : r[i] = q[i]
    BY AppendProperties
<1>3. Len(r) - k + 1 = m /\ m \in 1 .. Len(r) /\ Len(r) \in m .. Len(r) /\ Len(r) - 1 = Len(q)
    BY <1>1, <1>2
<1> HIDE DEF m, r
<1>4. Tail(t) = SubSeq(q, m, Len(q))
    BY <1>1, HeadTailOfSubSeq
<1>5. SubSeq(r, m, Len(r)) = SubSeq(r, m, Len(q)) \o << e >>
    BY <1>2, <1>3, SubSeqRecursiveSecond
<1>6. SubSeq(r, m, Len(q)) = SubSeq(q, m, Len(q)) /\ SubSeq(q, m, Len(q)) \in Seq(S)
    <2>1. Len(q) \in Int /\ \A i \in m .. Len(q) : q[i] \in S /\ r[i] \in S /\ r[i] = q[i]
        BY <1>1, <1>2
    <2> DEFINE x == SubSeq(r, m, Len(q))
               y == SubSeq(q, m, Len(q))
               n == Len(q) - m + 1
    <2>2. n \in Nat /\ n = IF m <= Len(q) THEN Len(q) - m + 1 ELSE 0
        BY <1>1
    <2>3. /\ x \in Seq(S) /\ Len(x) = n /\ \A i \in 1 .. n : x[i] = r[m + i - 1]
        BY <1>1, <2>1, <2>2, SubSeqProperties
    <2>4. /\ y \in Seq(S) /\ Len(y) = n /\ \A i \in 1 .. n : y[i] = q[m + i - 1]
        BY <1>1, <2>1, <2>2, SubSeqProperties
    <2> HIDE DEF x, y
    <2>5. \A i \in 1 .. n : m + i - 1 \in m .. Len(q)
        BY <1>1
    <2> HIDE DEF n
    <2>6. \A i \in 1 .. n : x[i] = y[i]
        BY <2>1, <2>3, <2>4, <2>5
    <2>7. x = y
        BY <2>3, <2>4, <2>6, SeqEqual
    <2> QED
        BY <2>4, <2>7 DEF x, y
<1>7. Append(SubSeq(q, m, Len(q)), e) = SubSeq(q, m, Len(q)) \o << e >>
    BY <1>6, AppendIsConcat
<1>8. Append(Tail(t), e) = SubSeq(r, m, Len(r))
    BY <1>4, <1>5, <1>6, <1>7
<1>9. Len(t) = k
    <2>1. \A i \in Len(q) - k + 1 .. Len(q) : q[i] \in S
        BY <1>1
    <2>2. Len(t) = IF Len(q) - k + 1 <= Len(q) THEN Len(q) - (Len(q) - k + 1) + 1 ELSE 0
        BY <2>1, SubSeqProperties
    <2> HIDE DEF t
    <2> QED
        BY <2>2
<1> QED
    BY <1>3, <1>8, <1>9 DEF r

\* The ring keeps the last events.
LEMMA RingKeeps ==
    ASSUME TypeOK, EventsAreLatest, NEW e \in Event,
           events' = Latest(events, e), received' = Append(received, e)
    PROVE  events' \in Seq(Event) /\ received' \in Seq(Event) /\ EventsAreLatest'
<1> DEFINE q == received
           r == Append(q, e)
           k == MaxEvents
<1>1. q \in Seq(Event) /\ events \in Seq(Event) /\ k \in Nat \ {0} /\ Len(q) \in Nat
    BY KitchenAssumption DEF TypeOK
<1>2. r \in Seq(Event) /\ Len(r) = Len(q) + 1
    BY <1>1, AppendProperties
<1>3. received' = r
    OBVIOUS
<1>4. CASE Len(q) < k
    <2>1. events = q
        BY <1>1, <1>4, LastOfAll DEF EventsAreLatest
    <2>2. events' = r
        BY <1>1, <1>4, <2>1 DEF Latest
    <2>3. r = SubSeq(r, Len(r) - Len(r) + 1, Len(r))
        BY <1>2, LastOfAll
    <2>4. (IF Len(r) < k THEN Len(r) ELSE k) = Len(r)
        BY <1>1, <1>2, <1>4
    <2> HIDE DEF r
    <2> QED
        BY <1>2, <1>3, <2>2, <2>3, <2>4 DEF EventsAreLatest
<1>5. CASE ~(Len(q) < k)
    <2>1. k <= Len(q)
        BY <1>1, <1>5
    <2> DEFINE t == SubSeq(q, Len(q) - k + 1, Len(q))
    <2>2. events = t
        BY <1>5 DEF EventsAreLatest
    <2>3. Append(Tail(t), e) = SubSeq(r, Len(r) - k + 1, Len(r)) /\ Len(t) = k
        BY <1>1, <2>1, LastOfLonger
    <2>4. events # <<>> /\ Len(events) >= k
        <3>1. Len(events) = k
            BY <2>2, <2>3
        <3> QED
            BY <1>1, <3>1
    <2>5. events' = Append(Tail(events), e)
        BY <2>4 DEF Latest
    <2>6. events' \in Seq(Event)
        BY <1>1, <2>4, <2>5, HeadTailProperties, AppendProperties
    <2>7. (IF Len(r) < k THEN Len(r) ELSE k) = k
        BY <1>1, <1>2, <2>1
    <2> HIDE DEF r, t
    <2> QED
        BY <1>2, <1>3, <2>2, <2>3, <2>5, <2>6, <2>7 DEF EventsAreLatest
<1> QED
    BY <1>4, <1>5

LEMMA ReceiveWebhookStep ==
    ASSUME IInv, NEW e \in Event, ReceiveWebhook(e)
    PROVE  IInv'
<1> USE DEF ReceiveWebhook, Reach, platform
<1>1. events' \in Seq(Event) /\ received' \in Seq(Event) /\ EventsAreLatest'
    BY RingKeeps DEF IInv
<1>2. TypeOK'
    BY <1>1 DEF IInv, TypeOK
<1>3. SlotInv' /\ CloseInv'
    BY SlotsSame DEF IInv, CloseInv
<1>4. \A f \in Event : EventInv(f)'
    BY DEF IInv, EventInv, TypeOK
<1> QED
    BY <1>1, <1>2, <1>3, <1>4, EventStepKeeps

LEMMA StartCookingStep ==
    ASSUME IInv, NEW e \in Event, StartCooking(e)
    PROVE  IInv'
<1> USE DEF dispatcherVars, platform
<1> DEFINE o == e.order
           r == routine[o]
           n == [r EXCEPT !.at = "pause"]
<1>1. /\ handler[e] = "running" /\ handler' = [handler EXCEPT ![e] = "done"]
      /\ \/ e.status = "created" /\ routine' = [routine EXCEPT ![o].at = "pause"]
         \/ UNCHANGED routine
      /\ UNCHANGED <<slots, sender, request, history, owed, patches, keyed, phase, forced, events,
                     received, flakes>>
    BY DEF StartCooking
<1>2. /\ o \in OrderId /\ routine \in [OrderId -> Routine] /\ r \in Routine
      /\ handler \in [Event -> {"none", "running", "done"}]
    BY Types, EventsOfOrders DEF IInv, TypeOK
<1>3. Committed(history[o], e.status) /\ request[e] = "received"
    BY <1>1 DEF IInv, EventInv
<1>4. history[o] # <<>>
    BY <1>3 DEF Committed
<1>5. n \in Routine /\ n.at = "pause" /\ n.step = r.step /\ n.code = r.code
    BY <1>2 DEF Routine
<1>6. Informed(o, n, history[o], keyed)
    <2> HIDE DEF n
    <2>1. Informed(o, r, history[o], keyed)
        BY <1>2 DEF IInv, OrderInv
    <2> QED
        BY <1>4, <1>5, <2>1 DEF Informed
<1>7. /\ routine' \in [OrderId -> Routine]
      /\ routine'[o] = r \/ routine'[o] = n
      /\ \A q \in OrderId \ {o} : routine'[q] = routine[q]
    <2>1. CASE routine' = [routine EXCEPT ![o].at = "pause"]
        <3>1. routine' = [routine EXCEPT ![o] = n]
            BY <2>1
        <3> HIDE DEF n
        <3> QED
            BY <1>2, <1>5, <3>1
    <2>2. CASE UNCHANGED routine
        BY <1>2, <2>2
    <2> QED
        BY <1>1, <2>1, <2>2
<1> HIDE DEF n
<1>8. TypeOK'
    <2>1. handler' \in [Event -> {"none", "running", "done"}]
        BY <1>1, <1>2
    <2> QED
        BY <1>1, <1>7, <2>1 DEF IInv, TypeOK, Routine
<1>9. SlotInv' /\ EventsAreLatest'
    BY <1>1, SlotsSame, LatestSame DEF IInv
<1>10. CloseInv'
    <2>1. ~forced => phase \notin {"closing", "closed"}
        BY <1>1 DEF IInv, CloseInv
    <2> QED
        BY <1>1, <2>1 DEF CloseInv
<1>11. \A f \in Event : EventInv(f)'
    BY <1>1, <1>2, <1>3 DEF IInv, EventInv
<1>12. \A p \in patches' : history'[p.order] # <<>>
    BY <1>1 DEF IInv
<1>13. \A q \in OrderId : OrderInv(q)'
    BY <1>1, <1>2, <1>6, <1>7 DEF IInv, OrderInv
<1> QED
    BY <1>8, <1>9, <1>10, <1>11, <1>12, <1>13 DEF IInv

-----------------------------------------------------------------------------
(***************************************************************************)
(* Stopping the partner.                                                   *)
(***************************************************************************)

\* Only the phase changes: closing and closed follow what they wait for.
LEMMA PhaseKeeps ==
    ASSUME IInv, phase' \in {"up", "stopping", "closing", "closed"}, forced' \in BOOLEAN, CloseInv',
           UNCHANGED <<dispatcherVars, platform, patches, keyed, handler, events, received, routine, flakes>>
    PROVE  IInv'
<1> USE DEF dispatcherVars, platform
<1>1. TypeOK'
    BY DEF IInv, TypeOK
<1>2. SlotInv' /\ EventsAreLatest' /\ \A e \in Event : EventInv(e)'
    BY SlotsSame, LatestSame, EventsSame DEF IInv
<1> QED
    BY <1>1, <1>2, EventStepKeeps

LEMMA StopStep ==
    ASSUME IInv, Stop
    PROVE  IInv'
<1>1. CloseInv'
    BY DEF Stop, CloseInv
<1> QED
    BY <1>1, PhaseKeeps DEF Stop, IInv, TypeOK

LEMMA ShutDownStep ==
    ASSUME IInv, ShutDown
    PROVE  IInv'
<1>1. CloseInv'
    BY DEF ShutDown, CloseInv
<1>2. forced' \in BOOLEAN
    BY DEF ShutDown
<1> QED
    BY <1>1, <1>2, PhaseKeeps DEF ShutDown

LEMMA CloseStep ==
    ASSUME IInv, Close
    PROVE  IInv'
<1>1. CloseInv'
    BY DEF Close, CloseInv, Waited, Active, IInv
<1> QED
    BY <1>1, PhaseKeeps DEF Close, IInv, TypeOK

-----------------------------------------------------------------------------
(***************************************************************************)
(* The invariant and what it implies.                                      *)
(***************************************************************************)

LEMMA InitInv == Init => IInv
<1> SUFFICES ASSUME Init PROVE IInv
    OBVIOUS
<1> USE DEF Init, DispatcherInit
<1>1. TypeOK
    <2>1. NoRoutine \in Routine
        BY TheSteps, KitchenAssumption DEF NoRoutine, Routine, StepNumbers
    <2>2. routine \in [OrderId -> Routine]
        BY <2>1
    <2>3. events \in Seq(Event) /\ received \in Seq(Event)
        OBVIOUS
    <2>4. /\ slots \in Nat /\ phase \in {"up", "stopping", "closing", "closed"} /\ forced \in BOOLEAN
          /\ owed \subseteq Event /\ keyed \subseteq OrderId
          /\ patches \subseteq [order: OrderId, to: Statuses, attempt: 1 .. Attempts]
        OBVIOUS
    <2>5. /\ sender \in [Event -> {"none", "skipped", "dropped", "running", "ended"}]
          /\ request \in [Event -> {"unsent", "travelling", "received", "lost"}]
          /\ handler \in [Event -> {"none", "running", "done"}]
        OBVIOUS
    <2>6. history \in [OrderId -> Seq(StatusChange)] /\ flakes \in [OrderId -> 0 .. 2]
        OBVIOUS
    <2> HIDE DEF Init, DispatcherInit
    <2> QED
        BY <2>2, <2>3, <2>4, <2>5, <2>6 DEF TypeOK, Routine, StatusChange
<1>2. SlotInv
    <2>1. InFlight = {}
        BY DEF InFlight
    <2> QED
        BY <2>1, FS_EmptySet, DispatcherAssumption DEF SlotInv
<1>3. CloseInv
    BY DEF CloseInv
<1>4. EventsAreLatest
    <2>1. Len(received) = 0 /\ MaxEvents \in Nat \ {0} /\ received \in Seq(Event)
        BY KitchenAssumption
    <2>2. SubSeq(received, Len(received) - Len(received) + 1, Len(received)) = received
        BY <2>1, LastOfAll
    <2> QED
        BY <2>1, <2>2 DEF EventsAreLatest
<1>5. \A e \in Event : EventInv(e)
    BY DEF EventInv
<1>6. \A o \in OrderId : OrderInv(o)
    BY DEF OrderInv, Forward, Informed, Committed, NoRoutine, StepNumbers
<1> QED
    BY <1>1, <1>2, <1>3, <1>4, <1>5, <1>6 DEF IInv

LEMMA NextInv == IInv /\ [Next]_vars => IInv'
<1> SUFFICES ASSUME IInv, [Next]_vars PROVE IInv'
    OBVIOUS
<1>1. CASE UNCHANGED vars
    <2>1. CloseInv'
        BY <1>1 DEF vars, IInv, CloseInv, Active
    <2> QED
        BY <1>1, <2>1, PhaseKeeps DEF vars, dispatcherVars, platform, IInv, TypeOK
<1>2. ASSUME NEW o \in OrderId, PlaceOrder(o) PROVE IInv'
    BY <1>2, PlaceOrderStep
<1>3. ASSUME NEW o \in OrderId, NEW t \in Statuses, NEW a \in Others, MoveOrder(o, t, a) PROVE IInv'
    BY <1>3, MoveOrderStep
<1>4. ASSUME NEW o \in OrderId, Cook(o) PROVE IInv'
    BY <1>4, CancelledStep, SendPatchStep, AdvancedStep, RejectedStep, FlakedStep, RetryStep DEF Cook
<1>5. ASSUME NEW e \in Event, Notify(e) \/ EndDelivery(e) \/ LoseWebhook(e) PROVE IInv'
    BY <1>5, NotifyStep, EndDeliveryStep, LoseWebhookStep
<1>6. ASSUME NEW e \in Event, ReceiveWebhook(e) \/ StartCooking(e) PROVE IInv'
    BY <1>6, ReceiveWebhookStep, StartCookingStep
<1>7. ASSUME NEW p \in patches, HandlePatch(p) PROVE IInv'
    BY <1>7, HandlePatchStep
<1>8. CASE PlatformExit
    BY <1>8, PlatformExitStep
<1>9. CASE Stop \/ ShutDown \/ Close
    BY <1>9, StopStep, ShutDownStep, CloseStep
<1> QED
    BY <1>1, <1>2, <1>3, <1>4, <1>5, <1>6, <1>7, <1>8, <1>9 DEF Next

\* The invariant holds in every state the platform and the kitchen reach together.
THEOREM Invariant == Spec => []IInv
    BY InitInv, NextInv, PTL DEF Spec

\* Every variable has its type: attempts stay within statusUpdateAttempts and steps within the
\* three the kitchen makes.
THEOREM TypeCorrect == Spec => []TypeOK
<1>1. IInv => TypeOK
    BY DEF IInv
<1> QED
    BY <1>1, Invariant, PTL

\* The dispatcher's slots are those of its running deliveries, and never more than MaxInFlight,
\* through timeouts, losses and restarts of the platform.
THEOREM Slots == Spec => []SlotsMatchDeliveries
<1>1. IInv => SlotsMatchDeliveries
    BY DEF IInv, SlotInv, SlotsMatchDeliveries
<1> QED
    BY <1>1, Invariant, PTL

\* ListEvents returns the latest events, oldest first, for any size of the ring.
THEOREM LatestEvents == Spec => []EventsAreLatest
<1>1. IInv => EventsAreLatest
    BY DEF IInv
<1> QED
    BY <1>1, Invariant, PTL

\* A step the kitchen takes for done was committed by the platform, whatever became of the requests.
THEOREM Acknowledged == Spec => []AcknowledgedIsCommitted
<1>1. IInv => AcknowledgedIsCommitted
    BY TheSteps DEF IInv, OrderInv, Informed, Committed, AcknowledgedIsCommitted
<1> QED
    BY <1>1, Invariant, PTL

\* errPermanent is permanent: whatever became of the PATCH requests, the one that stopped a kitchen for
\* good would be refused in every later state of the platform, for the key or for the transition.
THEOREM RejectedForGood == Spec => []RepeatingChangesNothing
<1>1. IInv => RepeatingChangesNothing
    BY DEF IInv, OrderInv, Informed, Accepts, Authorised, Current, status, RepeatingChangesNothing
<1> QED
    BY <1>1, Invariant, PTL

\* After an orderly shutdown nothing of the kitchen runs on.
THEOREM ClosedIdle == Spec => []ClosedMeansIdle
<1>1. IInv => ClosedMeansIdle
    BY DEF IInv, CloseInv, ClosedMeansIdle
<1> QED
    BY <1>1, Invariant, PTL

-----------------------------------------------------------------------------
(***************************************************************************)
(* The ledger.                                                             *)
(***************************************************************************)

Trail(h) == [i \in DOMAIN h |-> h[i].to]

\* The mapping of one more change is one more status.
LEMMA TrailGrows ==
    ASSUME NEW h \in Seq(StatusChange), NEW x \in StatusChange
    PROVE  Trail(Append(h, x)) = Append(Trail(h), x.to)
<1>1. /\ Append(h, x) \in Seq(StatusChange) /\ Len(Append(h, x)) = Len(h) + 1
      /\ \A i \in 1 .. Len(h) : Append(h, x)[i] = h[i]
      /\ Append(h, x)[Len(h) + 1] = x
    BY AppendProperties
<1>2. ASSUME NEW g \in Seq(StatusChange)
      PROVE  /\ Trail(g) \in Seq(Statuses) /\ Len(Trail(g)) = Len(g)
             /\ \A i \in 1 .. Len(g) : Trail(g)[i] = g[i].to
    <2>1. DOMAIN g = 1 .. Len(g) /\ Len(g) \in Nat /\ \A i \in 1 .. Len(g) : g[i].to \in Statuses
        <3>1. \A c \in StatusChange : c.to \in Statuses
            BY DEF StatusChange
        <3> QED
            BY <3>1
    <2>2. Trail(g) = [i \in 1 .. Len(g) |-> g[i].to]
        BY <2>1 DEF Trail
    <2>3. Trail(g) \in Seq(Statuses)
        BY <2>1, <2>2
    <2> QED
        BY <2>1, <2>2, <2>3
<1>3. /\ Append(Trail(h), x.to) \in Seq(Statuses) /\ Len(Append(Trail(h), x.to)) = Len(h) + 1
      /\ \A i \in 1 .. Len(h) : Append(Trail(h), x.to)[i] = h[i].to
      /\ Append(Trail(h), x.to)[Len(h) + 1] = x.to
    <2>1. x.to \in Statuses
        BY DEF StatusChange
    <2> QED
        BY <1>2, <2>1, AppendProperties
<1> DEFINE a == Trail(Append(h, x))
           b == Append(Trail(h), x.to)
<1>4. a \in Seq(Statuses) /\ Len(a) = Len(h) + 1
    BY <1>1, <1>2
<1>5. \A i \in 1 .. Len(h) + 1 : a[i] = b[i]
    <2> TAKE i \in 1 .. Len(h) + 1
    <2>1. a[i] = Append(h, x)[i].to
        BY <1>1, <1>2
    <2> HIDE DEF a, b
    <2>2. CASE i = Len(h) + 1
        BY <1>1, <1>3, <2>1, <2>2 DEF b
    <2>3. CASE i \in 1 .. Len(h)
        BY <1>1, <1>3, <2>1, <2>3 DEF b
    <2> QED
        BY <2>2, <2>3
<1> HIDE DEF a, b
<1> QED
    BY <1>3, <1>4, <1>5, SeqEqual DEF a, b

\* The variables of the ledger.
Trails == [o \in OrderId |-> [i \in DOMAIN history[o] |-> history[o][i].to]]

Announced == {e \in Event : sender[e] \in {"running", "ended"}}

LEMMA TrailsHold ==
    ASSUME TypeOK, NEW o \in OrderId
    PROVE  /\ Trails[o] = Trail(history[o]) /\ DOMAIN Trails[o] = DOMAIN history[o]
           /\ \A i \in DOMAIN history[o] : Trails[o][i] = history[o][i].to
           /\ Len(Trails[o]) = Len(history[o]) /\ Len(history[o]) \in Nat
           /\ Trails[o] = <<>> <=> history[o] = <<>>
<1>1. history[o] \in Seq(StatusChange)
    BY Types
<1>2. DOMAIN history[o] = 1 .. Len(history[o]) /\ Len(history[o]) \in Nat
    BY <1>1
<1>3. Trails[o] = [i \in 1 .. Len(history[o]) |-> history[o][i].to] /\ Trails[o] = Trail(history[o])
    BY <1>2 DEF Trails, Trail
<1>4. Len(Trails[o]) = Len(history[o])
    BY <1>2, <1>3
<1>5. history[o] = <<>> <=> Len(history[o]) = 0
    BY <1>1
<1>6. Trails[o] = <<>> <=> Len(history[o]) = 0
    <2>1. \A c \in StatusChange : c.to \in Statuses
        BY DEF StatusChange
    <2>2. Trails[o] \in Seq(Statuses)
        BY <1>1, <1>2, <1>3, <2>1
    <2> QED
        BY <1>4, <2>2
<1> QED
    BY <1>2, <1>3, <1>4, <1>5, <1>6

LEMMA TrailsGrow ==
    ASSUME TypeOK, NEW o \in OrderId, NEW t \in Statuses, NEW by \in {"customer", "staff", "kitchen"},
           Change(o, t, by)
    PROVE  Trails' = [Trails EXCEPT ![o] = Append(Trails[o], t)]
<1> DEFINE x == [to |-> t, by |-> by]
<1>1. x \in StatusChange /\ x.to = t
    BY DEF StatusChange
<1>2. history \in [OrderId -> Seq(StatusChange)]
    BY Types
<1>3. history' = [history EXCEPT ![o] = Append(history[o], x)]
    BY DEF Change
<1> HIDE DEF x
<1>4. history'[o] = Append(history[o], x) /\ \A p \in OrderId \ {o} : history'[p] = history[p]
    BY <1>2, <1>3
<1>5. Trails = [p \in OrderId |-> Trail(history[p])] /\ Trails' = [p \in OrderId |-> Trail(history'[p])]
    BY DEF Trails, Trail
<1>6. Trail(history'[o]) = Append(Trail(history[o]), t)
    BY <1>1, <1>2, <1>4, TrailGrows
<1> HIDE DEF Trails, Trail
<1> QED
    BY <1>4, <1>5, <1>6

\* A legal change of an order is the ledger's, with the webhooks accepted so far.
LEMMA ChangeIsLedgers ==
    ASSUME IInv, NEW o \in OrderId, NEW t \in Statuses, NEW by \in {"customer", "staff", "kitchen"},
           Change(o, t, by), MayFollow(history[o], t), UNCHANGED sender
    PROVE  Ledger!Place(o) \/ Ledger!Move(o, t)
<1>1. Trails' = [Trails EXCEPT ![o] = Append(Trails[o], t)] /\ Announced' = Announced
    BY TrailsGrow DEF IInv, Announced
<1>2. Ledger!Record(o, t)
    BY <1>1 DEF Ledger!Record, Trails, Announced
<1>3. CASE history[o] = <<>>
    <2>1. t = "created" /\ Trails[o] = <<>>
        BY <1>3, TrailsHold DEF MayFollow, IInv
    <2> QED
        BY <1>2, <2>1 DEF Ledger!Place, Trails
<1>4. CASE history[o] # <<>>
    <2>1. PICK a \in Actors : Legal(a, Current(history[o]), t)
        BY <1>4 DEF MayFollow
    <2>2. Trails[o] # <<>> /\ Trails[o][Len(Trails[o])] = Current(history[o])
        <3>1. history[o] \in Seq(StatusChange) /\ Len(history[o]) \in DOMAIN history[o]
            BY <1>4, Types DEF IInv
        <3> QED
            BY <1>4, <3>1, TrailsHold DEF IInv, Current
    <2>3. a \in Ledger!Actors /\ Ledger!Legal(a, Trails[o][Len(Trails[o])], t)
        <3>1. Actors = Ledger!Actors
            BY DEF Actors, Ledger!Actors
        <3>2. \A s : CanBeCancelledBy(s, a) <=> Ledger!CanBeCancelledBy(s, a)
            BY DEF CanBeCancelledBy, Ledger!CanBeCancelledBy, cancellableBy, Ledger!cancellableBy
        <3>3. \A s : CanTransitionTo(s, t) <=> Ledger!CanTransitionTo(s, t)
            BY DEF CanTransitionTo, Ledger!CanTransitionTo, forwardTransitions,
                   Ledger!forwardTransitions
        <3> QED
            BY <2>1, <2>2, <3>1, <3>2, <3>3 DEF Legal, Ledger!Legal
    <2> QED
        BY <1>2, <2>2, <2>3 DEF Ledger!Move, Trails
<1> QED
    BY <1>3, <1>4

LEMMA LedgerInit == Init => Ledger!Init
<1> SUFFICES ASSUME Init PROVE Ledger!Init
    OBVIOUS
<1>1. \A o \in OrderId : history[o] = <<>>
    BY DEF Init
<1>2. Trails = [o \in OrderId |-> <<>>]
    BY <1>1 DEF Trails
<1>3. Announced = {}
    BY DEF Init, DispatcherInit, Announced
<1> QED
    BY <1>2, <1>3 DEF Ledger!Init, Trails, Announced

\* A step of the platform adds a change, has a webhook accepted, or stutters; the partner's stutter.
LEMMA LedgerNext == IInv /\ [Next]_vars => [Ledger!Next]_Ledger!vars
<1> SUFFICES ASSUME IInv, [Next]_vars PROVE [Ledger!Next]_Ledger!vars
    OBVIOUS
<1>1. ASSUME UNCHANGED history, Announced' = Announced PROVE [Ledger!Next]_Ledger!vars
    BY <1>1 DEF Ledger!vars, Announced
<1>2. ASSUME NEW o \in OrderId, NEW t \in Statuses, NEW by \in {"customer", "staff", "kitchen"},
             Change(o, t, by), MayFollow(history[o], t), UNCHANGED sender
      PROVE  [Ledger!Next]_Ledger!vars
    <2>1. Ledger!Place(o) \/ Ledger!Move(o, t)
        BY <1>2, ChangeIsLedgers
    <2>2. t \in Ledger!Statuses
        BY DEF Statuses, Ledger!Statuses
    <2> QED
        BY <2>1, <2>2 DEF Ledger!Next
<1>3. ASSUME NEW o \in OrderId, PlaceOrder(o) PROVE [Ledger!Next]_Ledger!vars
    BY <1>2, <1>3 DEF PlaceOrder, MayFollow, Statuses, dispatcherVars
<1>4. ASSUME NEW o \in OrderId, NEW t \in Statuses, NEW a \in Others, MoveOrder(o, t, a)
      PROVE  [Ledger!Next]_Ledger!vars
    <2>1. MayFollow(history[o], t)
        BY <1>4, KitchenAssumption DEF MoveOrder, MayFollow, status, Current
    <2> QED
        BY <1>2, <1>4, <2>1 DEF MoveOrder, dispatcherVars
<1>5. ASSUME NEW p \in patches, HandlePatch(p) PROVE [Ledger!Next]_Ledger!vars
    <2>1. p.order \in OrderId /\ p.to \in Statuses /\ history[p.order] # <<>> /\ UNCHANGED sender
        BY <1>5, Types DEF IInv, HandlePatch, dispatcherVars
    <2>2. CASE UNCHANGED platform
        BY <1>1, <2>1, <2>2 DEF platform, Announced
    <2>3. CASE Accepts(p) /\ Change(p.order, p.to, "kitchen")
        <3>1. MayFollow(history[p.order], p.to)
            BY <2>1, <2>3 DEF MayFollow, Legal, Actors, Accepts, status, Current
        <3> QED
            BY <1>2, <2>1, <2>3, <3>1
    <2> QED
        BY <1>5, <2>2, <2>3 DEF HandlePatch
<1>6. ASSUME NEW e \in Event, Notify(e) PROVE [Ledger!Next]_Ledger!vars
    <2>1. /\ sender[e] = "none" /\ UNCHANGED history
          /\ \/ sender' = [sender EXCEPT ![e] = "running"]
             \/ \E s \in {"skipped", "dropped"} : sender' = [sender EXCEPT ![e] = s]
          /\ sender \in [Event -> {"none", "skipped", "dropped", "running", "ended"}]
        BY <1>6 DEF Notify, Dispatch, IInv, TypeOK
    <2>2. CASE \E s \in {"skipped", "dropped"} : sender' = [sender EXCEPT ![e] = s]
        <3>1. Announced' = Announced
            BY <2>1, <2>2 DEF Announced
        <3> QED
            BY <1>1, <2>1, <3>1
    <2>3. CASE sender' = [sender EXCEPT ![e] = "running"]
        <3>1. Announced' = Announced \cup {e}
            BY <2>1, <2>3 DEF Announced
        <3>2. /\ e.order \in OrderId /\ e.status \in Statuses
              /\ e = [order |-> e.order, status |-> e.status]
            BY KitchenAssumption
        <3>3. Committed(history[e.order], e.status)
            BY <1>6 DEF IInv, EventInv, Notify
        <3>4. e.status \in {Trails[e.order][i] : i \in DOMAIN Trails[e.order]}
            BY <3>2, <3>3, TrailsHold DEF Committed, IInv
        <3>5. Trails' = Trails
            BY <2>1 DEF Trails
        <3>6. Ledger!Announce(e.order, e.status)
            BY <3>1, <3>2, <3>4, <3>5 DEF Ledger!Announce, Trails, Announced
        <3>7. e.status \in Ledger!Statuses
            BY <3>2 DEF Statuses, Ledger!Statuses
        <3> QED
            BY <3>2, <3>6, <3>7 DEF Ledger!Next
    <2> QED
        BY <2>1, <2>2, <2>3
<1>7. ASSUME NEW e \in Event, EndDelivery(e) PROVE [Ledger!Next]_Ledger!vars
    <2>1. Announced' = Announced
        BY <1>7 DEF EndDelivery, Finish, Announced, IInv, TypeOK
    <2> QED
        BY <1>1, <1>7, <2>1 DEF EndDelivery, platform
<1>8. CASE PlatformExit
    <2>1. Announced' = Announced
        BY <1>8 DEF PlatformExit, Exit, Announced
    <2> QED
        BY <1>1, <1>8, <2>1 DEF PlatformExit
<1>9. ASSUME UNCHANGED <<history, sender>> PROVE [Ledger!Next]_Ledger!vars
    BY <1>1, <1>9 DEF Announced
<1>10. ASSUME NEW e \in Event, LoseWebhook(e) \/ ReceiveWebhook(e) \/ StartCooking(e)
       PROVE  UNCHANGED <<history, sender>>
    BY <1>10 DEF LoseWebhook, Lose, ReceiveWebhook, Reach, StartCooking, platform, dispatcherVars
<1>11. ASSUME NEW o \in OrderId, Cook(o) PROVE UNCHANGED <<history, sender>>
    BY <1>11 DEF Cook, Cancelled, SendPatch, Advanced, Rejected, Flaked, Retry, platform, dispatcherVars
<1>12. ASSUME Stop \/ ShutDown \/ Close PROVE UNCHANGED <<history, sender>>
    BY <1>12 DEF Stop, ShutDown, Close, platform, dispatcherVars
<1>13. CASE UNCHANGED vars
    BY <1>9, <1>13 DEF vars
<1> QED
    BY <1>3, <1>4, <1>5, <1>6, <1>7, <1>8, <1>9, <1>10, <1>11, <1>12, <1>13 DEF Next

\* The platform the kitchen works with, late requests and restarts included, implements the ledger
\* that OrderService implements.
THEOREM LedgerImplemented == Spec => ImplementsLedger
    BY LedgerInit, LedgerNext, Invariant, PTL DEF Spec, ImplementsLedger, Ledger!Spec
=============================================================================
