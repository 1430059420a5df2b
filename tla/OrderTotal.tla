------------------------------ MODULE OrderTotal -----------------------------
(***************************************************************************)
(* The total of an order: CreateOrder (internal/service/order_service.go)  *)
(* adds PriceCents * quantity over the locked dishes in Go's int64, which  *)
(* wraps around, and the only guard on the result is the CHECK of the      *)
(* column it is stored in.  No validator bounds a price from above, and a  *)
(* quantity only by the stock.                                             *)
(***************************************************************************)
EXTENDS Integers, Sequences

CONSTANTS
    Half,           \* the integers are -Half .. Half - 1; 2 ^ 63 in the code
    MaxQuantity,    \* the largest quantity a basket may ask of a dish
    MaxDishes       \* the most dishes in one basket

ASSUME TotalAssumption ==
    /\ Half \in Nat \ {0} /\ MaxQuantity \in Nat \ {0} /\ MaxDishes \in Nat \ {0}

VARIABLES
    basket,         \* the locked dishes, in the order of the loop
    added,          \* how many of them have been added
    total,          \* totalPriceCents
    outcome

vars == <<basket, added, total, outcome>>

Price == 0 .. Half - 1
Line == [price: Price, quantity: 1 .. MaxQuantity]

\* Two's complement.
Wrap(n) == ((n + Half) % (2 * Half)) - Half

Init ==
    /\ basket \in UNION {[1 .. n -> Line] : n \in 1 .. MaxDishes}
    /\ added = 0
    /\ total = 0
    /\ outcome = "adding"

Plus(t, line) == Wrap(t + Wrap(line.price * line.quantity))

AddLine ==
    /\ outcome = "adding" /\ added < Len(basket)
    /\ added' = added + 1
    /\ total' = Plus(total, basket[added + 1])
    /\ UNCHANGED <<basket, outcome>>

\* Slip: the column has no CHECK.
FitsAnything(t) == TRUE

\* Slip: the CHECK is strict.
FitsPositive(t) == t > 0

\* CHECK (total_price_cents >= 0)
Fits(t) == t >= 0

\* The CHECK's refusal is a 400 (mapPgError) and rolls the checkout back.
Persist ==
    /\ outcome = "adding" /\ added = Len(basket)
    /\ outcome' = IF Fits(total) THEN "stored" ELSE "refused"
    /\ UNCHANGED <<basket, added, total>>

Next == AddLine \/ Persist

Spec == Init /\ [][Next]_vars

-----------------------------------------------------------------------------
\* The sum of the first n of the numbers a[1] .. a[N], for each n.
Sums(a, N) ==
    LET s[n \in 0 .. N] == IF n = 0 THEN 0 ELSE s[n - 1] + a[n]
    IN  s

Amounts == [i \in DOMAIN basket |-> basket[i].price * basket[i].quantity]

Quantities == [i \in DOMAIN basket |-> basket[i].quantity]

Exact == Sums(Amounts, Len(basket))[Len(basket)]

Portions == Sums(Quantities, Len(basket))[Len(basket)]

\* An order of at most two portions, of one dish or of two, is stored with the true sum or refused:
\* the overflow that mapPgError names ("a dish priced near the top of int64 with two of it in the
\* basket overflows the total and breaks CHECK") is always caught.
TwoPortionsExact == outcome = "stored" /\ Portions <= 2 => total = Exact

\* A basket whose true sum fits is never refused, whatever the sum passed through.
FittingIsStored == outcome = "refused" => Exact >= Half

\* The reading of the same comment that every overflow breaks the CHECK: what is stored is the sum.
StoredTotalIsExact == outcome = "stored" => total = Exact
=============================================================================
