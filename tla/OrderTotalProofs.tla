-------------------------- MODULE OrderTotalProofs --------------------------
(***************************************************************************)
(* Proofs about the total of an order for integers of any width and        *)
(* baskets of any length.                                                  *)
(*                                                                         *)
(* Wrapping round adds a multiple of 2 * Half, so the total is always the  *)
(* true sum but for such a multiple.  The true sum is never negative; as   *)
(* long as it is less than 2 * Half the total is either the sum or         *)
(* negative, and only a sum beyond that can be mistaken for a smaller one. *)
(***************************************************************************)
EXTENDS OrderTotal, WellFoundedInduction, TLAPS

Span == 2 * Half

\* m and n differ by a multiple of Span.
Congruent(m, n) == \E k \in Int : m = n + k * Span

-----------------------------------------------------------------------------
(***************************************************************************)
(* Arithmetic.                                                             *)
(***************************************************************************)

LEMMA SpanType == Half \in Nat /\ Half > 0 /\ Span \in Nat /\ Span > 0
    BY TotalAssumption DEF Span

LEMMA Division ==
    ASSUME NEW n \in Int, NEW m \in Nat \ {0}
    PROVE  n \div m \in Int /\ n % m \in 0 .. m - 1 /\ n = m * (n \div m) + (n % m)
    OBVIOUS

LEMMA WrapFits ==
    ASSUME NEW n \in Int
    PROVE  /\ Wrap(n) \in Int /\ -Half <= Wrap(n) /\ Wrap(n) < Half
           /\ Congruent(Wrap(n), n)
<1> DEFINE x == n + Half
           q == x \div Span
           r == x % Span
<1>1. x \in Int /\ Span \in Nat \ {0} /\ Half \in Nat
    BY SpanType
<1>2. q \in Int /\ r \in 0 .. Span - 1 /\ x = Span * q + r
    <2> HIDE DEF x
    <2> QED
        BY <1>1, Division
<1>3. Wrap(n) = r - Half
    BY DEF Wrap, Span
<1> HIDE DEF q, r
<1>4. r - Half = n + (-q) * Span
    <2>1. q * Span \in Int /\ Span * q = q * Span /\ (-q) * Span = -(q * Span)
        BY <1>1, <1>2
    <2> QED
        BY <1>1, <1>2, <2>1
<1>5. -q \in Int
    BY <1>2
<1> QED
    BY <1>1, <1>2, <1>3, <1>4, <1>5 DEF Congruent, Span

\* Congruent numbers remain so when congruent numbers are added.
LEMMA CongruentSums ==
    ASSUME NEW a \in Int, NEW b \in Int, NEW c \in Int, NEW d \in Int,
           Congruent(a, b), Congruent(c, d)
    PROVE  Congruent(a + c, b + d)
<1>1. PICK k \in Int, l \in Int : a = b + k * Span /\ c = d + l * Span
    BY DEF Congruent
<1>2. k + l \in Int /\ k * Span \in Int /\ l * Span \in Int /\ (k + l) * Span = k * Span + l * Span
    BY SpanType
<1> QED
    BY <1>1, <1>2 DEF Congruent

LEMMA CongruentTwice ==
    ASSUME NEW a \in Int, NEW b \in Int, NEW c \in Int, Congruent(a, b), Congruent(b, c)
    PROVE  Congruent(a, c)
<1>1. PICK k \in Int, l \in Int : a = b + k * Span /\ b = c + l * Span
    BY DEF Congruent
<1>2. k + l \in Int /\ k * Span \in Int /\ l * Span \in Int /\ (k + l) * Span = k * Span + l * Span
    BY SpanType
<1> QED
    BY <1>1, <1>2 DEF Congruent

\* A sum that is less than Span is either kept or turns negative.
LEMMA OneWrap ==
    ASSUME NEW t \in Int, NEW n \in Nat, -Half <= t, t < Half, Congruent(t, n)
    PROVE  /\ n < Half => t = n
           /\ n < Span /\ n >= Half => t < 0
<1>1. PICK k \in Int : t = n + k * Span
    BY DEF Congruent
<1>2. Half \in Nat /\ Half > 0 /\ Span = 2 * Half /\ Span \in Nat /\ k * Span \in Int
    BY SpanType DEF Span
<1>3. CASE k = 0
    <2>1. k * Span = 0
        BY <1>2, <1>3
    <2> QED
        BY <1>1, <1>2, <2>1
<1>4. CASE k >= 1
    <2>1. k * Span >= Span
        BY <1>2, <1>4
    <2> QED
        BY <1>1, <1>2, <2>1
<1>5. CASE k <= -1
    <2>1. k * Span <= -Span
        <3>1. -k >= 1 /\ -k \in Int
            BY <1>5
        <3>2. (-k) * Span >= Span
            BY <1>2, <3>1
        <3>3. (-k) * Span = -(k * Span)
            BY <1>2
        <3> QED
            BY <1>2, <3>2, <3>3
    <2> QED
        BY <1>1, <1>2, <2>1
<1> QED
    BY <1>3, <1>4, <1>5

-----------------------------------------------------------------------------
(***************************************************************************)
(* Sums.                                                                   *)
(***************************************************************************)

\* g has the sums of a[1] .. a[n], a[1] .. a[n - 1] and so on.
Adds(g, a, n) == g \in [0 .. n -> Nat] /\ g[0] = 0 /\ \A k \in 1 .. n : g[k] = g[k - 1] + a[k]

LEMMA SumsThere ==
    ASSUME NEW N \in Nat, NEW a \in [1 .. N -> Nat]
    PROVE  \E g : Adds(g, a, N)
<1> DEFINE missing == {n \in 0 .. N : ~\E g : Adds(g, a, n)}
<1>1. ASSUME missing # {} PROVE FALSE
    <2>1. missing \in SUBSET Nat
        OBVIOUS
    <2>2. PICK n \in missing : \A m \in missing : ~(m < n)
        <3>1. \E n \in missing : \A m \in missing : <<m, n>> \notin OpToRel(<, Nat)
            <4> HIDE DEF missing
            <4> QED
                BY <1>1, <2>1, WFMin, NatLessThanWellFounded
        <3> QED
            BY <2>1, <3>1 DEF OpToRel
    <2>3. n \in 0 .. N /\ n # 0
        <3>1. Adds([i \in 0 .. 0 |-> 0], a, 0)
            BY DEF Adds
        <3> QED
            BY <3>1
    <2>4. n - 1 \in 0 .. N /\ n - 1 < n
        BY <2>3
    <2>5. PICK g : Adds(g, a, n - 1)
        BY <2>2, <2>4
    <2> DEFINE h == [i \in 0 .. n |-> IF i = n THEN g[n - 1] + a[n] ELSE g[i]]
    <2>6. /\ g \in [0 .. n - 1 -> Nat] /\ g[0] = 0
          /\ \A k \in 1 .. n - 1 : g[k] = g[k - 1] + a[k]
        BY <2>5 DEF Adds
    <2>7. a[n] \in Nat /\ g[n - 1] \in Nat
        BY <2>3, <2>6
    <2>8. h \in [0 .. n -> Nat] /\ h[0] = 0
        BY <2>3, <2>6, <2>7
    <2>9. ASSUME NEW k \in 1 .. n PROVE h[k] = h[k - 1] + a[k]
        <3>1. CASE k = n
            BY <2>3, <3>1
        <3>2. CASE k # n
            BY <2>3, <2>6, <3>2
        <3> QED
            BY <3>1, <3>2
    <2> HIDE DEF h
    <2>10. Adds(h, a, n)
        BY <2>8, <2>9 DEF Adds
    <2> QED
        BY <2>10
<1>2. N \in 0 .. N
    OBVIOUS
<1> QED
    BY <1>1, <1>2

LEMMA SumsAdd ==
    ASSUME NEW N \in Nat, NEW a \in [1 .. N -> Nat]
    PROVE  Adds(Sums(a, N), a, N)
<1>1. PICK g : Adds(g, a, N)
    BY SumsThere
<1>2. g = [n \in 0 .. N |-> IF n = 0 THEN 0 ELSE g[n - 1] + a[n]]
    BY <1>1 DEF Adds
<1>3. \E s : s = [n \in 0 .. N |-> IF n = 0 THEN 0 ELSE s[n - 1] + a[n]]
    BY <1>2
<1> DEFINE s == Sums(a, N)
<1>4. s = [n \in 0 .. N |-> IF n = 0 THEN 0 ELSE s[n - 1] + a[n]]
    BY <1>3, Zenon DEF Sums
<1> HIDE DEF s
<1>5. s[0] = 0 /\ \A k \in 1 .. N : s[k] = s[k - 1] + a[k]
    BY <1>4
<1>6. \A n \in 0 .. N : s[n] \in Nat
    <2> DEFINE wrong == {n \in 0 .. N : s[n] \notin Nat}
    <2>1. ASSUME wrong # {} PROVE FALSE
        <3>1. wrong \in SUBSET Nat
            OBVIOUS
        <3>2. PICK n \in wrong : \A m \in wrong : ~(m < n)
            <4>1. \E n \in wrong : \A m \in wrong : <<m, n>> \notin OpToRel(<, Nat)
                <5> HIDE DEF wrong
                <5> QED
                    BY <2>1, <3>1, WFMin, NatLessThanWellFounded
            <4> QED
                BY <3>1, <4>1 DEF OpToRel
        <3>3. n \in 1 .. N
            BY <1>5
        <3>4. n - 1 \in 0 .. N /\ n - 1 < n
            BY <3>3
        <3>5. s[n - 1] \in Nat /\ a[n] \in Nat
            BY <3>2, <3>3, <3>4
        <3> QED
            BY <1>5, <3>3, <3>5
    <2> QED
        BY <2>1
<1> QED
    BY <1>4, <1>5, <1>6 DEF Adds, s

-----------------------------------------------------------------------------
(***************************************************************************)
(* The loop.                                                               *)
(***************************************************************************)

Basketful == basket \in UNION {[1 .. n -> Line] : n \in 1 .. MaxDishes}

SoFar == Sums(Amounts, Len(basket))[added]

PortionsSoFar == Sums(Quantities, Len(basket))[added]

\* The total is what the loop has added but for a multiple of Span, and a portion costs less than Half.
TotalInv ==
    /\ Basketful
    /\ added \in 0 .. Len(basket)
    /\ total \in Int /\ -Half <= total /\ total < Half
    /\ Congruent(total, SoFar)
    /\ SoFar <= PortionsSoFar * (Half - 1)
    /\ outcome # "adding" => added = Len(basket)
    /\ outcome = "stored" => total >= 0
    /\ outcome = "refused" => total < 0

LEMMA Lines ==
    ASSUME Basketful
    PROVE  /\ Len(basket) \in Nat /\ DOMAIN basket = 1 .. Len(basket)
           /\ \A i \in 1 .. Len(basket) :
                  /\ basket[i].price \in Nat /\ basket[i].price <= Half - 1
                  /\ basket[i].quantity \in Nat
                  /\ basket[i].price * basket[i].quantity \in Nat
<1>1. PICK n \in 1 .. MaxDishes : basket \in [1 .. n -> Line]
    BY DEF Basketful
<1>2. n \in Nat /\ Len(basket) = n /\ DOMAIN basket = 1 .. n
    BY <1>1, TotalAssumption
<1>3. ASSUME NEW i \in 1 .. n
      PROVE  /\ basket[i].price \in Nat /\ basket[i].price <= Half - 1
             /\ basket[i].quantity \in Nat
    <2>1. basket[i].price \in 0 .. Half - 1 /\ basket[i].quantity \in 1 .. MaxQuantity
        BY <1>1 DEF Line, Price
    <2>2. Half \in Nat /\ MaxQuantity \in Nat
        BY TotalAssumption
    <2> QED
        BY <2>1, <2>2
<1>4. \A p, q \in Nat : p * q \in Nat
    OBVIOUS
<1> QED
    BY <1>2, <1>3, <1>4

LEMMA Adding ==
    ASSUME Basketful
    PROVE  /\ Adds(Sums(Amounts, Len(basket)), Amounts, Len(basket))
           /\ Adds(Sums(Quantities, Len(basket)), Quantities, Len(basket))
<1>1. Amounts \in [1 .. Len(basket) -> Nat] /\ Quantities \in [1 .. Len(basket) -> Nat]
    BY Lines DEF Amounts, Quantities
<1> QED
    BY <1>1, Lines, SumsAdd

LEMMA InitTotal == Init => TotalInv
<1> SUFFICES ASSUME Init PROVE TotalInv
    OBVIOUS
<1>1. Basketful /\ added = 0 /\ total = 0 /\ outcome = "adding"
    BY DEF Init, Basketful
<1>2. SoFar = 0 /\ PortionsSoFar = 0 /\ added \in 0 .. Len(basket)
    BY <1>1, Adding, Lines DEF Adds, SoFar, PortionsSoFar
<1>3. Congruent(total, SoFar)
    <2>1. 0 = 0 + 0 * Span
        BY SpanType
    <2> QED
        BY <1>1, <1>2, <2>1 DEF Congruent
<1>4. SoFar <= PortionsSoFar * (Half - 1)
    BY <1>2, SpanType
<1> QED
    BY <1>1, <1>2, <1>3, <1>4, SpanType DEF TotalInv

LEMMA AddLineStep ==
    ASSUME TotalInv, AddLine
    PROVE  TotalInv'
<1>1. Basketful /\ outcome = "adding" /\ added < Len(basket) /\ added \in 0 .. Len(basket)
      /\ added' = added + 1 /\ basket' = basket /\ outcome' = outcome
      /\ total' = Plus(total, basket[added + 1])
    BY DEF TotalInv, AddLine
<1>2. PICK N \in Nat : N = Len(basket)
    BY <1>1, Lines
<1>3. PICK i \in 1 .. N : i = added + 1
    BY <1>1, <1>2
<1>4. PICK p \in Nat, q \in Nat : p = basket[i].price /\ q = basket[i].quantity /\ p <= Half - 1
    BY <1>1, <1>2, <1>3, Lines
<1>5. PICK a, b : a = Sums(Amounts, N) /\ b = Sums(Quantities, N)
    OBVIOUS
<1>6. /\ a \in [0 .. N -> Nat] /\ a[i] = a[i - 1] + p * q
      /\ b \in [0 .. N -> Nat] /\ b[i] = b[i - 1] + q
    <2>1. Amounts[i] = p * q /\ Quantities[i] = q
        BY <1>1, <1>2, <1>4, Lines DEF Amounts, Quantities
    <2>2. Adds(a, Amounts, N) /\ Adds(b, Quantities, N)
        BY <1>1, <1>2, <1>5, Adding
    <2> QED
        BY <2>1, <2>2 DEF Adds
<1>7. i - 1 = added /\ added \in 0 .. N
    BY <1>1, <1>2, <1>3
<1>8. PICK x \in Nat, y \in Nat : x = a[added] /\ y = b[added]
    BY <1>6, <1>7
<1>9. SoFar = x /\ PortionsSoFar = y
    BY <1>2, <1>5, <1>8 DEF SoFar, PortionsSoFar
<1>10. Amounts' = Amounts /\ Quantities' = Quantities
    BY <1>1 DEF Amounts, Quantities
<1>11. SoFar' = x + p * q /\ PortionsSoFar' = y + q
    <2>1. SoFar' = Sums(Amounts', Len(basket'))[added'] /\ PortionsSoFar' = Sums(Quantities', Len(basket'))[added']
        BY DEF SoFar, PortionsSoFar
    <2>2. SoFar' = a[i] /\ PortionsSoFar' = b[i]
        BY <1>1, <1>2, <1>3, <1>5, <1>10, <2>1
    <2> QED
        BY <1>6, <1>7, <1>8, <2>2
<1>12. p * q \in Nat
    OBVIOUS
<1>13. PICK w \in Int : w = Wrap(p * q)
    BY <1>12, WrapFits
<1>14. total' = Wrap(total + w) /\ total + w \in Int /\ total \in Int
    BY <1>1, <1>3, <1>4, <1>13 DEF Plus, TotalInv
<1>15. total' \in Int /\ -Half <= total' /\ total' < Half /\ Congruent(total', total + w)
    BY <1>14, WrapFits
<1>16. Congruent(total + w, x + p * q)
    <2>1. Congruent(total, x) /\ Congruent(w, p * q)
        BY <1>9, <1>12, <1>13, WrapFits DEF TotalInv
    <2> QED
        BY <1>12, <1>14, <2>1, CongruentSums
<1>17. Congruent(total', x + p * q)
    BY <1>12, <1>14, <1>15, <1>16, CongruentTwice
<1>18. x + p * q <= (y + q) * (Half - 1)
    <2>1. x <= y * (Half - 1)
        BY <1>9 DEF TotalInv
    <2>2. Half - 1 \in Nat
        BY SpanType
    <2>3. p * q <= (Half - 1) * q
        BY <1>4, <2>2
    <2>4. (y + q) * (Half - 1) = y * (Half - 1) + (Half - 1) * q /\ (Half - 1) * q \in Nat /\ y * (Half - 1) \in Nat
        BY <2>2
    <2> QED
        BY <1>12, <2>1, <2>3, <2>4
<1>19. Congruent(total, SoFar)'
    BY <1>11, <1>17 DEF Congruent
<1>20. SoFar' <= PortionsSoFar' * (Half - 1)
    BY <1>11, <1>18
<1>21. Basketful' /\ added' \in 0 .. Len(basket') /\ outcome' = "adding"
    BY <1>1, <1>2 DEF Basketful
<1> QED
    BY <1>15, <1>19, <1>20, <1>21 DEF TotalInv

LEMMA PersistStep ==
    ASSUME TotalInv, Persist
    PROVE  TotalInv'
<1>1. /\ outcome = "adding" /\ added = Len(basket) /\ UNCHANGED <<basket, added, total>>
      /\ outcome' = IF total >= 0 THEN "stored" ELSE "refused"
    BY DEF Persist, Fits
<1>2. SoFar' = SoFar /\ PortionsSoFar' = PortionsSoFar
    BY <1>1 DEF SoFar, PortionsSoFar, Amounts, Quantities
<1>3. Basketful' /\ Congruent(total, SoFar)'
    BY <1>1, <1>2 DEF TotalInv, Basketful, Congruent
<1>4. /\ total' \in Int /\ (outcome' = "stored" => total' >= 0) /\ (outcome' = "refused" => total' < 0)
      /\ -Half <= total' /\ total' < Half /\ added' \in 0 .. Len(basket') /\ added' = Len(basket')
    BY <1>1 DEF TotalInv
<1>5. SoFar' <= PortionsSoFar' * (Half - 1)
    BY <1>2 DEF TotalInv
<1> QED
    BY <1>3, <1>4, <1>5 DEF TotalInv

LEMMA NextTotal == TotalInv /\ [Next]_vars => TotalInv'
<1> SUFFICES ASSUME TotalInv, [Next]_vars PROVE TotalInv'
    OBVIOUS
<1>1. CASE UNCHANGED vars
    BY <1>1 DEF vars, TotalInv, Basketful, Congruent, SoFar, PortionsSoFar, Amounts, Quantities
<1>2. CASE Next
    BY <1>2, AddLineStep, PersistStep DEF Next
<1> QED
    BY <1>1, <1>2

\* The inductive invariant of the loop in CreateOrder (order_service.go) and of the CHECK behind it.
THEOREM TotalInvariant == Spec => []TotalInv
    BY InitTotal, NextTotal, PTL DEF Spec

\* What the loop ends with.
LEMMA Ended ==
    ASSUME TotalInv, outcome # "adding"
    PROVE  /\ Exact \in Nat /\ Portions \in Nat /\ Exact <= Portions * (Half - 1)
           /\ Exact < Half => total = Exact
           /\ Exact < Span /\ Exact >= Half => total < 0
<1>1. added = Len(basket) /\ Basketful
    BY DEF TotalInv
<1>2. Exact = SoFar /\ Portions = PortionsSoFar
    BY <1>1 DEF Exact, Portions, SoFar, PortionsSoFar
<1>3. Exact \in Nat /\ Portions \in Nat
    BY <1>1, Lines, Adding DEF Adds, Exact, Portions
<1>4. PICK n \in Nat : n = Exact
    BY <1>3
<1>5. Congruent(total, n) /\ n <= Portions * (Half - 1) /\ total \in Int /\ -Half <= total /\ total < Half
    BY <1>2, <1>4 DEF TotalInv
<1>6. (n < Half => total = n) /\ (n < Span /\ n >= Half => total < 0)
    BY <1>5, OneWrap
<1> QED
    BY <1>3, <1>4, <1>5, <1>6

\* An order of at most two portions is stored with its true sum or refused, whatever its dishes cost:
\* for it the CHECK of total_price_cents catches every overflow (tx_manager.go mapPgError).
THEOREM TwoPortions == Spec => []TwoPortionsExact
<1>1. TotalInv => TwoPortionsExact
    <2> SUFFICES ASSUME TotalInv, outcome = "stored", Portions <= 2 PROVE total = Exact
        BY DEF TwoPortionsExact
    <2>1. /\ Exact \in Nat /\ Portions \in Nat /\ Exact <= Portions * (Half - 1)
          /\ Exact < Half => total = Exact
          /\ Exact < Span /\ Exact >= Half => total < 0
        BY Ended
    <2>2. total \in Int /\ total >= 0
        BY DEF TotalInv
    <2>3. Half \in Nat /\ Half > 0 /\ Span = 2 * Half
        BY SpanType DEF Span
    <2>4. Portions * (Half - 1) <= 2 * (Half - 1)
        BY <2>1, <2>3
    <2>5. Exact < Span
        BY <2>1, <2>3, <2>4
    <2> QED
        BY <2>1, <2>2, <2>3, <2>5
<1> QED
    BY <1>1, TotalInvariant, PTL

\* A basket whose true sum fits the column is never refused, whatever the sum passed through on the way
\* (order_service.go, CHECK (total_price_cents >= 0)).
THEOREM Fitting == Spec => []FittingIsStored
<1>1. TotalInv => FittingIsStored
    <2> SUFFICES ASSUME TotalInv, outcome = "refused" PROVE Exact >= Half
        BY DEF FittingIsStored
    <2>1. Exact \in Nat /\ (Exact < Half => total = Exact)
        BY Ended
    <2>2. total \in Int /\ total < 0 /\ Half \in Nat
        BY SpanType DEF TotalInv
    <2> QED
        BY <2>1, <2>2
<1> QED
    BY <1>1, TotalInvariant, PTL
=============================================================================
