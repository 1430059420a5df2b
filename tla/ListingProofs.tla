---------------------------- MODULE ListingProofs ---------------------------
(***************************************************************************)
(* What a client that pages through a changing list may miss, and what it  *)
(* may be shown twice, for lists and pages of any length.                  *)
(*                                                                         *)
(* The rank of a row is the number of rows before it.  A page is the rows  *)
(* of the ranks from its offset on, so a client misses the rows whose rank *)
(* has sunk below its offset unseen, and will be shown again those it saw  *)
(* whose rank has risen to its offset.  No change of the list moves more   *)
(* rows across the offset than it adds or removes.                         *)
(***************************************************************************)
EXTENDS Listing, FiniteSetTheorems, SequenceTheorems, TLAPS

\* first orders S strictly and completely.
IsOrder(S, first) ==
    \A x, y \in S :
        /\ x \notin first[x]
        /\ x # y => x \in first[y] \/ y \in first[x]
        /\ \A z \in S : x \in first[y] /\ y \in first[z] => x \in first[z]

SameOrder(S, first, second) == \A x, y \in S : x \in first[y] <=> x \in second[y]

Before(S, first, x) == S \cap first[x]

Rank(S, first, x) == Cardinality(Before(S, first, x))

-----------------------------------------------------------------------------
(***************************************************************************)
(* Ranks.                                                                  *)
(***************************************************************************)

LEMMA Subrows ==
    ASSUME NEW S \in SUBSET Row
    PROVE  IsFiniteSet(S) /\ Cardinality(S) \in Nat
    BY ListingAssumption, FS_Subset, FS_CardinalityType

LEMMA FewerRows ==
    ASSUME NEW S \in SUBSET Row, NEW T \in SUBSET S
    PROVE  Cardinality(T) <= Cardinality(S)
    BY Subrows, FS_Subset

LEMMA UnionRows ==
    ASSUME NEW S \in SUBSET Row, NEW T \in SUBSET Row
    PROVE  /\ Cardinality(S \cup T) = Cardinality(S) + Cardinality(T) - Cardinality(S \cap T)
           /\ Cardinality(S \cup T) <= Cardinality(S) + Cardinality(T)
           /\ S \cap T = {} => Cardinality(S \cup T) = Cardinality(S) + Cardinality(T)
<1>1. Cardinality(S \cup T) = Cardinality(S) + Cardinality(T) - Cardinality(S \cap T)
    BY Subrows, FS_Union
<1>2. /\ Cardinality(S) \in Nat /\ Cardinality(T) \in Nat /\ Cardinality(S \cap T) \in Nat
      /\ S \cap T = {} => Cardinality(S \cap T) = 0
    <2>1. S \cap T \in SUBSET Row
        OBVIOUS
    <2> QED
        BY <2>1, Subrows, FS_EmptySet
<1> QED
    BY <1>1, <1>2

LEMMA RankType ==
    ASSUME NEW S \in SUBSET Row, NEW first, NEW x
    PROVE  Rank(S, first, x) \in Nat
<1>1. Before(S, first, x) \in SUBSET Row
    BY DEF Before
<1> QED
    BY <1>1, Subrows DEF Rank

LEMMA RankRises ==
    ASSUME NEW S \in SUBSET Row, NEW first, IsOrder(S, first), NEW x \in S, NEW y \in S, x \in first[y]
    PROVE  Rank(S, first, x) < Rank(S, first, y)
<1> DEFINE A == Before(S, first, x)
           B == Before(S, first, y)
<1>1. A \subseteq B /\ x \in B /\ x \notin A /\ B \in SUBSET Row /\ A \in SUBSET B
    BY DEF IsOrder, Before
<1> HIDE DEF A, B
<1>2. Cardinality(A) <= Cardinality(B) /\ Cardinality(A) # Cardinality(B)
    BY <1>1, Subrows, FS_Subset
<1>3. Cardinality(A) \in Nat /\ Cardinality(B) \in Nat
    BY <1>1, Subrows
<1> QED
    BY <1>2, <1>3 DEF Rank, A, B

LEMMA RankOrders ==
    ASSUME NEW S \in SUBSET Row, NEW first, IsOrder(S, first), NEW x \in S, NEW y \in S
    PROVE  /\ Rank(S, first, x) = Rank(S, first, y) => x = y
           /\ Rank(S, first, x) < Rank(S, first, y) <=> x \in first[y]
<1>1. x # y => x \in first[y] \/ y \in first[x]
    BY DEF IsOrder
<1>2. Rank(S, first, x) \in Nat /\ Rank(S, first, y) \in Nat
    BY RankType
<1>3. x \in first[y] => Rank(S, first, x) < Rank(S, first, y)
    BY RankRises
<1>4. y \in first[x] => Rank(S, first, y) < Rank(S, first, x)
    BY RankRises
<1> QED
    BY <1>1, <1>2, <1>3, <1>4

LEMMA SuborderOf ==
    ASSUME NEW S, NEW first, IsOrder(S, first), NEW K \in SUBSET S
    PROVE  IsOrder(K, first)
    BY DEF IsOrder

LEMMA SameRanks ==
    ASSUME NEW K, NEW first, NEW second, SameOrder(K, first, second), NEW x \in K
    PROVE  Rank(K, first, x) = Rank(K, second, x)
<1>1. Before(K, first, x) = Before(K, second, x)
    BY DEF SameOrder, Before
<1> QED
    BY <1>1 DEF Rank

\* Each row more that comes before a row pushes it back by one.
LEMMA PushedBack ==
    ASSUME NEW S \in SUBSET Row, NEW K \in SUBSET S, NEW first, NEW x
    PROVE  Rank(S, first, x) = Rank(K, first, x) + Cardinality((S \ K) \cap first[x])
<1> DEFINE A == Before(K, first, x)
           N == (S \ K) \cap first[x]
<1>1. A \in SUBSET Row /\ N \in SUBSET Row
    BY DEF Before
<1>2. Before(S, first, x) = A \cup N /\ A \cap N = {}
    BY DEF Before
<1> HIDE DEF A, N
<1> QED
    BY <1>1, <1>2, UnionRows DEF Rank, A, N

LEMMA RankAmongMore ==
    ASSUME NEW S \in SUBSET Row, NEW K \in SUBSET S, NEW first, NEW x
    PROVE  /\ Rank(K, first, x) <= Rank(S, first, x)
           /\ Rank(S, first, x) <= Rank(K, first, x) + Cardinality(S \ K)
<1> DEFINE N == (S \ K) \cap first[x]
<1>1. Rank(S, first, x) = Rank(K, first, x) + Cardinality(N)
    BY PushedBack
<1>2. Cardinality(N) <= Cardinality(S \ K) /\ Cardinality(N) \in Nat /\ Cardinality(S \ K) \in Nat
    <2>1. N \in SUBSET (S \ K) /\ S \ K \in SUBSET Row /\ N \in SUBSET Row
        OBVIOUS
    <2> HIDE DEF N
    <2> QED
        BY <2>1, Subrows, FewerRows
<1> HIDE DEF N
<1>3. Rank(K, first, x) \in Nat
    BY RankType
<1> QED
    BY <1>1, <1>2, <1>3

\* As many rows as ranks.
LEMMA RowsOfRanks ==
    ASSUME NEW S \in SUBSET Row, NEW first, IsOrder(S, first), NEW X \in SUBSET S,
           NEW a \in Int, NEW n \in Nat,
           \A x \in X : Rank(S, first, x) \in a .. a + n - 1
    PROVE  Cardinality(X) <= n
<1> DEFINE f == [x \in X |-> Rank(S, first, x)]
<1>1. f \in [X -> a .. a + n - 1]
    OBVIOUS
<1>2. \A x, y \in X : f[x] = f[y] => x = y
    BY RankOrders
<1> HIDE DEF f
<1>3. f \in Injection(X, a .. a + n - 1)
    BY <1>1, <1>2 DEF Injection, IsInjective
<1>4. IsFiniteSet(a .. a + n - 1) /\ Cardinality(a .. a + n - 1) = n
    <2>1. a + n - 1 \in Int /\ (IF a > a + n - 1 THEN 0 ELSE a + n - 1 - a + 1) = n
        OBVIOUS
    <2> QED
        BY <2>1, FS_Interval
<1>5. Cardinality(X) <= Cardinality(a .. a + n - 1)
    BY <1>3, <1>4, FS_Injection
<1> QED
    BY <1>4, <1>5

\* The last of some rows.
LEMMA Latest ==
    ASSUME NEW S \in SUBSET Row, NEW first, NEW X \in SUBSET S, X # {}
    PROVE  \E y \in X : \A x \in X : Rank(S, first, x) <= Rank(S, first, y)
<1> DEFINE n == Cardinality(S)
           short == {n - Rank(S, first, x) : x \in X}
<1>1. n \in Nat /\ \A x \in X : Rank(S, first, x) \in Nat /\ Rank(S, first, x) <= n
    <2>1. \A x \in X : Before(S, first, x) \in SUBSET S
        BY DEF Before
    <2> QED
        BY <2>1, RankType, Subrows, FewerRows DEF Rank
<1>2. short \in SUBSET Nat /\ short # {}
    BY <1>1
<1>3. PICK k \in short : \A j \in short : <<j, k>> \notin OpToRel(<, Nat)
    <2> HIDE DEF short
    <2> QED
        BY <1>2, WFMin, NatLessThanWellFounded
<1>4. \A j \in short : ~(j < k)
    BY <1>2, <1>3 DEF OpToRel
<1>5. PICK y \in X : k = n - Rank(S, first, y)
    BY <1>3
<1>6. ASSUME NEW x \in X PROVE Rank(S, first, x) <= Rank(S, first, y)
    <2>1. ~(n - Rank(S, first, x) < n - Rank(S, first, y))
        BY <1>4, <1>5
    <2> QED
        BY <1>1, <2>1
<1> QED
    BY <1>6

\* The rows that stay, K, keep their order while a list S becomes T.
Turns(S, first, T, second, K) ==
    /\ IsOrder(S, first) /\ IsOrder(T, second)
    /\ K \subseteq S /\ K \subseteq T
    /\ SameOrder(K, first, second)

\* Among the rows that stay, no more sink below the offset k than rows leave.
LEMMA FewSink ==
    ASSUME NEW S \in SUBSET Row, NEW T \in SUBSET Row, NEW first, NEW second, NEW K,
           Turns(S, first, T, second, K), NEW k \in Nat, NEW X \in SUBSET K,
           \A x \in X : Rank(S, first, x) >= k /\ Rank(T, second, x) < k
    PROVE  Cardinality(X) <= Cardinality(S \ K)
<1> DEFINE n == Cardinality(S \ K)
<1>1. n \in Nat /\ K \in SUBSET Row /\ K \in SUBSET S /\ K \in SUBSET T
    BY Subrows DEF Turns
<1>2. IsOrder(K, first)
    BY <1>1, SuborderOf DEF Turns
<1>3. ASSUME NEW x \in X PROVE Rank(K, first, x) \in k - n .. k - n + n - 1
    <2>1. Rank(S, first, x) <= Rank(K, first, x) + n
        BY <1>1, RankAmongMore
    <2>2. Rank(K, second, x) <= Rank(T, second, x)
        BY <1>1, RankAmongMore
    <2>3. Rank(K, first, x) = Rank(K, second, x)
        BY SameRanks DEF Turns
    <2>4. Rank(K, first, x) \in Nat /\ Rank(S, first, x) \in Nat /\ Rank(T, second, x) \in Nat
        BY <1>1, RankType
    <2> HIDE DEF n
    <2> QED
        BY <1>1, <2>1, <2>2, <2>3, <2>4
<1> HIDE DEF n
<1>4. Cardinality(X) <= n
    <2>1. k - n \in Int
        BY <1>1
    <2> QED
        BY <1>1, <1>2, <1>3, <2>1, RowsOfRanks
<1> QED
    BY <1>4 DEF n

\* No more rows come to lie beyond the offset k than rows join: a row that joins there comes itself,
\* and one that joins before it pushes one other row over.
LEMMA FewRise ==
    ASSUME NEW S \in SUBSET Row, NEW T \in SUBSET Row, NEW first, NEW second, NEW K,
           Turns(S, first, T, second, K), NEW k \in Nat, NEW X \in SUBSET T,
           \A x \in X : Rank(T, second, x) >= k,
           \A x \in X \cap K : Rank(S, first, x) < k
    PROVE  Cardinality(X) <= Cardinality(T \ K)
<1>1. K \in SUBSET Row /\ K \in SUBSET S /\ K \in SUBSET T /\ T \ K \in SUBSET Row /\ X \in SUBSET Row
    BY DEF Turns
<1>2. CASE X \cap K = {}
    <2>1. X \in SUBSET (T \ K)
        BY <1>2
    <2> QED
        BY <1>1, <2>1, FewerRows
<1>3. CASE X \cap K # {}
    <2>1. X \cap K \in SUBSET T
        OBVIOUS
    <2>2. PICK y \in X \cap K : \A x \in X \cap K : Rank(T, second, x) <= Rank(T, second, y)
        BY <1>3, <2>1, Latest
    <2>3. Rank(T, second, y) = Rank(K, second, y) + Cardinality((T \ K) \cap second[y])
        BY <1>1, PushedBack
    <2> DEFINE early == {x \in X : Rank(T, second, x) <= Rank(T, second, y)}
               late == X \ early
               pushing == (T \ K) \cap second[y]
               n == Cardinality(pushing)
    <2>4. n \in Nat /\ pushing \in SUBSET (T \ K) /\ pushing \in SUBSET Row
        BY <1>1, Subrows
    <2>5. Rank(T, second, y) <= k - 1 + n
        <3>1. Rank(T, second, y) = Rank(K, second, y) + n
            BY <2>3
        <3>2. Rank(K, first, y) <= Rank(S, first, y) /\ Rank(S, first, y) < k
            BY <1>1, <2>2, RankAmongMore
        <3>3. Rank(K, first, y) = Rank(K, second, y)
            BY <2>2, SameRanks DEF Turns
        <3>4. Rank(K, first, y) \in Nat /\ Rank(S, first, y) \in Nat /\ Rank(T, second, y) \in Nat
            BY <1>1, RankType
        <3> HIDE DEF n
        <3> QED
            BY <2>4, <3>1, <3>2, <3>3, <3>4
    <2>6. Cardinality(early) <= n
        <3>1. \A x \in early : Rank(T, second, x) \in k .. k + n - 1
            <4>1. \A x \in X : Rank(T, second, x) \in Nat
                BY RankType
            <4> HIDE DEF n
            <4> QED
                BY <2>2, <2>4, <2>5, <4>1
        <3>2. IsOrder(T, second) /\ early \in SUBSET T /\ k \in Int
            BY DEF Turns
        <3> HIDE DEF n, early
        <3> QED
            BY <2>4, <3>1, <3>2, RowsOfRanks
    <2>7. late \in SUBSET ((T \ K) \ pushing)
        <3> SUFFICES ASSUME NEW x \in late PROVE x \in T /\ x \notin K /\ x \notin pushing
            OBVIOUS
        <3>1. x \in T /\ y \in T /\ Rank(T, second, x) \in Nat /\ Rank(T, second, y) \in Nat
            BY <2>2, RankType
        <3>2. ~(Rank(T, second, x) <= Rank(T, second, y))
            OBVIOUS
        <3>3. x \notin K
            BY <2>2, <3>2
        <3>4. ~(Rank(T, second, x) < Rank(T, second, y))
            BY <3>1, <3>2
        <3>5. x \notin second[y]
            BY <3>1, <3>4, RankRises DEF Turns
        <3> QED
            BY <3>1, <3>3, <3>5
    <2>8. Cardinality(late) <= Cardinality(T \ K) - n
        <3>1. (T \ K) \ pushing \in SUBSET Row
            BY <1>1
        <3>2. Cardinality(late) <= Cardinality((T \ K) \ pushing)
            BY <2>7, <3>1, FewerRows
        <3>3. Cardinality((T \ K) \ pushing) = Cardinality(T \ K) - n
            <4>1. (T \ K) \cap pushing = pushing /\ IsFiniteSet(T \ K)
                BY <1>1, Subrows
            <4> HIDE DEF pushing
            <4> QED
                BY <4>1, FS_Difference
        <3> QED
            BY <3>2, <3>3
    <2>9. /\ Cardinality(X) <= Cardinality(early) + Cardinality(late)
          /\ Cardinality(X) \in Nat /\ Cardinality(early) \in Nat /\ Cardinality(late) \in Nat
          /\ Cardinality(T \ K) \in Nat
        <3>1. X = early \cup late /\ early \in SUBSET Row /\ late \in SUBSET Row
            BY <1>1
        <3> HIDE DEF early, late
        <3> QED
            BY <1>1, <3>1, UnionRows, Subrows
    <2> HIDE DEF early, late, n
    <2> QED
        BY <2>4, <2>6, <2>8, <2>9
<1> QED
    BY <1>2, <1>3

-----------------------------------------------------------------------------
(***************************************************************************)
(* Pages.                                                                  *)
(***************************************************************************)

\* A sorted list has each row at the place its rank says.
LEMMA SortedByRank ==
    ASSUME NEW S \in SUBSET Row, NEW first, IsOrder(S, first), NEW s \in Sorted(S, first)
    PROVE  /\ \A i \in 1 .. Cardinality(S) : s[i] \in S /\ Rank(S, first, s[i]) = i - 1
           /\ \A i, j \in 1 .. Cardinality(S) : s[i] = s[j] => i = j
           /\ \A x \in S : \E i \in 1 .. Cardinality(S) : s[i] = x
<1> DEFINE n == Cardinality(S)
<1>1. n \in Nat /\ IsFiniteSet(S) /\ s \in [1 .. n -> S]
      /\ \A i, j \in 1 .. n : i < j => s[i] # s[j] /\ s[j] \notin first[s[i]]
    BY Subrows DEF Sorted
<1>2. n = Cardinality(S)
    OBVIOUS
<1> HIDE DEF n
<1>3. \A i, j \in 1 .. n : s[i] = s[j] => i = j
    BY <1>1
<1>4. \A x \in S : \E i \in 1 .. n : s[i] = x
    <2>1. s \in Injection(1 .. n, S)
        BY <1>1, <1>3 DEF Injection, IsInjective
    <2>2. Cardinality(1 .. n) = n
        BY <1>1, FS_Interval
    <2>3. s \in Surjection(1 .. n, S)
        BY <1>1, <1>2, <2>1, <2>2, FS_Injection
    <2> QED
        BY <2>3 DEF Surjection
<1>5. ASSUME NEW i \in 1 .. n PROVE Rank(S, first, s[i]) = i - 1
    <2> DEFINE g == [j \in 1 .. i - 1 |-> s[j]]
               B == Before(S, first, s[i])
    <2>1. i - 1 \in Nat /\ 1 .. i - 1 \subseteq 1 .. n
        BY <1>1
    <2>2. ASSUME NEW j \in 1 .. i - 1 PROVE s[j] \in B
        <3>1. j \in 1 .. n /\ j < i /\ s[j] \in S /\ s[i] \in S
            BY <1>1, <2>1
        <3>2. s[i] # s[j] /\ s[i] \notin first[s[j]]
            BY <1>1, <3>1
        <3> QED
            BY <3>1, <3>2 DEF IsOrder, Before
    <2>3. ASSUME NEW x \in B PROVE \E j \in 1 .. i - 1 : s[j] = x
        <3>1. x \in S /\ x \in first[s[i]] /\ s[i] \in S
            BY <1>1 DEF Before
        <3>2. PICK j \in 1 .. n : s[j] = x
            BY <1>4, <3>1
        <3>3. j # i
            BY <3>1, <3>2 DEF IsOrder
        <3>4. ~(i < j)
            BY <1>1, <3>1, <3>2
        <3>5. j \in 1 .. i - 1
            BY <3>3, <3>4
        <3> QED
            BY <3>2, <3>5
    <2>4. g \in [1 .. i - 1 -> B] /\ \A j, k \in 1 .. i - 1 : g[j] = g[k] => j = k
        BY <1>3, <2>1, <2>2
    <2>5. \A x \in B : \E j \in 1 .. i - 1 : g[j] = x
        BY <2>3
    <2> HIDE DEF g, B
    <2>6. g \in Bijection(1 .. i - 1, B)
        BY <2>4, <2>5 DEF Bijection, Injection, Surjection, IsInjective
    <2>7. Cardinality(B) = i - 1
        BY <2>1, <2>6, FS_CountingElements DEF ExistsBijection
    <2> QED
        BY <2>7 DEF Rank, B
<1> QED
    BY <1>1, <1>3, <1>4, <1>5 DEF n

\* The rows a page shows.
OnPage(S, first, limit, offset) ==
    {x \in S : offset <= Rank(S, first, x) /\ Rank(S, first, x) < offset + limit}

\* A page shows each of them once, and when it is not full there is no row behind it.
Shows(page, S, first, limit, offset) ==
    /\ page \in Seq(Row)
    /\ {page[i] : i \in 1 .. Len(page)} = OnPage(S, first, limit, offset)
    /\ Len(page) = Cardinality(OnPage(S, first, limit, offset))
    /\ Len(page) < limit => \A x \in S : Rank(S, first, x) < offset + limit

LEMMA PageByRank ==
    ASSUME NEW S \in SUBSET Row, NEW first, IsOrder(S, first), NEW s \in Sorted(S, first),
           NEW limit \in Nat, NEW offset \in Nat
    PROVE  Shows(Page(s, limit, offset), S, first, limit, offset)
<1> DEFINE n == Cardinality(S)
           P == OnPage(S, first, limit, offset)
           last == IF offset + limit < n THEN offset + limit ELSE n
           page == Page(s, limit, offset)
           m == IF offset + 1 <= last THEN last - offset ELSE 0
<1>1. /\ n \in Nat
      /\ \A i \in 1 .. n : s[i] \in S /\ Rank(S, first, s[i]) = i - 1
      /\ \A i, j \in 1 .. n : s[i] = s[j] => i = j
      /\ \A x \in S : \E i \in 1 .. n : s[i] = x
    BY Subrows, SortedByRank
<1>2. page = SubSeq(s, offset + 1, last)
    <2>1. s \in [1 .. n -> S]
        BY DEF Sorted
    <2> HIDE DEF n
    <2>2. Len(s) = n
        BY <1>1, <2>1
    <2> QED
        BY <2>2 DEF Page
<1> HIDE DEF n, page
<1>3. /\ last \in Int /\ last <= n /\ last <= offset + limit
      /\ last = n \/ last = offset + limit
    BY <1>1
<1> HIDE DEF last
<1>4. m \in Nat /\ (m > 0 => m = last - offset) /\ (m = 0 => last <= offset)
    BY <1>3
<1> HIDE DEF m
<1>5. page \in Seq(Row) /\ Len(page) = m /\ \A i \in 1 .. m : page[i] = s[offset + i]
    <2>1. \A i \in offset + 1 .. last : s[i] \in Row
        BY <1>1, <1>3
    <2>2. /\ SubSeq(s, offset + 1, last) \in Seq(Row)
          /\ Len(SubSeq(s, offset + 1, last)) =
                 IF offset + 1 <= last THEN last - (offset + 1) + 1 ELSE 0
          /\ \A i \in 1 .. last - (offset + 1) + 1 :
                 SubSeq(s, offset + 1, last)[i] = s[offset + 1 + i - 1]
        <3>1. offset + 1 \in Int
            OBVIOUS
        <3> QED
            BY <1>3, <2>1, <3>1, SubSeqProperties
    <2>3. Len(page) = m
        BY <1>2, <1>3, <2>2 DEF m
    <2>4. ASSUME NEW i \in 1 .. m PROVE page[i] = s[offset + i]
        <3>1. i \in 1 .. last - (offset + 1) + 1 /\ offset + 1 + i - 1 = offset + i
            BY <1>3, <1>4
        <3> QED
            BY <1>2, <2>2, <3>1
    <2> QED
        BY <1>2, <2>2, <2>3, <2>4
<1>6. ASSUME NEW i \in 1 .. m PROVE offset + i \in 1 .. n /\ s[offset + i] \in P
    <2>1. offset + i \in 1 .. n /\ offset + i <= offset + limit
        BY <1>1, <1>3, <1>4
    <2>2. s[offset + i] \in S /\ Rank(S, first, s[offset + i]) = offset + i - 1
        BY <1>1, <2>1
    <2> QED
        BY <2>1, <2>2 DEF OnPage
<1>7. ASSUME NEW x \in P PROVE \E i \in 1 .. m : s[offset + i] = x
    <2>1. PICK k \in 1 .. n : s[k] = x
        BY <1>1 DEF OnPage
    <2>2. Rank(S, first, x) = k - 1 /\ offset <= k - 1 /\ k - 1 < offset + limit
        BY <1>1, <2>1 DEF OnPage
    <2>3. k - offset \in 1 .. m /\ offset + (k - offset) = k
        BY <1>1, <1>3, <1>4, <2>2
    <2> QED
        BY <2>1, <2>3
<1> HIDE DEF P
<1>8. {page[i] : i \in 1 .. m} = P
    BY <1>5, <1>6, <1>7
<1>9. m = Cardinality(P)
    <2> DEFINE g == [i \in 1 .. m |-> s[offset + i]]
    <2>1. g \in [1 .. m -> P] /\ \A i, j \in 1 .. m : g[i] = g[j] => i = j
        <3>1. \A i, j \in 1 .. m : s[offset + i] = s[offset + j] => offset + i = offset + j
            BY <1>1, <1>6
        <3> QED
            BY <1>6, <3>1
    <2>2. \A x \in P : \E i \in 1 .. m : g[i] = x
        BY <1>7
    <2> HIDE DEF g
    <2>3. g \in Bijection(1 .. m, P)
        BY <2>1, <2>2 DEF Bijection, Injection, Surjection, IsInjective
    <2> QED
        BY <1>4, <2>3, FS_CountingElements DEF ExistsBijection
<1>10. ASSUME m < limit, NEW x \in S PROVE Rank(S, first, x) < offset + limit
    <2>1. PICK k \in 1 .. n : s[k] = x
        BY <1>1
    <2>2. Rank(S, first, x) = k - 1
        BY <1>1, <2>1
    <2>3. n <= offset + limit
        BY <1>1, <1>3, <1>4, <1>10
    <2> QED
        BY <1>1, <2>2, <2>3
<1> QED
    BY <1>5, <1>8, <1>9, <1>10 DEF page, P, Shows

-----------------------------------------------------------------------------
(***************************************************************************)
(* A client's progress p while it reads the list S, ordered by first.      *)
(***************************************************************************)

ShownTo(p) == {p.seen[i] : i \in DOMAIN p.seen}

MissedBy(p) == p.standing \ ShownTo(p)

RepeatsTo(p) == Len(p.seen) - Cardinality(ShownTo(p))

\* What it has missed already, although it is still reading.
Sunk(p, S, first) == {x \in MissedBy(p) : Rank(S, first, x) < p.offset}

\* What it will be shown again if it reads on.
Risen(p, S, first) == {x \in S \cap ShownTo(p) : Rank(S, first, x) >= p.offset}

\* While it reads, what it misses and what it is shown again is accounted for by the rows that left
\* and by those that joined, the rows it is still to be shown again included.
Accounts(p, S, first) ==
    IF p.over THEN Cardinality(MissedBy(p)) <= p.left /\ RepeatsTo(p) <= p.joined
    ELSE /\ Cardinality(Sunk(p, S, first)) <= p.left
         /\ RepeatsTo(p) + Cardinality(Risen(p, S, first)) <= p.joined

LEMMA ProgressFields ==
    ASSUME NEW p \in Progress
    PROVE  /\ p.limit \in Nat /\ p.offset \in Nat /\ p.joined \in Nat /\ p.left \in Nat
           /\ p.seen \in Seq(Row)
<1>1. /\ p.limit \in Limits \cup {0} /\ p.offset \in Nat /\ p.joined \in Nat /\ p.left \in Nat
      /\ p.seen \in Seq(Row)
    BY DEF Progress
<1>2. Limits \cup {0} \subseteq Nat
    BY ListingAssumption
<1> QED
    BY <1>1, <1>2, Zenon

LEMMA ShownRows ==
    ASSUME NEW p \in Progress
    PROVE  /\ ShownTo(p) \in SUBSET Row /\ MissedBy(p) \in SUBSET Row
           /\ Len(p.seen) \in Nat /\ RepeatsTo(p) \in Int
<1>1. p.seen \in Seq(Row) /\ p.standing \in SUBSET Row
    BY DEF Progress
<1>2. Len(p.seen) \in Nat /\ \A i \in DOMAIN p.seen : p.seen[i] \in Row
    BY <1>1
<1>3. ShownTo(p) \in SUBSET Row
    BY <1>2 DEF ShownTo
<1>4. Cardinality(ShownTo(p)) \in Nat
    BY <1>3, Subrows
<1> QED
    BY <1>1, <1>2, <1>3, <1>4 DEF MissedBy, RepeatsTo

\* A page shows what is on it.
LEMMA MoreShown ==
    ASSUME NEW p \in Progress, NEW page \in Seq(Row), NEW p2, p2.seen = p.seen \o page
    PROVE  /\ ShownTo(p2) = ShownTo(p) \cup {page[i] : i \in 1 .. Len(page)}
           /\ Len(p2.seen) = Len(p.seen) + Len(page)
<1> DEFINE a == p.seen
           b == p2.seen
<1>1. a \in Seq(Row)
    BY DEF Progress
<1>2. b = a \o page
    OBVIOUS
<1> HIDE DEF a, b
<1>3. /\ b \in Seq(Row) /\ Len(b) = Len(a) + Len(page)
      /\ \A i \in 1 .. Len(a) + Len(page) : b[i] = IF i <= Len(a) THEN a[i] ELSE page[i - Len(a)]
    BY <1>1, <1>2, ConcatProperties
<1>4. Len(a) \in Nat /\ Len(page) \in Nat /\ DOMAIN a = 1 .. Len(a) /\ DOMAIN b = 1 .. Len(a) + Len(page)
    BY <1>1, <1>3
<1>5. \A i \in 1 .. Len(a) : i \in 1 .. Len(a) + Len(page) /\ b[i] = a[i]
    BY <1>3, <1>4
<1>6. \A i \in 1 .. Len(page) : Len(a) + i \in 1 .. Len(a) + Len(page) /\ b[Len(a) + i] = page[i]
    <2> SUFFICES ASSUME NEW i \in 1 .. Len(page)
                 PROVE  Len(a) + i \in 1 .. Len(a) + Len(page) /\ b[Len(a) + i] = page[i]
        OBVIOUS
    <2>1. Len(a) + i \in 1 .. Len(a) + Len(page) /\ ~(Len(a) + i <= Len(a)) /\ Len(a) + i - Len(a) = i
        BY <1>4
    <2> QED
        BY <1>3, <2>1
<1>7. \A i \in 1 .. Len(a) + Len(page) :
          i \in 1 .. Len(a) \/ (i - Len(a) \in 1 .. Len(page) /\ b[i] = page[i - Len(a)])
    BY <1>3, <1>4
<1>8. ASSUME NEW i \in DOMAIN b
      PROVE  b[i] \in {a[j] : j \in DOMAIN a} \cup {page[j] : j \in 1 .. Len(page)}
    <2>1. i \in 1 .. Len(a) \/ (i - Len(a) \in 1 .. Len(page) /\ b[i] = page[i - Len(a)])
        BY <1>4, <1>7
    <2>2. CASE i \in 1 .. Len(a)
        BY <1>4, <1>5, <2>2
    <2>3. CASE i - Len(a) \in 1 .. Len(page) /\ b[i] = page[i - Len(a)]
        BY <2>3
    <2> QED
        BY <2>1, <2>2, <2>3
<1>9. ASSUME NEW i \in DOMAIN a PROVE a[i] \in {b[j] : j \in DOMAIN b}
    <2>1. i \in DOMAIN b /\ b[i] = a[i]
        BY <1>4, <1>5
    <2> QED
        BY <2>1
<1>10. ASSUME NEW i \in 1 .. Len(page) PROVE page[i] \in {b[j] : j \in DOMAIN b}
    <2>1. Len(a) + i \in DOMAIN b /\ b[Len(a) + i] = page[i]
        BY <1>4, <1>6
    <2> QED
        BY <2>1
<1>11. {b[i] : i \in DOMAIN b} = {a[i] : i \in DOMAIN a} \cup {page[i] : i \in 1 .. Len(page)}
    BY <1>8, <1>9, <1>10
<1> QED
    BY <1>3, <1>11 DEF ShownTo, a, b

LEMMA ReadAccounts ==
    ASSUME NEW p \in Progress, ~p.over, NEW S \in SUBSET Row, p.standing \subseteq S,
           NEW first, IsOrder(S, first), Accounts(p, S, first),
           NEW page, Shows(page, S, first, p.limit, p.offset), NEW p2 \in Progress,
           p2.seen = p.seen \o page, p2.offset = p.offset + p.limit,
           p2.over = (Len(page) < p.limit),
           p2.standing = p.standing, p2.joined = p.joined, p2.left = p.left
    PROVE  Accounts(p2, S, first)
<1> DEFINE P == OnPage(S, first, p.limit, p.offset)
           A == Sunk(p, S, first)
           B == Risen(p, S, first)
           B2 == Risen(p2, S, first)
<1>1. p.limit \in Nat /\ p.offset \in Nat /\ p.joined \in Nat /\ p.left \in Nat
    BY ProgressFields
<1>2. /\ page \in Seq(Row) /\ {page[i] : i \in 1 .. Len(page)} = P
      /\ Len(page) = Cardinality(P)
      /\ Len(page) < p.limit => \A x \in S : Rank(S, first, x) < p.offset + p.limit
    BY DEF Shows
<1>3. ShownTo(p2) = ShownTo(p) \cup P /\ Len(p2.seen) = Len(p.seen) + Cardinality(P)
    <2> HIDE DEF P
    <2>1. p2.seen = p.seen \o page /\ page \in Seq(Row)
        BY <1>2
    <2>2. /\ ShownTo(p2) = ShownTo(p) \cup {page[i] : i \in 1 .. Len(page)}
          /\ Len(p2.seen) = Len(p.seen) + Len(page)
        BY <2>1, MoreShown
    <2> QED
        BY <1>2, <2>2, Zenon
<1>4. /\ P \in SUBSET Row /\ ShownTo(p) \in SUBSET Row /\ A \in SUBSET Row /\ B \in SUBSET Row
      /\ B2 \in SUBSET Row
    BY ShownRows DEF OnPage, Sunk, Risen
<1>5. \A x \in S : Rank(S, first, x) \in Nat
    BY RankType
<1>6. P = {x \in S : p.offset <= Rank(S, first, x) /\ Rank(S, first, x) < p.offset + p.limit}
    BY DEF OnPage
<1> HIDE DEF P
<1>7. Sunk(p2, S, first) \subseteq A
    BY <1>1, <1>3, <1>5, <1>6 DEF Sunk, MissedBy
<1>8. p2.over => MissedBy(p2) \subseteq A
    <2>1. p2.over => \A x \in S : Rank(S, first, x) < p.offset + p.limit
        BY <1>2
    <2>2. p.standing \subseteq S /\ p2.standing = p.standing
        OBVIOUS
    <2> QED
        BY <1>1, <1>3, <1>5, <1>6, <2>1, <2>2 DEF Sunk, MissedBy
<1>9. /\ Cardinality(A) <= p.left
      /\ RepeatsTo(p) + Cardinality(B) <= p.joined
    BY DEF Accounts
<1>10. B = (P \cap ShownTo(p)) \cup B2 /\ (P \cap ShownTo(p)) \cap B2 = {}
    BY <1>1, <1>3, <1>5, <1>6 DEF Risen
<1>11. RepeatsTo(p2) = RepeatsTo(p) + Cardinality(P \cap ShownTo(p))
    <2>1. Cardinality(ShownTo(p) \cup P) =
              Cardinality(ShownTo(p)) + Cardinality(P) - Cardinality(ShownTo(p) \cap P)
        BY <1>4, UnionRows
    <2>2. ShownTo(p) \cap P = P \cap ShownTo(p) /\ P \cap ShownTo(p) \in SUBSET Row
        BY <1>4
    <2>3. /\ Cardinality(P) \in Nat /\ Cardinality(ShownTo(p)) \in Nat /\ Len(p.seen) \in Nat
          /\ Cardinality(P \cap ShownTo(p)) \in Nat
        BY <1>4, <2>2, Subrows, ShownRows
    <2> DEFINE both == P \cap ShownTo(p)
    <2>4. /\ RepeatsTo(p2) = Len(p2.seen) - Cardinality(ShownTo(p) \cup P)
          /\ RepeatsTo(p) = Len(p.seen) - Cardinality(ShownTo(p))
        BY <1>3 DEF RepeatsTo
    <2>5. Cardinality(ShownTo(p) \cap P) = Cardinality(both)
        BY <2>2
    <2> HIDE DEF both
    <2>6. Len(p2.seen) = Len(p.seen) + Cardinality(P)
        BY <1>3
    <2>7. Cardinality(both) \in Nat
        BY <2>3 DEF both
    <2>8. RepeatsTo(p2) = RepeatsTo(p) + Cardinality(both)
        BY <2>1, <2>3, <2>4, <2>5, <2>6, <2>7
    <2> QED
        BY <2>8 DEF both
<1>12. /\ Cardinality(B) = Cardinality(P \cap ShownTo(p)) + Cardinality(B2)
       /\ Cardinality(B2) \in Nat /\ Cardinality(P \cap ShownTo(p)) \in Nat
    <2>1. P \cap ShownTo(p) \in SUBSET Row
        BY <1>4
    <2> HIDE DEF B, B2
    <2> QED
        BY <1>4, <1>10, <2>1, UnionRows, Subrows
<1>13. Cardinality(Sunk(p2, S, first)) <= p.left /\ (p2.over => Cardinality(MissedBy(p2)) <= p.left)
    <2>1. ASSUME NEW X \in SUBSET A PROVE Cardinality(X) <= p.left
        <3>1. Cardinality(X) <= Cardinality(A) /\ Cardinality(X) \in Nat /\ Cardinality(A) \in Nat
            <4>1. X \in SUBSET Row
                BY <1>4
            <4> QED
                BY <1>4, <4>1, FewerRows, Subrows
        <3> QED
            BY <1>1, <1>9, <3>1
    <2> QED
        BY <1>7, <1>8, <2>1
<1>14. RepeatsTo(p2) + Cardinality(B2) <= p.joined /\ RepeatsTo(p2) <= p.joined
    <2>1. RepeatsTo(p) \in Int
        BY ShownRows
    <2> HIDE DEF B, B2
    <2> QED
        BY <1>1, <1>9, <1>11, <1>12, <2>1
<1> QED
    BY <1>13, <1>14 DEF Accounts

\* A write turns S into T; the rows of M stay in the list, at another place.
LEMMA ChangeAccounts ==
    ASSUME NEW p \in Progress, ~p.over, NEW S \in SUBSET Row, NEW T \in SUBSET Row,
           p.standing \subseteq S, NEW M \in SUBSET (S \cap T), NEW first, NEW second,
           Turns(S, first, T, second, (S \cap T) \ M), Accounts(p, S, first),
           NEW p2 \in Progress,
           p2.seen = p.seen, p2.offset = p.offset, p2.over = p.over,
           p2.standing = (p.standing \cap T) \ M,
           p2.joined = p.joined + Cardinality((T \ S) \cup M),
           p2.left = p.left + Cardinality((S \ T) \cup M)
    PROVE  p2.standing \subseteq T /\ Accounts(p2, T, second)
<1> DEFINE K == (S \cap T) \ M
           A == Sunk(p, S, first)
           A2 == Sunk(p2, T, second)
           B == Risen(p, S, first)
           B2 == Risen(p2, T, second)
           out == Cardinality(S \ K)
           in == Cardinality(T \ K)
<1>1. p.offset \in Nat /\ p.joined \in Nat /\ p.left \in Nat
    BY ProgressFields
<1>2. (S \ T) \cup M = S \ K /\ (T \ S) \cup M = T \ K
    OBVIOUS
<1>3. p2.left = p.left + out /\ p2.joined = p.joined + in
    BY <1>2
<1>4. ShownTo(p2) = ShownTo(p) /\ RepeatsTo(p2) = RepeatsTo(p) /\ RepeatsTo(p) \in Int
    BY ShownRows DEF ShownTo, RepeatsTo
<1>5. K \in SUBSET S /\ K \in SUBSET T /\ Turns(S, first, T, second, K)
    OBVIOUS
<1>6. /\ A \in SUBSET Row /\ A2 \in SUBSET Row /\ B \in SUBSET Row /\ B2 \in SUBSET Row
      /\ S \ K \in SUBSET Row /\ T \ K \in SUBSET Row
    BY ShownRows DEF Sunk, Risen
<1>7. MissedBy(p2) \subseteq K \cap MissedBy(p)
    BY <1>4 DEF MissedBy
<1>8. \A x : Rank(S, first, x) \in Nat /\ Rank(T, second, x) \in Nat
    BY RankType
<1> HIDE DEF K
<1>9. Cardinality(A2 \ A) <= out
    <2>1. A2 \ A \in SUBSET K
        BY <1>7 DEF Sunk
    <2>2. \A x \in A2 \ A : Rank(S, first, x) >= p.offset /\ Rank(T, second, x) < p.offset
        BY <1>1, <1>7, <1>8 DEF Sunk
    <2> HIDE DEF A, A2
    <2> QED
        BY <1>1, <1>5, <2>1, <2>2, FewSink
<1>10. Cardinality(B2 \ B) <= in
    <2>1. B2 \ B \in SUBSET T /\ \A x \in B2 \ B : Rank(T, second, x) >= p.offset
        BY DEF Risen
    <2>2. \A x \in (B2 \ B) \cap K : Rank(S, first, x) < p.offset
        BY <1>1, <1>4, <1>5, <1>8 DEF Risen
    <2> HIDE DEF B, B2
    <2> QED
        BY <1>1, <1>5, <2>1, <2>2, FewRise
<1> HIDE DEF A, A2, B, B2
<1>11. ASSUME NEW X \in SUBSET Row, NEW Y \in SUBSET Row, NEW n \in Nat, Cardinality(Y \ X) <= n
       PROVE  Cardinality(Y) <= Cardinality(X) + n /\ Cardinality(Y) \in Nat /\ Cardinality(X) \in Nat
    <2>1. Y \ X \in SUBSET Row /\ X \cup (Y \ X) \in SUBSET Row /\ Y \in SUBSET (X \cup (Y \ X))
        OBVIOUS
    <2>2. Cardinality(X \cup (Y \ X)) <= Cardinality(X) + Cardinality(Y \ X)
        BY <2>1, UnionRows
    <2>3. Cardinality(Y) <= Cardinality(X \cup (Y \ X))
        BY <2>1, FewerRows
    <2>4. /\ Cardinality(Y) \in Nat /\ Cardinality(X) \in Nat /\ Cardinality(Y \ X) \in Nat
          /\ Cardinality(X \cup (Y \ X)) \in Nat
        BY <2>1, Subrows
    <2> QED
        BY <1>11, <2>2, <2>3, <2>4
<1>12. out \in Nat /\ in \in Nat
    BY <1>6, Subrows
<1> HIDE DEF out, in
<1>13. Cardinality(A2) <= Cardinality(A) + out /\ Cardinality(A2) \in Nat /\ Cardinality(A) \in Nat
    BY <1>6, <1>9, <1>11, <1>12
<1>14. Cardinality(B2) <= Cardinality(B) + in /\ Cardinality(B2) \in Nat /\ Cardinality(B) \in Nat
    BY <1>6, <1>10, <1>11, <1>12
<1>15. Cardinality(A) <= p.left /\ RepeatsTo(p) + Cardinality(B) <= p.joined
    BY DEF Accounts, A, B
<1>16. Cardinality(A2) <= p2.left
    BY <1>1, <1>3, <1>12, <1>13, <1>15
<1>17. RepeatsTo(p2) + Cardinality(B2) <= p2.joined
    BY <1>1, <1>3, <1>4, <1>12, <1>14, <1>15
<1> QED
    BY <1>16, <1>17 DEF Accounts, A2, B2

\* What is not listed yet changes nothing.
LEMMA SameAccounts ==
    ASSUME NEW p \in Progress, NEW S \in SUBSET Row, ~p.over => p.standing \subseteq S,
           NEW first, NEW second, SameOrder(S, first, second), Accounts(p, S, first)
    PROVE  Accounts(p, S, second)
<1>1. \A x \in S : Rank(S, first, x) = Rank(S, second, x)
    BY SameRanks
<1>2. Risen(p, S, first) = Risen(p, S, second)
    BY <1>1 DEF Risen
<1>3. ~p.over => Sunk(p, S, first) = Sunk(p, S, second)
    BY <1>1 DEF Sunk, MissedBy
<1> QED
    BY <1>2, <1>3 DEF Accounts

\* A client that has seen nothing has missed nothing.
LEMMA NewAccounts ==
    ASSUME NEW p \in Progress, p.seen = <<>>, p.offset = 0, ~p.over, NEW S \in SUBSET Row, NEW first
    PROVE  Accounts(p, S, first)
<1>1. ShownTo(p) = {} /\ Len(p.seen) = 0
    BY DEF ShownTo
<1>2. \A x : Rank(S, first, x) \in Nat
    BY RankType
<1>3. Sunk(p, S, first) = {} /\ Risen(p, S, first) = {}
    BY <1>1, <1>2 DEF Sunk, Risen
<1>4. RepeatsTo(p) = 0
    BY <1>1, FS_EmptySet DEF RepeatsTo
<1>5. p.joined \in Nat /\ p.left \in Nat
    BY ProgressFields
<1> QED
    BY <1>3, <1>4, <1>5, FS_EmptySet DEF Accounts
=============================================================================
