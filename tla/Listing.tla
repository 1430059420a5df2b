------------------------------- MODULE Listing ------------------------------
(***************************************************************************)
(* A client that reads a list page by page (?limit and ?offset) while the  *)
(* list changes.  Every page is a query of its own, answered from the rows *)
(* committed at that moment; nothing is kept between two pages but the     *)
(* offset the client counts up.                                            *)
(*                                                                         *)
(* What the lists are lists of is up to the module that extends this one.  *)
(***************************************************************************)
EXTENDS Integers, Sequences, FiniteSets

CONSTANTS
    Reader,         \* clients
    Row,            \* ids of the rows a list can have
    Query,          \* the lists that can be asked for, with their filters
    Limits,         \* values of ?limit, 1 .. maxPageLimit
    Unasked         \* not a query

ASSUME ListingAssumption ==
    /\ IsFiniteSet(Row) /\ Row \subseteq Nat
    /\ Limits \subseteq Nat \ {0}
    /\ Unasked \notin Query

VARIABLE reader

\* standing, joined and left are ghosts: the rows that have been in the list ever since the client
\* began, and how many have come into it and gone out of it since.
Progress ==
    [query: Query \cup {Unasked}, limit: Limits \cup {0}, offset: Nat, over: BOOLEAN,
     seen: Seq(Row), standing: SUBSET Row, joined: Nat, left: Nat]

ListingInit ==
    reader = [c \in Reader |->
        [query |-> Unasked, limit |-> 0, offset |-> 0, over |-> FALSE,
         seen |-> <<>>, standing |-> {}, joined |-> 0, left |-> 0]]

-----------------------------------------------------------------------------
\* The orders in which ORDER BY may return the rows of S: first[x] says which rows have to come
\* before x, and rows of which neither does come in any order, a new one for each query.
Sorted(S, first) ==
    {s \in [1 .. Cardinality(S) -> S] :
        \A i, j \in 1 .. Cardinality(S) : i < j => s[i] # s[j] /\ s[j] \notin first[s[i]]}

\* Slip: the offset is a page boundary that both pages include.
PageOverlapping(s, limit, offset) == 
    SubSeq(s, IF offset = 0 THEN 1 ELSE offset, IF offset + limit < Len(s) THEN offset + limit ELSE Len(s))

\* LIMIT limit OFFSET offset.
Page(s, limit, offset) ==
    SubSeq(s, offset + 1, IF offset + limit < Len(s) THEN offset + limit ELSE Len(s))

\* S is what the query lists now.
Ask(c, q, limit, S) ==
    /\ reader[c].query = Unasked
    /\ reader' = [reader EXCEPT ![c].query = q, ![c].limit = limit, ![c].standing = S]

\* A page that is not full is the last.
ReadPage(c, S, first) ==
    /\ reader[c].query # Unasked /\ ~reader[c].over
    /\ \E s \in Sorted(S, first) :
           LET page == Page(s, reader[c].limit, reader[c].offset)
           IN  reader' = [reader EXCEPT
                   ![c].seen = @ \o page,
                   ![c].offset = @ + reader[c].limit,
                   ![c].over = Len(page) < reader[c].limit]

\* A write turned the list of c into S; the rows of moved stayed in it, at another place.
Changed(c, S, T, moved) ==
    IF reader[c].query = Unasked \/ reader[c].over THEN reader[c]
    ELSE [reader[c] EXCEPT !.standing = (@ \cap T) \ moved,
                           !.joined = @ + Cardinality((T \ S) \cup moved),
                           !.left = @ + Cardinality((S \ T) \cup moved)]

-----------------------------------------------------------------------------
Shown(c) == {reader[c].seen[i] : i \in DOMAIN reader[c].seen}

\* Rows that were listed from the first page to the last and were on neither: each is the price of
\* one row that left the list meanwhile and moved the others up by one.
Missed(c) == reader[c].standing \ Shown(c)

\* Rows shown again: each is the price of one row that joined and moved the others down.
Repeats(c) == Len(reader[c].seen) - Cardinality(Shown(c))
=============================================================================
