---------------------------- MODULE PagingProofs ----------------------------
(***************************************************************************)
(* Proofs about paging: for any documents, paths, indexes, queries, limits *)
(* and any interleaving with writers, deletions and restarts, pages are    *)
(* complete, repeat nothing, get on, and hold only what was asked for.     *)
(***************************************************************************)
EXTENDS Paging, FiniteSetTheorems, WellFoundedInduction, TLAPS

-----------------------------------------------------------------------------
(* The order of index keys.                                                *)
Positions == Nat \X Nat

(* Before is a strict total order.                                         *)
LEMMA BeforeOrders ==
    ASSUME NEW a \in Positions, NEW b \in Positions, NEW c \in Positions
    PROVE  /\ ~Before(a, a)
           /\ Before(a, b) => ~Before(b, a)
           /\ Before(a, b) /\ Before(b, c) => Before(a, c)
           /\ Before(a, b) \/ Before(b, a) \/ a = b
BY DEF Positions, Before

(* Where each element of a finite set has a set of elements below it, some *)
(* element has none.                                                       *)
LEMMA Bottom ==
    ASSUME NEW S, IsFiniteSet(S), S # {}, NEW B \in [S -> SUBSET S],
           \A x \in S : \A y \in B[x] : B[y] \subseteq B[x] /\ y \notin B[y]
    PROVE  \E x \in S : B[x] = {}
<1> DEFINE T == {B[x] : x \in S}
<1>1. T \subseteq FiniteSubsetsOf(S) /\ T # {}
  <2>0. \A x \in S : B[x] \in SUBSET S
    BY Zenon
  <2>1. ASSUME NEW t \in T PROVE t \in SUBSET S
    <3>1. PICK x \in S : t = B[x]
      BY Zenon
    <3> QED
      BY Zenon, <2>0, <3>1
  <2>2. PICK x \in S : TRUE
    BY Zenon
  <2>3. B[x] \in T
    BY <2>2, Zenon
  <2> HIDE DEF T
  <2> QED
    BY <2>1, <2>3, FS_FiniteSubsetsOfFinite
<1>2. PICK t \in T : \A u \in T : <<u, t>> \notin StrictSubsetOrdering(S)
  <2> HIDE DEF T
  <2> QED
    BY <1>1, FS_StrictSubsetOrderingWellFounded, WFMin, Zenon
<1>3. PICK x \in S : t = B[x]
  BY Zenon
<1>4. ASSUME NEW y \in B[x] PROVE FALSE
  <2>1. y \in S /\ B[y] \in SUBSET S /\ B[x] \in SUBSET S
    BY Zenon
  <2>2. B[y] \subseteq B[x] /\ y \notin B[y] /\ B[y] \in T
    BY <2>1, Zenon
  <2>3. <<B[y], B[x]>> \in StrictSubsetOrdering(S)
    BY Zenon, <2>1, <2>2 DEF StrictSubsetOrdering
  <2> QED
    BY <1>2, <1>3, <2>2, <2>3, Zenon
<1> QED
  BY <1>4

(* A finite set of positions has a first one.                              *)
LEMMA Least ==
    ASSUME NEW S \in SUBSET Positions, IsFiniteSet(S), S # {}
    PROVE  \E x \in S : \A y \in S : ~Before(y, x)
<1> DEFINE B == [x \in S |-> {y \in S : Before(y, x)}]
<1>1. B \in [S -> SUBSET S]
  BY Zenon
<1>2. ASSUME NEW x \in S, NEW y \in B[x] PROVE B[y] \subseteq B[x] /\ y \notin B[y]
  BY Zenon, <1>2, BeforeOrders
<1>3. PICK x \in S : B[x] = {}
  <2> HIDE DEF B
  <2> QED
    BY Zenon, <1>1, <1>2, Bottom
<1> QED
  BY Zenon, <1>3

(* And a last one, which Last yields.                                      *)
LEMMA LastIsLast ==
    ASSUME NEW S \in SUBSET Positions, IsFiniteSet(S), S # {}
    PROVE  Last(S) \in S /\ \A y \in S : ~Before(Last(S), y)
<1> DEFINE B == [x \in S |-> {y \in S : Before(x, y)}]
<1>1. B \in [S -> SUBSET S]
  BY Zenon
<1>2. ASSUME NEW x \in S, NEW y \in B[x] PROVE B[y] \subseteq B[x] /\ y \notin B[y]
  BY Zenon, <1>2, BeforeOrders
<1>3. PICK x \in S : B[x] = {}
  <2> HIDE DEF B
  <2> QED
    BY Zenon, <1>1, <1>2, Bottom
<1>4. \A y \in S : ~Before(x, y)
  BY Zenon, <1>3
<1> QED
  BY <1>4, Zenon DEF Last

-----------------------------------------------------------------------------
(* The first n of a set.                                                   *)
Earlier(S, x) == {y \in S : Before(y, x)}

(* The number of earlier elements is a natural number.                     *)
LEMMA EarlierCount ==
    ASSUME NEW S, IsFiniteSet(S), NEW x
    PROVE  /\ Earlier(S, x) \in SUBSET S /\ IsFiniteSet(Earlier(S, x))
           /\ Cardinality(Earlier(S, x)) \in Nat
<1>1. Earlier(S, x) \in SUBSET S
  BY Zenon DEF Earlier
<1> QED
  BY Zenon, <1>1, FS_Subset, FS_CardinalityType

(* First, with the earlier elements named.                                 *)
LEMMA FirstIs ==
    ASSUME NEW S, NEW n
    PROVE  First(S, n) = {x \in S : Cardinality(Earlier(S, x)) < n}
BY Zenon DEF First, Earlier

(* What precedes one of the first n is one of them.                        *)
LEMMA FirstDown ==
    ASSUME NEW S \in SUBSET Positions, IsFiniteSet(S), NEW n \in Nat,
           NEW x \in First(S, n), NEW y \in S, Before(y, x)
    PROVE  y \in First(S, n)
<1>1. x \in S /\ Cardinality(Earlier(S, x)) < n
  BY Zenon, FirstIs
<1>2. Earlier(S, y) \in SUBSET Earlier(S, x)
  <2>1. \A z \in S : Before(z, y) => Before(z, x)
    BY Zenon, <1>1, BeforeOrders
  <2> QED
    BY Zenon, <2>1 DEF Earlier
<1>3. Cardinality(Earlier(S, y)) <= Cardinality(Earlier(S, x))
  BY Zenon, <1>2, EarlierCount, FS_Subset
<1>4. Cardinality(Earlier(S, x)) \in Nat /\ Cardinality(Earlier(S, y)) \in Nat
  BY Zenon, EarlierCount
<1>5. Cardinality(Earlier(S, y)) < n
  BY <1>1, <1>3, <1>4
<1> QED
  BY Zenon, <1>5, FirstIs

(* Taking at least one from what is not empty yields something.            *)
LEMMA FirstSome ==
    ASSUME NEW S \in SUBSET Positions, IsFiniteSet(S), S # {}, NEW n \in Nat \ {0}
    PROVE  First(S, n) # {}
<1>1. PICK x \in S : \A y \in S : ~Before(y, x)
  BY Zenon, Least
<1>2. Earlier(S, x) = {}
  BY Zenon, <1>1 DEF Earlier
<1>3. Cardinality(Earlier(S, x)) < n
  BY <1>2, FS_EmptySet
<1> QED
  BY Zenon, <1>3, FirstIs

(* What is left out comes after more than n - 1 that are not.              *)
LEMMA FirstLeaves ==
    ASSUME NEW S \in SUBSET Positions, IsFiniteSet(S), NEW n \in Nat, First(S, n) # S
    PROVE  Cardinality(First(S, n)) >= n
<1> DEFINE F == First(S, n)
<1>1. F \in SUBSET S /\ S \ F # {} /\ S \ F \in SUBSET Positions
  BY Zenon, FirstIs
<1>2. IsFiniteSet(S \ F) /\ IsFiniteSet(F)
  BY Zenon, <1>1, FS_Subset
<1>3. PICK z \in S \ F : \A y \in S \ F : ~Before(y, z)
  BY Zenon, <1>1, <1>2, Least
<1>4. Earlier(S, z) = F
  <2>1. ASSUME NEW y \in F PROVE Before(y, z)
    <3>1. ~Before(z, y)
      BY Zenon, <1>3, FirstDown
    <3>2. y # z /\ y \in Positions /\ z \in Positions
      BY Zenon, <1>1, <1>3
    <3> QED
      BY Zenon, <3>1, <3>2, BeforeOrders
  <2>2. \A y \in S : Before(y, z) => y \in F
    BY Zenon, <1>3
  <2> QED
    BY Zenon, <1>1, <2>1, <2>2 DEF Earlier
<1>5. ~(Cardinality(Earlier(S, z)) < n)
  BY Zenon, <1>3, FirstIs
<1>6. Cardinality(F) \in Nat
  BY Zenon, <1>2, FS_CardinalityType
<1> QED
  BY <1>4, <1>5, <1>6

(* Taking n yields no more than that, and everything if there is no more.  *)
LEMMA FirstAll ==
    ASSUME NEW S \in SUBSET Positions, IsFiniteSet(S), NEW n \in Nat, First(S, n) = S
    PROVE  Cardinality(S) <= n
<1>1. CASE S = {}
  BY <1>1, FS_EmptySet
<1>2. CASE S # {}
  <2>1. Last(S) \in S /\ \A y \in S : ~Before(Last(S), y)
    BY Zenon, <1>2, LastIsLast
  <2>2. Earlier(S, Last(S)) = S \ {Last(S)}
    <3>1. \A y \in S : y # Last(S) => Before(y, Last(S))
      BY Zenon, <2>1, BeforeOrders
    <3>2. ~Before(Last(S), Last(S))
      BY Zenon, <2>1
    <3> QED
      BY Zenon, <3>1, <3>2 DEF Earlier
  <2>3. Cardinality(S \ {Last(S)}) = Cardinality(S) - 1
    BY Zenon, <2>1, FS_RemoveElement
  <2>4. Cardinality(Earlier(S, Last(S))) < n
    BY Zenon, <2>1, FirstIs
  <2> QED
    BY <2>2, <2>3, <2>4, FS_CardinalityType
<1> QED
  BY Zenon, <1>1, <1>2

-----------------------------------------------------------------------------
(* What a page owes: R are the positions it could examine, M those that    *)
(* match.  With more to come, it holds the matches up to its cursor.       *)
Pages(R, M, page) ==
    /\ page.hits \subseteq M
    /\ page.more => page.last \in R /\ \A x \in M : x \in page.hits <=> ~Before(page.last, x)
    /\ ~page.more => page.hits = M

(* The matches up to the last of a set that is closed downwards.           *)
LEMMA UpToLast ==
    ASSUME NEW S \in SUBSET Positions, NEW F \in SUBSET S, IsFiniteSet(S), F # {},
           \A x \in F, y \in S : Before(y, x) => y \in F
    PROVE  Last(F) \in F /\ \A x \in S : x \in F <=> ~Before(Last(F), x)
<1>1. Last(F) \in F /\ \A y \in F : ~Before(Last(F), y)
  <2>1. IsFiniteSet(F) /\ F \in SUBSET Positions
    BY Zenon, FS_Subset
  <2> QED
    BY Zenon, <2>1, LastIsLast
<1>2. ASSUME NEW x \in S, ~Before(Last(F), x) PROVE x \in F
  <2>1. x \in Positions /\ Last(F) \in Positions
    BY Zenon, <1>1
  <2>2. x = Last(F) \/ Before(x, Last(F))
    BY Zenon, <1>2, <2>1, BeforeOrders
  <2> QED
    BY Zenon, <1>1, <2>2
<1> QED
  BY Zenon, <1>1, <1>2

(* The loops of queryDocsCtx and queryRangePage, which read one entry more *)
(* than the limit, make such pages.                                        *)
LEMMA CutPages ==
    ASSUME NEW S \in SUBSET Positions, IsFiniteSet(S), NEW limit \in Nat \ {0}
    PROVE  Pages(S, S, Cut(S, limit))
<1> DEFINE seen == First(S, limit + 1)
           kept == First(seen, limit)
           page == Cut(S, limit)
<1>0. /\ page.hits = kept /\ page.more = (seen # kept)
      /\ page.last = IF kept = {} THEN Start ELSE Last(kept)
  BY Zenon DEF Cut
<1> HIDE DEF page
<1>1. seen \in SUBSET S /\ kept \in SUBSET seen /\ seen \in SUBSET Positions /\ kept \in SUBSET S
  BY Zenon, FirstIs
<1>2. IsFiniteSet(seen) /\ IsFiniteSet(kept)
  BY Zenon, <1>1, FS_Subset
<1>3. ASSUME NEW x \in kept, NEW y \in S, Before(y, x) PROVE y \in kept
  <2>1. y \in seen
    BY <1>1, <1>3, FirstDown
  <2> QED
    BY Zenon, <1>1, <1>2, <1>3, <2>1, FirstDown
<1>4. ASSUME seen # kept PROVE kept # {}
  <2>1. seen # {}
    BY Zenon, <1>1, <1>4
  <2> QED
    BY Zenon, <1>1, <1>2, <2>1, FirstSome
<1>5. ASSUME seen = kept PROVE kept = S
  <2>1. Cardinality(seen) <= limit /\ Cardinality(seen) \in Nat
    BY Zenon, <1>1, <1>2, <1>5, FirstAll, FS_CardinalityType
  <2>2. ASSUME seen # S PROVE FALSE
    <3>1. Cardinality(seen) >= limit + 1
      BY <2>2, FirstLeaves
    <3> QED
      BY <2>1, <3>1
  <2> QED
    BY Zenon, <1>5, <2>2
<1> HIDE DEF seen, kept
<1>6. ASSUME seen # kept
      PROVE  page.last \in S /\ \A x \in S : x \in kept <=> ~Before(page.last, x)
  <2>1. Last(kept) \in kept /\ \A x \in S : x \in kept <=> ~Before(Last(kept), x)
    BY Zenon, <1>1, <1>3, <1>4, <1>6, UpToLast
  <2> QED
    BY Zenon, <1>0, <1>1, <1>4, <1>6, <2>1
<1> QED
  BY Zenon, <1>0, <1>1, <1>5, <1>6 DEF Pages, page

(* The scan of queryPathDocs makes such a page too: cut off at the work    *)
(* limit it goes on from the last document examined, filled up it goes on  *)
(* from its last hit.                                                      *)
LEMMA ScanPages ==
    ASSUME NEW R \in SUBSET Positions, IsFiniteSet(R), NEW M \in SUBSET R,
           NEW limit \in Nat \ {0}, NEW page,
           LET window == First(R, maxScanDocs)
               found == window \cap M
           IN  page = IF Cardinality(found) > limit
                      THEN [hits |-> First(found, limit), more |-> TRUE,
                            last |-> Last(First(found, limit))]
                      ELSE [hits |-> found, more |-> window # R,
                            last |-> IF window = {} THEN Start ELSE Last(window)]
    PROVE  Pages(R, M, page)
<1> DEFINE window == First(R, maxScanDocs)
           found == window \cap M
           kept == First(found, limit)
<1>0. maxScanDocs \in Nat \ {0}
  BY Zenon, PagingAssumption
<1>1. /\ window \in SUBSET R /\ found \in SUBSET window /\ kept \in SUBSET found
      /\ found \in SUBSET Positions /\ found \in SUBSET M
  BY Zenon, FirstIs
<1>2. IsFiniteSet(window) /\ IsFiniteSet(found) /\ IsFiniteSet(kept) /\ IsFiniteSet(M)
  BY Zenon, <1>1, FS_Subset
<1>3. ASSUME NEW x \in window, NEW y \in R, Before(y, x) PROVE y \in window
  BY Zenon, <1>0, <1>3, FirstDown
<1>4. ASSUME NEW x \in kept, NEW y \in M, Before(y, x) PROVE y \in kept
  <2>1. y \in found
    BY Zenon, <1>1, <1>3, <1>4
  <2> QED
    BY Zenon, <1>1, <1>2, <1>4, <2>1, FirstDown
<1>5. CASE Cardinality(found) > limit
  <2>1. page.hits = kept /\ page.more = TRUE /\ page.last = Last(kept)
    BY <1>5, Zenon
  <2>2. found # {}
    BY <1>5, FS_EmptySet
  <2>3. kept # {}
    BY Zenon, <1>1, <1>2, <2>2, FirstSome
  <2>4. kept \in SUBSET M /\ M \in SUBSET Positions
    BY Zenon, <1>1
  <2> HIDE DEF kept, found, window
  <2>5. Last(kept) \in kept /\ \A x \in M : x \in kept <=> ~Before(Last(kept), x)
    BY Zenon, <1>2, <1>4, <2>3, <2>4, UpToLast
  <2> QED
    BY Zenon, <2>1, <2>4, <2>5 DEF Pages
<1>6. CASE ~(Cardinality(found) > limit)
  <2>1. /\ page.hits = found /\ page.more = (window # R)
        /\ page.last = IF window = {} THEN Start ELSE Last(window)
    BY <1>6, Zenon
  <2>2. ASSUME window # R PROVE window # {}
    <3>1. R # {}
      BY Zenon, <1>1, <2>2
    <3> QED
      BY Zenon, <1>0, <3>1, FirstSome
  <2>3. ASSUME window # R
        PROVE  /\ page.last \in R
               /\ \A x \in M : x \in found <=> ~Before(page.last, x)
    <3>1. window # {} /\ page.last = Last(window)
      BY Zenon, <2>1, <2>2, <2>3
    <3> HIDE DEF window
    <3>2. Last(window) \in window /\ \A x \in R : x \in window <=> ~Before(Last(window), x)
      BY Zenon, <1>1, <1>3, <3>1, UpToLast
    <3> QED
      BY Zenon, <1>1, <3>1, <3>2
  <2>4. window = R => found = M
    BY Zenon
  <2> HIDE DEF found, window
  <2> QED
    BY Zenon, <1>1, <2>1, <2>3, <2>4 DEF Pages
<1> QED
  BY Zenon, <1>5, <1>6

-----------------------------------------------------------------------------
(* What the operators of a query mean.                                     *)

(* A type's values are neighbours,                                         *)
LEMMA TypeBounds ==
    ASSUME NEW v \in Value
    PROVE  v \in Nat /\ Type(v) \in Nat /\ Span * Type(v) <= v /\ v < Span * (Type(v) + 1)
BY SMTT(30), PagingAssumption DEF Type

(* and all between its ends are its own.                                   *)
LEMMA TypesApart ==
    ASSUME NEW v \in Value, NEW w \in Value
    PROVE  Type(v) = Type(w) <=> Span * Type(w) <= v /\ v < Span * (Type(w) + 1)
<1>1. /\ Span \in Nat \ {0} /\ Type(v) \in Nat /\ Type(w) \in Nat /\ v \in Nat
      /\ Span * Type(v) <= v /\ v < Span * (Type(v) + 1)
  BY Zenon, PagingAssumption, TypeBounds
<1>2. ASSUME NEW a \in Nat, NEW b \in Nat, a < b
      PROVE  Span * (a + 1) <= Span * b
  <2>1. b - a - 1 \in Nat /\ Span \in Nat
    BY <1>1, <1>2
  <2>2. Span * (b - a - 1) >= 0
    BY <2>1
  <2>3. Span * b = Span * (a + 1) + Span * (b - a - 1)
    BY <2>1
  <2> QED
    BY <2>1, <2>2, <2>3
<1>3. CASE Type(v) < Type(w)
  <2>1. Span * (Type(v) + 1) <= Span * Type(w)
    BY Zenon, <1>1, <1>2, <1>3
  <2> QED
    BY <1>1, <1>3, <2>1
<1>4. CASE Type(w) < Type(v)
  <2>1. Span * (Type(w) + 1) <= Span * Type(v)
    BY Zenon, <1>1, <1>2, <1>4
  <2> QED
    BY <1>1, <1>4, <2>1
<1>5. CASE Type(v) = Type(w)
  BY Zenon, <1>1, <1>5
<1> QED
  BY <1>1, <1>3, <1>4, <1>5

(* The set Good names, operator by operator.                               *)
LEMMA GoodIs ==
    ASSUME NEW q, q.value \in Value, NEW v \in Value
    PROVE  /\ q.op = "eq" => (v \in Good(q) <=> v = q.value)
           /\ q.op = "lt" => (v \in Good(q) <=> Type(v) = Type(q.value) /\ v < q.value)
           /\ q.op = "le" => (v \in Good(q) <=> Type(v) = Type(q.value) /\ v <= q.value)
           /\ q.op = "gt" => (v \in Good(q) <=> Type(v) = Type(q.value) /\ v > q.value)
           /\ q.op = "ge" => (v \in Good(q) <=> Type(v) = Type(q.value) /\ v >= q.value)
<1> DEFINE same == {w \in Value \cup Oversize : Type(w) = Type(q.value)}
           below == {w \in same : w < q.value}
<1>1. /\ q.op = "eq" => Good(q) = {q.value}
      /\ q.op = "lt" => Good(q) = below
      /\ q.op = "le" => Good(q) = below \cup {q.value}
      /\ q.op = "gt" => Good(q) = same \ (below \cup {q.value})
      /\ q.op = "ge" => Good(q) = same \ below
  BY Zenon DEF Good
<1>2. v \in Nat /\ q.value \in Nat
  BY Zenon, PagingAssumption
<1> QED
  BY <1>1, <1>2

(* The bounds of a range iterator select exactly those.                    *)
LEMMA RangeIs ==
    ASSUME NEW q, q.value \in Value, q.op \in Op, q.op # "eq", NEW v \in Value
    PROVE  LET b == RangeBounds(q.op, q.value)
           IN  v \in Good(q) <=> b.lower <= v /\ v < b.upper
<1> DEFINE b == RangeBounds(q.op, q.value)
<1>1. /\ q.op = "lt" => b.lower = Span * Type(q.value) /\ b.upper = q.value
      /\ q.op = "le" => b.lower = Span * Type(q.value) /\ b.upper = q.value + 1
      /\ q.op = "gt" => b.lower = q.value + 1 /\ b.upper = Span * (Type(q.value) + 1)
      /\ q.op = "ge" => b.lower = q.value /\ b.upper = Span * (Type(q.value) + 1)
  BY Zenon DEF RangeBounds
<1> HIDE DEF b
<1>2. q.op = "lt" \/ q.op = "le" \/ q.op = "gt" \/ q.op = "ge"
  BY Zenon DEF Op
<1> DEFINE from == Span * Type(q.value)
           to == Span * (Type(q.value) + 1)
<1>3. /\ v \in Nat /\ q.value \in Nat /\ from \in Nat /\ to \in Nat
      /\ from <= q.value /\ q.value < to
      /\ Type(v) = Type(q.value) <=> from <= v /\ v < to
  <2>1. v \in Nat /\ Span \in Nat
    BY Zenon, PagingAssumption
  <2>2. q.value \in Nat /\ Type(q.value) \in Nat /\ from <= q.value /\ q.value < to
    BY Zenon, TypeBounds
  <2>3. Type(v) = Type(q.value) <=> from <= v /\ v < to
    BY Zenon, TypesApart
  <2>4. from \in Nat /\ to \in Nat
    BY <2>1, <2>2
  <2> QED
    BY Zenon, <2>1, <2>2, <2>3, <2>4
<1>4. /\ q.op = "lt" => b.lower = from /\ b.upper = q.value
      /\ q.op = "le" => b.lower = from /\ b.upper = q.value + 1
      /\ q.op = "gt" => b.lower = q.value + 1 /\ b.upper = to
      /\ q.op = "ge" => b.lower = q.value /\ b.upper = to
  BY Zenon, <1>1
<1> HIDE DEF from, to
<1>5. v \in Good(q) <=> b.lower <= v /\ v < b.upper
  BY <1>2, <1>3, <1>4, GoodIs
<1> QED
  BY <1>5, Zenon DEF b

(* The comparison of a scan selects the documents that hold one of those   *)
(* that can be encoded.                                                    *)
LEMMA MatchIs ==
    ASSUME NEW q, q.value \in Value, q.op \in Op, NEW j
    PROVE  pathMatches(j, q) <=> Nodes[j][q.path] \cap Value \cap Good(q) # {}
<1> DEFINE P(v) == /\ Type(v) = Type(q.value)
                   /\ CASE q.op = "eq" -> v = q.value
                        [] q.op = "lt" -> v < q.value
                        [] q.op = "le" -> v <= q.value
                        [] q.op = "gt" -> v > q.value
                        [] q.op = "ge" -> v >= q.value
<1>1. ASSUME NEW v \in Value
      PROVE  P(v) <=> v \in Good(q)
  <2>1. /\ q.op = "eq" => (P(v) <=> Type(v) = Type(q.value) /\ v = q.value)
        /\ q.op = "lt" => (P(v) <=> Type(v) = Type(q.value) /\ v < q.value)
        /\ q.op = "le" => (P(v) <=> Type(v) = Type(q.value) /\ v <= q.value)
        /\ q.op = "gt" => (P(v) <=> Type(v) = Type(q.value) /\ v > q.value)
        /\ q.op = "ge" => (P(v) <=> Type(v) = Type(q.value) /\ v >= q.value)
    BY Zenon
  <2> HIDE DEF P
  <2>2. q.op = "eq" \/ q.op = "lt" \/ q.op = "le" \/ q.op = "gt" \/ q.op = "ge"
    BY Zenon DEF Op
  <2> QED
    BY Zenon, <2>1, <2>2, GoodIs
<1>2. pathMatches(j, q) <=> \E v \in Nodes[j][q.path] : v \in Value /\ P(v)
  BY Zenon DEF pathMatches
<1> HIDE DEF P
<1> QED
  BY Zenon, <1>1, <1>2

-----------------------------------------------------------------------------
(* What a page returns.                                                    *)

(* The path a plan reads: the query's, or that of the index it goes by;    *)
(* and what it chooses among the scalars it can encode.                    *)
PlanPath(q, n) == IF n = NoIndex THEN q.path ELSE db.defs[n]
Chosen(q, n, i) == Nodes[db.docs[i]][PlanPath(q, n)] \cap Value \cap Good(q)

(* The positions of all documents in the order of the plan.                *)
Spots == ({0} \cup Value) \X Live

(* The hits of all pages together, and the positions they may examine.     *)
Hits(q, n) ==
    {x \in Spots : IF n = NoIndex \/ q.op = "eq"
                   THEN x[1] = 0 /\ Chosen(q, n, x[2]) # {}
                   ELSE x[1] \in Chosen(q, n, x[2])}
Examined(q, n) == IF n = NoIndex THEN {0} \X Live ELSE Hits(q, n)

PathKnown(n) == n # NoIndex => db.defs[n] # NoPath

(* A query with a plan: GET always names an index.                         *)
Planned(q, n) ==
    /\ q \in Queries /\ n \in IndexName \cup {NoIndex} /\ PathKnown(n)
    /\ q.method = "GET" => n = q.index

(* The fields every query has.                                             *)
LEMMA QueryFields ==
    ASSUME NEW q \in Queries
    PROVE  /\ q.op \in Op /\ q.value \in Value /\ q.limit \in Nat \ {0}
           /\ q.method = "GET" \/ q.method = "QUERY"
           /\ q.method = "GET" => q.index \in IndexName
           /\ q.method = "QUERY" => q.path \in Path
BY Zenon, QueriesAssumption DEF docQuery, pathQuery

(* The documents of a database, and what a plan reads in them.             *)
LEMMA PlanReads ==
    ASSUME TypeOK, NEW q, NEW n, Planned(q, n), NEW i \in Live
    PROVE  /\ i \in Id /\ db.docs[i] \in Json
           /\ PlanPath(q, n) \in Path
           /\ Nodes[db.docs[i]][PlanPath(q, n)] \in SUBSET (Value \cup Oversize)
<1>1. i \in Id /\ db.docs[i] \in Json
  BY Zenon DEF TypeOK, Live
<1>2. PlanPath(q, n) \in Path
  <2>1. CASE n = NoIndex
    <3>1. q.method = "QUERY"
      BY Zenon, <2>1, QueryFields, PagingAssumption DEF Planned
    <3> QED
      BY Zenon, <2>1, <3>1, QueryFields DEF Planned, PlanPath
  <2>2. CASE n # NoIndex
    <3>1. n \in IndexName /\ db.defs[n] # NoPath
      BY Zenon, <2>2 DEF Planned, PathKnown
    <3>2. db.defs[n] \in Singular
      BY Zenon, <3>1 DEF TypeOK
    <3> QED
      BY Zenon, <2>2, <3>2, PagingAssumption DEF PlanPath
  <2> QED
    BY Zenon, <2>1, <2>2
<1> QED
  BY <1>1, <1>2, PagingAssumption

(* They are positions, finitely many.                                      *)
LEMMA HitsAreSpots ==
    ASSUME NEW q, NEW n
    PROVE  /\ Spots \in SUBSET Positions /\ IsFiniteSet(Spots)
           /\ Hits(q, n) \in SUBSET Spots /\ Examined(q, n) \in SUBSET Spots
           /\ Hits(q, n) \in SUBSET Examined(q, n)
<1>1. Hits(q, n) \in SUBSET Spots /\ Examined(q, n) \in SUBSET Spots
  BY Zenon DEF Hits, Examined, Spots
<1>2. Spots \in SUBSET Positions
  <2>1. Value \in SUBSET Nat /\ Id \in SUBSET Nat
    BY Zenon, PagingAssumption
  <2>2. Live \in SUBSET Id
    BY Zenon DEF Live
  <2>3. 0 \in Nat
    BY Zenon
  <2> QED
    BY Zenon, <2>1, <2>2, <2>3 DEF Spots, Positions
<1>3. IsFiniteSet(Spots)
  <2>1. IsFiniteSet(Live)
    BY Zenon, PagingAssumption, FS_Subset DEF Live
  <2>2. IsFiniteSet({0} \cup Value)
    BY Zenon, PagingAssumption, FS_Singleton, FS_Union
  <2> QED
    BY Zenon, <2>1, <2>2, FS_Product DEF Spots
<1>4. Hits(q, n) \in SUBSET Examined(q, n)
  BY Zenon DEF Hits, Examined, Spots
<1> QED
  BY Zenon, <1>1, <1>2, <1>3, <1>4

(* What comes after a position.                                            *)
LEMMA AfterIn ==
    ASSUME NEW q, NEW n, NEW after
    PROVE  LET R == After(Examined(q, n), after)
               M == After(Hits(q, n), after)
           IN  R \in SUBSET Positions /\ IsFiniteSet(R) /\ M \in SUBSET R
<1>1. After(Examined(q, n), after) \in SUBSET Spots
  BY Zenon, HitsAreSpots DEF After
<1>2. IsFiniteSet(After(Examined(q, n), after))
  BY Zenon, <1>1, HitsAreSpots, FS_Subset
<1>3. After(Hits(q, n), after) \in SUBSET After(Examined(q, n), after)
  BY Zenon, HitsAreSpots DEF After
<1> QED
  BY Zenon, <1>1, <1>2, <1>3, HitsAreSpots

(* An index page walks through the hits: the entries of one value for an   *)
(* equality, those within the iterator's bounds for a range.               *)
LEMMA IndexPage ==
    ASSUME TypeOK, NEW q, NEW n, Planned(q, n), n # NoIndex, NEW after
    PROVE  Page(q, n, after) = Cut(After(Hits(q, n), after), q.limit)
<1> DEFINE N(i) == Nodes[db.docs[i]][db.defs[n]] \cap Value
<1>0. /\ q.op \in Op /\ q.value \in Value
      /\ \A i \in Live : N(i) \in SUBSET Value /\ Chosen(q, n, i) = N(i) \cap Good(q)
  <2>1. \A i \in Live : N(i) \in SUBSET Value
    BY Zenon
  <2>2. PlanPath(q, n) = db.defs[n]
    BY Zenon DEF PlanPath
  <2>3. q \in Queries
    BY Zenon DEF Planned
  <2> QED
    BY Zenon, <2>1, <2>2, <2>3, QueryFields DEF Chosen
<1>1. Entries(n) = {e \in Value \X Live : e[1] \in N(e[2])}
  BY Zenon DEF Entries
<1> HIDE DEF N
<1>2. CASE q.op = "eq"
  <2> DEFINE E == {<<0, i>> : i \in {i \in Live : <<q.value, i>> \in Entries(n)}}
  <2>1. Page(q, n, after) = Cut(After(E, after), q.limit)
    BY <1>2, Zenon DEF Page, queryDocsCtx
  <2>2. \A i \in Live : <<q.value, i>> \in Entries(n) <=> Chosen(q, n, i) # {}
    <3>1. \A v \in Value : v \in Good(q) <=> v = q.value
      BY Zenon, <1>0, <1>2, GoodIs
    <3> QED
      BY ZenonT(30), <1>0, <1>1, <3>1
  <2>3. E = {<<0, i>> : i \in {i \in Live : Chosen(q, n, i) # {}}}
    BY Zenon, <2>2
  <2>4. Hits(q, n) = {x \in Spots : x[1] = 0 /\ Chosen(q, n, x[2]) # {}}
    BY Zenon, <1>2 DEF Hits
  <2> HIDE DEF E
  <2>5. E = Hits(q, n)
    BY <2>3, <2>4 DEF Spots
  <2> QED
    BY Zenon, <2>1, <2>5
<1>3. CASE q.op # "eq"
  <2> DEFINE b == RangeBounds(q.op, q.value)
             E == {e \in Entries(n) : b.lower <= e[1] /\ e[1] < b.upper}
  <2>1. Page(q, n, after) = Cut(After(E, after), q.limit)
    BY <1>3, Zenon DEF Page, queryRangePage
  <2>2. \A v \in Value : v \in Good(q) <=> b.lower <= v /\ v < b.upper
    BY Zenon, <1>0, <1>3, RangeIs
  <2>3. Hits(q, n) = {x \in Spots : x[1] \in Chosen(q, n, x[2])}
    BY Zenon, <1>3 DEF Hits
  <2> HIDE DEF b
  <2>4. E = Hits(q, n)
    BY ZenonT(30), <1>0, <1>1, <2>2, <2>3 DEF Spots
  <2> QED
    BY Zenon, <2>1, <2>4
<1> QED
  BY Zenon, <1>2, <1>3

(* A page returns the hits after its cursor up to its own, all of them if  *)
(* there is no more.                                                       *)
LEMMA PageIs ==
    ASSUME TypeOK, NEW q, NEW n, Planned(q, n), NEW after
    PROVE  Pages(After(Examined(q, n), after), After(Hits(q, n), after), Page(q, n, after))
<1> DEFINE R == After(Examined(q, n), after)
           M == After(Hits(q, n), after)
<1>0. q \in Queries /\ q.limit \in Nat \ {0} /\ q.op \in Op /\ q.value \in Value
  BY Zenon, QueryFields DEF Planned
<1>1. R \in SUBSET Positions /\ IsFiniteSet(R) /\ M \in SUBSET R
  BY Zenon, AfterIn
<1>2. CASE n # NoIndex
  <2>1. R = M
    BY Zenon, <1>2 DEF Examined
  <2>2. Page(q, n, after) = Cut(M, q.limit)
    BY Zenon, <1>2, IndexPage
  <2> HIDE DEF R, M
  <2>3. Pages(M, M, Cut(M, q.limit))
    BY Zenon, <1>0, <1>1, <2>1, CutPages
  <2>4. Pages(R, M, Page(q, n, after))
    BY Zenon, <2>1, <2>2, <2>3
  <2> QED
    BY Zenon, <2>4 DEF R, M
<1>3. CASE n = NoIndex
  <2> DEFINE rest == After({<<0, i>> : i \in Live}, after)
             window == First(rest, maxScanDocs)
             found == {x \in window : pathMatches(db.docs[x[2]], q)}
             page == Page(q, n, after)
  <2>1. page = IF Cardinality(found) > q.limit
               THEN [hits |-> First(found, q.limit), more |-> TRUE,
                     last |-> Last(First(found, q.limit))]
               ELSE [hits |-> found, more |-> window # rest,
                     last |-> IF window = {} THEN Start ELSE Last(window)]
    BY <1>3, Zenon DEF Page, queryPathDocs
  <2>2. rest = R
    <3>1. {<<0, i>> : i \in Live} = {0} \X Live
      BY SMTT(30)
    <3> QED
      BY Zenon, <1>3, <3>1 DEF Examined
  <2>3. \A x \in R : x \in M <=> pathMatches(db.docs[x[2]], q)
    <3>1. \A x \in R : x[2] \in Live /\ x[1] = 0 /\ x \in Spots /\ Before(after, x)
      BY Zenon, <1>3 DEF After, Examined, Spots
    <3>2. ASSUME NEW i \in Live PROVE pathMatches(db.docs[i], q) <=> Chosen(q, n, i) # {}
      <4>1. PlanPath(q, n) = q.path
        BY Zenon, <1>3 DEF PlanPath
      <4> QED
        BY Zenon, <1>0, <4>1, MatchIs DEF Chosen
    <3>3. \A x \in R : x \in M <=> x[1] = 0 /\ Chosen(q, n, x[2]) # {}
      BY Zenon, <1>3, <3>1 DEF After, Hits
    <3> QED
      BY Zenon, <3>1, <3>2, <3>3
  <2> HIDE DEF page
  <2>4. window = First(R, maxScanDocs) /\ window \in SUBSET R
    <3>1. window \in SUBSET rest
      BY Zenon, FirstIs
    <3> QED
      BY Zenon, <2>2, <3>1
  <2>5. found = window \cap M
    BY Zenon, <2>3, <2>4
  <2> HIDE DEF found, window, rest, R, M
  <2>6. Pages(R, M, page)
    <3> DEFINE w == First(R, maxScanDocs)
               f == w \cap M
    <3>1. w = window /\ f = found /\ rest = R
      BY Zenon, <2>2, <2>4, <2>5
    <3> HIDE DEF w, f
    <3>2. page = IF Cardinality(f) > q.limit
                 THEN [hits |-> First(f, q.limit), more |-> TRUE, last |-> Last(First(f, q.limit))]
                 ELSE [hits |-> f, more |-> w # R,
                       last |-> IF w = {} THEN Start ELSE Last(w)]
      BY <2>1, <3>1, Zenon
    <3> QED
      BY <1>0, <1>1, <3>2, ScanPages, Zenon DEF w, f
  <2> QED
    BY Zenon, <2>6 DEF R, M, page
<1> QED
  BY Zenon, <1>2, <1>3

(* From the start means from the first hit: value 0 and ID 0 are no        *)
(* position.                                                               *)
LEMMA FromStart ==
    ASSUME NEW x \in Spots
    PROVE  Before(Start, x) /\ Start \in Positions
<1>1. x[1] \in Nat
  BY Zenon, HitsAreSpots DEF Positions
<1>2. Id \in SUBSET (Nat \ {0})
  BY Zenon, PagingAssumption
<1>3. Live \in SUBSET Id
  BY Zenon DEF Live
<1>4. x[2] \in Nat \ {0}
  BY Zenon, <1>2, <1>3 DEF Spots
<1> QED
  BY <1>1, <1>4 DEF Before, Start, Positions

(* A document is hit at most once: an index is on a path that selects at   *)
(* most one value.                                                         *)
LEMMA OneHit ==
    ASSUME TypeOK, NEW q, NEW n, Planned(q, n),
           NEW x \in Hits(q, n), NEW y \in Hits(q, n), x[2] = y[2]
    PROVE  x = y
<1>1. /\ x \in Spots /\ y \in Spots /\ x[2] \in Live
      /\ x = <<x[1], x[2]>> /\ y = <<y[1], y[2]>>
  BY DEF Hits, Spots
<1>2. CASE n = NoIndex \/ q.op = "eq"
  BY Zenon, <1>1, <1>2 DEF Hits
<1>3. CASE ~(n = NoIndex \/ q.op = "eq")
  <2> DEFINE N == Nodes[db.docs[x[2]]][db.defs[n]]
  <2>1. x[1] \in N /\ y[1] \in N
    BY Zenon, <1>3 DEF Hits, Chosen, PlanPath
  <2>2. db.docs[x[2]] \in Json /\ db.defs[n] \in Singular
    <3>1. n \in IndexName /\ db.defs[n] # NoPath
      BY Zenon, <1>3 DEF Planned, PathKnown
    <3> QED
      BY Zenon, <1>1, <3>1, PlanReads DEF TypeOK
  <2>3. N \in SUBSET (Value \cup Oversize) /\ Cardinality(N) <= 1
    BY SMTT(30), <2>2, PagingAssumption
  <2> HIDE DEF N
  <2>4. IsFiniteSet(N) /\ Cardinality(N) \in Nat
    BY Zenon, <2>3, PagingAssumption, FS_Union, FS_Subset, FS_CardinalityType
  <2>5. Cardinality(N) = 1
    BY <2>1, <2>3, <2>4, FS_EmptySet
  <2>6. PICK v : N = {v}
    BY Zenon, <2>4, <2>5, FS_Singleton
  <2> QED
    BY Zenon, <1>1, <2>1, <2>6
<1> QED
  BY Zenon, <1>2, <1>3

(* A plan that reads the path of the query hits what satisfies it by a     *)
(* scalar that can be encoded.                                             *)
LEMMA HitsSatisfy ==
    ASSUME TypeOK, NEW q, NEW n, Planned(q, n), PlanPath(q, n) = PathOf(q)
    PROVE  /\ {x[2] : x \in Hits(q, n)} \subseteq Satisfying(q)
           /\ \A i \in Satisfying(q) :
                Nodes[db.docs[i]][PathOf(q)] \cap Good(q) \cap Value # {} =>
                    i \in {x[2] : x \in Hits(q, n)}
<1>1. PathOf(q) # NoPath \/ Live = {}
  BY PlanReads, PagingAssumption
<1>2. ASSUME NEW i \in Satisfying(q),
             Nodes[db.docs[i]][PathOf(q)] \cap Good(q) \cap Value # {}
      PROVE  \E x \in Hits(q, n) : i = x[2]
  <2>1. i \in Live /\ Chosen(q, n, i) # {}
    BY Zenon, <1>2 DEF Satisfying, Chosen
  <2>2. CASE n = NoIndex \/ q.op = "eq"
    <3>1. <<0, i>> \in Hits(q, n)
      BY Zenon, <2>1, <2>2 DEF Hits, Spots
    <3> QED
      BY Zenon, <3>1
  <2>3. CASE ~(n = NoIndex \/ q.op = "eq")
    <3>1. PICK v \in Chosen(q, n, i) : TRUE
      BY Zenon, <2>1
    <3>2. v \in Value
      BY Zenon DEF Chosen
    <3>3. <<v, i>> \in Hits(q, n)
      BY Zenon, <2>1, <2>3, <3>1, <3>2 DEF Hits, Spots
    <3> QED
      BY Zenon, <3>3
  <2> QED
    BY Zenon, <2>2, <2>3
<1>3. ASSUME NEW x \in Hits(q, n) PROVE x[2] \in Satisfying(q)
  <2>1. x[2] \in Live /\ Chosen(q, n, x[2]) # {}
    BY Zenon, <1>3 DEF Hits, Spots
  <2> QED
    BY Zenon, <1>1, <2>1 DEF Satisfying, Chosen
<1> QED
  BY Zenon, <1>2, <1>3

(* A cursor's query asks the same as the query it was issued for.          *)
LEMMA BoundFields ==
    ASSUME NEW q \in Queries
    PROVE  /\ Bound(q).op = q.op /\ Bound(q).value = q.value /\ Bound(q).method = q.method
           /\ q.method = "GET" => Bound(q).index = q.index
           /\ q.method = "QUERY" => Bound(q).path = q.path
<1>1. /\ {"op", "value", "method"} \subseteq DOMAIN q \ {"limit"}
      /\ q.method = "GET" => "index" \in DOMAIN q \ {"limit"}
      /\ q.method = "QUERY" => "path" \in DOMAIN q \ {"limit"}
  BY Zenon, QueriesAssumption DEF docQuery, pathQuery
<1> QED
  BY Zenon, <1>1 DEF Bound

(* What a cursor token is bound to asks for the same documents as the      *)
(* query: only the limit is left out.                                      *)
LEMMA BoundAsksTheSame ==
    ASSUME NEW q \in Queries
    PROVE  /\ Satisfying(Bound(q)) = Satisfying(q)
           /\ \A n : Planned(q, n) => Hits(Bound(q), n) = Hits(q, n)
<1>1. Good(Bound(q)) = Good(q)
  BY BoundFields, Zenon DEF Good
<1>2. PathOf(Bound(q)) = PathOf(q)
  BY Zenon, BoundFields, QueryFields DEF PathOf
<1>3. ASSUME NEW n, Planned(q, n) PROVE PlanPath(Bound(q), n) = PlanPath(q, n)
  <2>1. CASE n = NoIndex
    <3>1. q.method = "QUERY"
      BY Zenon, <1>3, <2>1, QueryFields, PagingAssumption DEF Planned
    <3> QED
      BY Zenon, <2>1, <3>1, BoundFields DEF PlanPath
  <2> QED
    BY Zenon, <2>1 DEF PlanPath
<1>4. Satisfying(Bound(q)) = Satisfying(q)
  BY <1>1, <1>2, Zenon DEF Satisfying
<1>5. ASSUME NEW n, Planned(q, n) PROVE Hits(Bound(q), n) = Hits(q, n)
  <2>1. \A i : Chosen(Bound(q), n, i) = Chosen(q, n, i)
    BY <1>1, <1>3, <1>5, Zenon DEF Chosen
  <2>2. Bound(q).op = q.op
    BY Zenon, BoundFields
  <2> QED
    BY Zenon, <2>1, <2>2 DEF Hits
<1> QED
  BY Zenon, <1>4, <1>5

-----------------------------------------------------------------------------
(* One page after another.  A cursor at pos divides the hits H: of those   *)
(* that have matched unchanged, still, the ones up to it have been got.    *)
Divides(pos, H, still, got) ==
    \A x \in H : x[2] \in still => (x[2] \in got <=> ~Before(pos, x))
OnePerId(H) == \A x \in H, y \in H : x[2] = y[2] => x = y
IdsOf(S) == {x[2] : x \in S}
Beyond(pos, R) == \A x \in R : Before(pos, x)

(* A page after the cursor, of positions R it examined.                    *)
Continues(page, R, H, after, still, got) ==
    /\ H \subseteq Positions /\ R \subseteq Positions /\ after \in Positions
    /\ Beyond(after, R) /\ Pages(R, After(H, after), page)
    /\ OnePerId(H) /\ Divides(after, H, still, got)

(* A page has only hits after the cursor, and their ids name just these.   *)
LEMMA PageOfIds ==
    ASSUME NEW page, NEW R, NEW H, NEW after, NEW still, NEW got,
           Continues(page, R, H, after, still, got)
    PROVE  /\ page.hits \subseteq H /\ \A x \in page.hits : Before(after, x)
           /\ \A x \in H : x[2] \in IdsOf(page.hits) <=> x \in page.hits
BY Zenon DEF Continues, Pages, After, OnePerId, IdsOf

(* It moves the division to its own cursor.                                *)
LEMMA PageDivides ==
    ASSUME NEW page, NEW R, NEW H, NEW after, NEW still, NEW got,
           Continues(page, R, H, after, still, got), page.more
    PROVE  Divides(page.last, H, still, got \cup IdsOf(page.hits))
<1>1. SUFFICES ASSUME NEW x \in H, x[2] \in still
               PROVE  x[2] \in got \cup IdsOf(page.hits) <=> ~Before(page.last, x)
  BY Zenon DEF Divides
<1>2. page.last \in R /\ (Before(after, x) => (x \in page.hits <=> ~Before(page.last, x)))
  BY Zenon DEF Continues, Pages, After
<1>3. /\ Before(after, page.last) /\ page.last \in Positions /\ x \in Positions
      /\ after \in Positions
  BY Zenon, <1>2 DEF Continues, Beyond
<1>4. Before(page.last, x) => Before(after, x)
  BY Zenon, <1>3, BeforeOrders
<1>5. x[2] \in got <=> ~Before(after, x)
  BY Zenon, <1>1 DEF Continues, Divides
<1> QED
  BY Zenon, <1>2, <1>4, <1>5, PageOfIds

(* It repeats nothing.                                                     *)
LEMMA PageIsNew ==
    ASSUME NEW page, NEW R, NEW H, NEW after, NEW still, NEW got,
           Continues(page, R, H, after, still, got)
    PROVE  got \cap IdsOf(page.hits) \cap still = {}
<1>1. ASSUME NEW i \in IdsOf(page.hits), i \in still PROVE i \notin got
  <2>1. PICK x \in page.hits : i = x[2]
    BY <1>1, Zenon DEF IdsOf
  <2>2. x \in H /\ Before(after, x)
    BY Zenon, PageOfIds
  <2> QED
    BY Zenon, <1>1, <2>1, <2>2 DEF Continues, Divides
<1> QED
  BY Zenon, <1>1

(* If it is the last, nothing is left.                                     *)
LEMMA LastPageIsRest ==
    ASSUME NEW page, NEW R, NEW H, NEW after, NEW still, NEW got,
           Continues(page, R, H, after, still, got), ~page.more
    PROVE  still \cap IdsOf(H) \subseteq got \cup IdsOf(page.hits)
<1>1. ASSUME NEW i \in still, i \in IdsOf(H) PROVE i \in got \cup IdsOf(page.hits)
  <2>1. PICK x \in H : i = x[2]
    BY Zenon, <1>1 DEF IdsOf
  <2>2. Before(after, x) => x \in page.hits
    BY Zenon DEF Continues, Pages, After
  <2>3. x[2] \in got <=> ~Before(after, x)
    BY Zenon, <1>1, <2>1 DEF Continues, Divides
  <2> QED
    BY Zenon, <2>1, <2>2, <2>3, PageOfIds
<1> QED
  BY Zenon, <1>1

-----------------------------------------------------------------------------
(* The inductive invariant.                                                *)

(* Database keys are drawn in turn; none is held that was not drawn.       *)
KeysDrawn ==
    /\ db.key <= keys
    /\ token # NoCursor => token.key <= keys
    /\ h # Idle => h.plan <= keys /\ h.key <= keys

(* What a handler has read.  A plan made for the present database is still *)
(* right.  Between the key and the page the database may be replaced, but  *)
(* then nothing has stayed the same since the first page.                  *)
Handling ==
    h # Idle =>
    /\ h.cursor \in {NoCursor, token}
    /\ h.query.method = "GET" => h.st # "plan"
    /\ h.query.method = "QUERY" /\ h.st # "plan" =>
         /\ h.plan # 0
         /\ h.plan = db.key /\ h.index # NoIndex => db.defs[h.index] = h.query.path
    /\ h.st = "run" =>
         /\ h.key # 0
         /\ h.key = db.key \/ steady = {}
         /\ h.cursor # NoCursor => /\ h.cursor.query = Bound(h.query)
                                   /\ h.cursor.index = IndexOf(h) /\ h.cursor.key = h.key

(* The client's cursor divides the hits of its session.                    *)
Session ==
    token # NoCursor /\ token.key = db.key =>
    /\ steady \subseteq Satisfying(token.query)
    /\ Divides(token.last, Hits(token.query, token.index), steady, returned)

(* Without a database there are no documents, and what an index selects    *)
(* can be encoded.                                                         *)
Indexed ==
    /\ db.key = 0 => Live = {}
    /\ \A i \in Live : Indexable(db.docs[i])

Promises == Complete /\ NoRepeat /\ Advances /\ Sound
Inv == TypeOK /\ KeysDrawn /\ Handling /\ Session /\ Indexed /\ Promises

(* No database, no query in progress, nothing returned.                    *)
LEMMA InitKeeps == Init => Inv
<1> SUFFICES ASSUME Init PROVE Inv
  BY Zenon
<1>1. NoAnswer.status # 200 /\ NoAnswer.status # 500
  BY DEF NoAnswer
<1>2. TypeOK
  BY SMTT(30), PagingAssumption DEF Init, TypeOK, Cursors
<1>3. KeysDrawn /\ Handling /\ Session
  BY DEF Init, KeysDrawn, Handling, Session
<1>4. Promises
  BY Zenon, <1>1 DEF Init, Promises, Complete, NoRepeat, Advances, Sound, Answered
<1>5. Live = {}
  BY Zenon DEF Init, Live
<1> QED
  BY Zenon, <1>2, <1>3, <1>4, <1>5 DEF Inv, Indexed

(* A request that ends without a page changes nothing the client holds.    *)
LEMMA AnswerKeeps ==
    ASSUME Inv, NEW a, a.status # 200, a.status = 500 => ~PlanHeld', Answer(a)
    PROVE  Inv'
<1> USE DEF Answer
<1>1. TypeOK'
  BY Zenon DEF Inv, TypeOK
<1>2. KeysDrawn' /\ Handling'
  BY Zenon DEF Inv, KeysDrawn, Handling
<1>3. Session' /\ Indexed'
  BY Zenon DEF Inv, Session, Satisfying, PathOf, Hits, Spots, Chosen, PlanPath, Live,
     Indexed, Indexable
<1>4. out'.status # 200 /\ (out'.status = 500 => ~PlanHeld')
  BY Zenon
<1>5. Promises'
  BY Zenon, <1>4 DEF Inv, Promises, Complete, NoRepeat, Advances, Sound, Answered
<1> QED
  BY Zenon, <1>1, <1>2, <1>3, <1>5 DEF Inv

LEMMA RefuseKeeps ==
    ASSUME Inv, NEW s, s # 200, s # 500, Refuse(s)
    PROVE  Inv'
<1>1. [status |-> s].status = s
  BY Zenon
<1> QED
  BY Zenon, <1>1, AnswerKeeps DEF Refuse

(* What the client holds, and the answer it got, stay as good as they were *)
(* when others write: documents only leave the ones that have stayed.      *)
LEMMA PromisesKept ==
    ASSUME Promises, UNCHANGED client, steady' \subseteq steady,
           \A i \in steady' : db'.docs[i] = db.docs[i]
    PROVE  Promises'
<1>1. out' = out /\ token' = token /\ returned' = returned /\ twice' = twice
  BY Zenon DEF client
<1>2. NoRepeat' /\ Advances' /\ Sound'
  <2>1. NoRepeat'
    BY Zenon, <1>1 DEF Promises, NoRepeat
  <2>2. Advances'
    BY Zenon, <1>1 DEF Promises, Advances, Answered
  <2>3. Sound'
    BY Zenon, <1>1 DEF Promises, Sound, Answered, PlanHeld
  <2> QED
    BY Zenon, <2>1, <2>2, <2>3
<1>3. ASSUME NEW i \in steady', i \in Overlooked(out.request)
      PROVE  i \in Overlooked(out.request)'
  BY Zenon, <1>1, <1>3 DEF Overlooked, Live
<1>4. Complete'
  BY Zenon, <1>1, <1>3 DEF Promises, Complete, Answered, PlanHeld
<1> QED
  BY Zenon, <1>2, <1>4 DEF Promises

(* createDB: the key is new, so no cursor or plan of an older database is  *)
(* taken for one of this.                                                  *)
LEMMA CreateDBKeeps ==
    ASSUME Inv, CreateDB
    PROVE  Inv'
<1>1. PICK defs \in Schemas : db' = [db EXCEPT !.key = keys + 1, !.defs = defs]
  BY Zenon DEF CreateDB
<1>2. /\ TypeOK /\ db.key = 0 /\ keys < MaxKey /\ keys' = keys + 1
      /\ h' = h /\ token' = token /\ out' = out
      /\ returned' = returned /\ twice' = twice /\ steady' = steady
  BY Zenon DEF Inv, CreateDB, client
<1>3. /\ defs \in [IndexName -> Singular \cup {NoPath}]
      /\ keys \in Nat /\ keys + 1 \in 0..MaxKey
  BY <1>2, PagingAssumption DEF TypeOK
<1>4. /\ db'.key = keys + 1 /\ db'.docs = db.docs
      /\ db' \in [key: 0..MaxKey, defs: [IndexName -> Singular \cup {NoPath}],
                  docs: [Id -> Json \cup {NoDoc}]]
  BY Zenon, <1>1, <1>2, <1>3 DEF TypeOK
<1>5. TypeOK'
  BY Zenon, <1>2, <1>3, <1>4 DEF TypeOK
<1>6. KeysDrawn /\ Handling /\ Session /\ Indexed /\ Promises
  BY Zenon DEF Inv
<1>7. /\ token # NoCursor => token.key \in Nat /\ token.key <= keys
      /\ h # Idle => /\ h.plan \in Nat /\ h.key \in Nat /\ h.plan <= keys /\ h.key <= keys
  BY <1>2, <1>6, PagingAssumption DEF TypeOK, KeysDrawn, Cursors, Requests
<1>8. KeysDrawn'
  BY SMTT(30), <1>2, <1>3, <1>4, <1>7 DEF KeysDrawn
<1>9. Handling'
  BY SMTT(30), <1>2, <1>3, <1>4, <1>6, <1>7 DEF Handling, IndexOf
<1>10. Session'
  BY <1>2, <1>3, <1>4, <1>7 DEF Session
<1>11. Indexed'
  BY Zenon, <1>2, <1>4, <1>6 DEF Indexed, Live
<1> QED
  BY Zenon, <1>2, <1>4, <1>5, <1>6, <1>8, <1>9, <1>10, <1>11, PromisesKept DEF Inv, client

(* deleteDB: none of the documents has stayed.                             *)
LEMMA DeleteDBKeeps ==
    ASSUME Inv, DeleteDB
    PROVE  Inv'
<1>1. /\ TypeOK /\ KeysDrawn /\ Handling /\ Promises
      /\ db' = [key |-> 0, defs |-> [n \in IndexName |-> NoPath], docs |-> [i \in Id |-> NoDoc]]
      /\ keys' = keys /\ h' = h /\ token' = token /\ out' = out
      /\ returned' = returned /\ twice' = twice /\ steady' = {}
  BY Zenon DEF Inv, DeleteDB, client
<1>2. TypeOK'
  BY <1>1, PagingAssumption DEF TypeOK
<1>3. db'.key = 0 /\ keys \in Nat
  BY <1>1 DEF TypeOK
<1>4. KeysDrawn'
  BY SMTT(30), <1>1, <1>3 DEF KeysDrawn
<1>5. Handling'
  BY Zenon, <1>1, <1>3 DEF Handling, IndexOf
<1>6. Session'
  BY <1>1, <1>3 DEF Session, TypeOK, Cursors
<1>7. Indexed'
  <2>1. Live' = {}
    BY Zenon, <1>1 DEF Live
  <2> QED
    BY Zenon, <2>1 DEF Indexed
<1> QED
  BY Zenon, <1>1, <1>2, <1>4, <1>5, <1>6, <1>7, PromisesKept DEF Inv, client

(* A document that is written or deleted leaves those that have stayed;    *)
(* all others keep their positions.                                        *)
LEMMA WriteKeeps ==
    ASSUME Inv, Write
    PROVE  Inv'
<1>1. PICK i \in Id, j \in Json \cup {NoDoc} :
        /\ db' = [db EXCEPT !.docs[i] = j] /\ steady' = steady \ {i}
        /\ j # NoDoc => Indexable(j)
  BY Zenon DEF Write
<1>2. /\ TypeOK /\ KeysDrawn /\ Handling /\ Session /\ Indexed /\ Promises
      /\ db.key # 0
      /\ keys' = keys /\ h' = h /\ token' = token /\ out' = out
      /\ returned' = returned /\ twice' = twice
  BY Zenon DEF Inv, Write, client
<1>3. /\ db'.key = db.key /\ db'.defs = db.defs /\ db'.docs[i] = j
      /\ \A k \in Id : k # i => db'.docs[k] = db.docs[k]
      /\ db' \in [key: 0..MaxKey, defs: [IndexName -> Singular \cup {NoPath}],
                  docs: [Id -> Json \cup {NoDoc}]]
  BY Zenon, <1>1, <1>2 DEF TypeOK
<1>4. TypeOK'
  BY Zenon, <1>1, <1>2, <1>3 DEF TypeOK
<1>5. KeysDrawn' /\ Handling'
  BY Zenon, <1>1, <1>2, <1>3 DEF KeysDrawn, Handling, IndexOf
<1>6. Session'
  <2> SUFFICES ASSUME token # NoCursor, token.key = db.key PROVE Session'
    BY Zenon, <1>2, <1>3 DEF Session
  <2> DEFINE q == token.query
  <2>1. q' = q /\ Good(q') = Good(q) /\ PathOf(q)' = PathOf(q)
    BY Zenon, <1>2, <1>3 DEF PathOf
  <2>2. \A k \in Id : k # i => (k \in Live' <=> k \in Live)
    BY Zenon, <1>3 DEF Live
  <2>3. ASSUME NEW k \in steady' PROVE k \in Satisfying(q)'
    <3>1. k # i /\ k \in Satisfying(q)
      BY Zenon, <1>1, <1>2, <2>3 DEF Session
    <3>2. k \in Id /\ k \in Live
      BY Zenon, <3>1 DEF Satisfying, Live
    <3> QED
      BY Zenon, <1>3, <2>1, <2>2, <3>1, <3>2 DEF Satisfying
  <2>4. ASSUME NEW x \in Hits(q, token.index)', x[2] \in steady'
        PROVE  x \in Hits(q, token.index) /\ x[2] \in steady
    <3>1. x[2] # i /\ x[2] \in steady /\ x[2] \in Id
      BY Zenon, <1>1, <1>2, <2>4 DEF TypeOK
    <3>2. db'.docs[x[2]] = db.docs[x[2]] /\ (x[2] \in Live' <=> x[2] \in Live)
      BY Zenon, <1>3, <2>2, <3>1
    <3>3. PlanPath(q, token.index)' = PlanPath(q, token.index)
      BY Zenon, <1>2, <1>3 DEF PlanPath
    <3>4. Chosen(q, token.index, x[2])' = Chosen(q, token.index, x[2])
      BY Zenon, <2>1, <3>2, <3>3 DEF Chosen
    <3> QED
      BY Zenon, <1>2, <2>4, <3>1, <3>2, <3>4 DEF Hits, Spots
  <2> QED
    BY Zenon, <1>2, <1>3, <2>3, <2>4 DEF Session, Divides
<1>7. Indexed'
  <2>1. \A d : Indexable(d)' = Indexable(d)
    BY Zenon, <1>3 DEF Indexable
  <2>2. ASSUME NEW k \in Live' PROVE Indexable(db.docs[k])'
    <3>1. k \in Id /\ db'.docs[k] # NoDoc
      BY Zenon DEF Live
    <3>2. Indexable(db'.docs[k])
      BY Zenon, <1>1, <1>2, <1>3, <3>1 DEF Indexed, Live
    <3> QED
      BY Zenon, <1>3, <3>2 DEF Indexable
  <2> QED
    BY Zenon, <1>2, <1>3, <2>2 DEF Indexed
<1>8. \A k \in steady' : db'.docs[k] = db.docs[k]
  BY Zenon, <1>1, <1>2, <1>3 DEF TypeOK
<1> QED
  BY Zenon, <1>1, <1>2, <1>4, <1>5, <1>6, <1>7, <1>8, PromisesKept DEF Inv, client

(* Steps of the handler that change nothing but the handler itself.        *)
LEMMA HandlerKeeps ==
    ASSUME Inv, UNCHANGED <<db, keys, token, returned, twice, steady>>,
           out' = out \/ out' = NoAnswer,
           h' = Idle \/ h' \in Requests,
           h' # Idle => h'.plan <= keys /\ h'.key <= keys,
           Handling'
    PROVE  Inv'
<1>1. TypeOK' /\ KeysDrawn'
  BY Zenon DEF Inv, TypeOK, KeysDrawn
<1>2. Session' /\ Indexed'
  BY Zenon DEF Inv, Session, Satisfying, PathOf, Hits, Spots, Chosen, PlanPath, Live,
     Indexed, Indexable
<1>3. CASE out' = out
  BY Zenon, <1>1, <1>2, <1>3, PromisesKept DEF Inv, client
<1>4. CASE out' = NoAnswer
  <2>1. out'.status # 200 /\ out'.status # 500
    BY <1>4 DEF NoAnswer
  <2>2. Promises'
    BY Zenon, <2>1 DEF Inv, Promises, Complete, NoRepeat, Advances, Sound, Answered
  <2> QED
    BY Zenon, <1>1, <1>2, <2>2 DEF Inv
<1> QED
  BY Zenon, <1>3, <1>4

(* A restart loses the request in progress and nothing that was committed. *)
LEMMA RestartKeeps ==
    ASSUME Inv, Restart
    PROVE  Inv'
<1>1. Handling'
  BY Zenon DEF Restart, Handling
<1> QED
  BY Zenon, <1>1, HandlerKeeps DEF Restart

(* A query arrives, with a cursor the client was given or with none.       *)
LEMMA AskKeeps ==
    ASSUME Inv, Ask
    PROVE  Inv'
<1>1. PICK q \in Queries, cursor \in {NoCursor, token} :
        h' = [st |-> IF q.method = "GET" THEN "key" ELSE "plan",
              query |-> q, cursor |-> cursor, index |-> NoIndex, plan |-> 0, key |-> 0]
  BY Zenon DEF Ask
<1>2. /\ TypeOK /\ out' = NoAnswer /\ token' = token
      /\ UNCHANGED <<db, keys, token, returned, twice, steady>>
  BY Zenon DEF Inv, Ask
<1>3. cursor \in Cursors /\ keys \in Nat /\ 0 \in 0..MaxKey
  BY <1>2, PagingAssumption DEF TypeOK, Cursors
<1>4. h' \in Requests
  BY Zenon, <1>1, <1>3 DEF Requests
<1>5. /\ h'.query = q /\ h'.cursor = cursor /\ h'.index = NoIndex /\ h'.plan = 0 /\ h'.key = 0
      /\ h'.st = IF q.method = "GET" THEN "key" ELSE "plan"
  BY Zenon, <1>1
<1>6. q.method = "GET" \/ q.method = "QUERY"
  BY Zenon, QueryFields
<1>7. Handling'
  BY Zenon, <1>2, <1>5, <1>6 DEF Handling
<1> QED
  BY SMTT(30), <1>2, <1>3, <1>4, <1>5, <1>7, HandlerKeeps

(* planPathQuery: the plan is an index of the database as it is now.       *)
LEMMA planPathQueryKeeps ==
    ASSUME Inv, planPathQuery
    PROVE  Inv'
<1>1. CASE Refuse(404)
  BY <1>1, RefuseKeeps
<1>2. CASE ~Refuse(404)
  <2> DEFINE names == {n \in IndexName : db.defs[n] = h.query.path}
             index == IF h.query.path \in Singular /\ names # {}
                      THEN CHOOSE n \in names : TRUE ELSE NoIndex
  <2>1. /\ h.st = "plan" /\ db.key # 0
        /\ h' = [h EXCEPT !.st = "key", !.plan = db.key, !.index = index]
        /\ UNCHANGED <<db, keys, token, returned, twice, steady>> /\ out' = out
    BY Zenon, <1>2 DEF planPathQuery, client
  <2>2. index \in IndexName \cup {NoIndex} /\ (index # NoIndex => db.defs[index] = h.query.path)
    BY Zenon
  <2> HIDE DEF index
  <2>3. TypeOK /\ KeysDrawn /\ Handling /\ h \in Requests
    BY <2>1 DEF Inv, TypeOK, Idle
  <2>4. db.key \in 0..MaxKey
    BY Zenon, <2>3 DEF TypeOK
  <2>5. /\ h' \in Requests /\ h'.st = "key" /\ h'.plan = db.key /\ h'.index = index
        /\ h'.query = h.query /\ h'.cursor = h.cursor /\ h'.key = h.key
    BY Zenon, <2>1, <2>2, <2>3, <2>4 DEF Requests
  <2>6. h # Idle /\ db.key <= keys /\ h.key <= keys /\ h.cursor \in {NoCursor, token}
    BY <2>1, <2>3 DEF KeysDrawn, Handling, Idle
  <2>7. Handling'
    BY Zenon, <2>1, <2>2, <2>5, <2>6 DEF Handling
  <2> QED
    BY Zenon, <2>1, <2>5, <2>6, <2>7, HandlerKeeps
<1> QED
  BY Zenon, <1>1, <1>2

(* cursorKey: the cursor is accepted for the query, the index and the      *)
(* database it was made for, and no other.                                 *)
LEMMA cursorKeyKeeps ==
    ASSUME Inv, cursorKey
    PROVE  Inv'
<1>1. CASE Refuse(404) \/ Refuse(400)
  BY <1>1, RefuseKeeps
<1>2. CASE ~(Refuse(404) \/ Refuse(400))
  <2>1. /\ h.st = "key" /\ db.key # 0 /\ Accepts(h, db.key)
        /\ h' = [h EXCEPT !.st = "run", !.key = db.key]
        /\ UNCHANGED <<db, keys, token, returned, twice, steady>> /\ out' = out
    BY Zenon, <1>2 DEF cursorKey, client
  <2>2. TypeOK /\ KeysDrawn /\ Handling /\ h \in Requests
    BY <2>1 DEF Inv, TypeOK, Idle
  <2>3. db.key \in 0..MaxKey
    BY Zenon, <2>2 DEF TypeOK
  <2>4. /\ h' \in Requests /\ h'.st = "run" /\ h'.plan = h.plan /\ h'.index = h.index
        /\ h'.query = h.query /\ h'.cursor = h.cursor /\ h'.key = db.key
    BY Zenon, <2>1, <2>2, <2>3 DEF Requests
  <2>5. h # Idle /\ db.key <= keys /\ h.plan <= keys
    BY <2>1, <2>2 DEF KeysDrawn, Idle
  <2>6. IndexOf(h)' = IndexOf(h)
    BY Zenon, <2>4 DEF IndexOf
  <2>7. h.cursor # NoCursor =>
          h.cursor.key = db.key /\ h.cursor.query = Bound(h.query) /\ h.cursor.index = IndexOf(h)
    BY Zenon, <2>1 DEF Accepts
  <2>8. Handling'
    BY Zenon, <2>1, <2>2, <2>4, <2>5, <2>6, <2>7 DEF Handling
  <2> QED
    BY Zenon, <2>1, <2>4, <2>5, <2>8, HandlerKeeps
<1> QED
  BY Zenon, <1>1, <1>2

(* What the handler knows when it reads a page: after the cursor of this   *)
(* session, or at its start.                                               *)
LEMMA ReadsPage ==
    ASSUME Inv, h.st = "run", PathKnown(IndexOf(h))
    PROVE  LET q == h.query
               n == IndexOf(h)
               after == IF h.cursor = NoCursor THEN Start ELSE h.cursor.last
           IN  /\ h \in Requests /\ h # Idle /\ q \in Queries /\ Planned(q, n)
               /\ after \in Positions
               /\ Pages(After(Examined(q, n), after), After(Hits(q, n), after), Page(q, n, after))
               /\ h.cursor # NoCursor => h.cursor = token
<1> DEFINE q == h.query
           n == IndexOf(h)
           after == IF h.cursor = NoCursor THEN Start ELSE h.cursor.last
<1>1. TypeOK /\ Handling /\ h \in Requests /\ h # Idle
  BY DEF Inv, TypeOK, Idle
<1>2. q \in Queries /\ h.cursor \in Cursors /\ h.index \in IndexName \cup {NoIndex}
  BY Zenon, <1>1 DEF Requests
<1>3. Planned(q, n)
  BY Zenon, <1>2, QueryFields DEF Planned, IndexOf
<1>4. after \in Positions
  <2>1. CASE h.cursor = NoCursor
    BY Zenon, <2>1 DEF Positions, Start
  <2>2. CASE h.cursor # NoCursor
    <3>1. h.cursor.last \in ({0} \cup Value) \X Id
      BY Zenon, <1>2, <2>2 DEF Cursors
    <3>2. Value \in SUBSET Nat /\ Id \in SUBSET Nat
      BY Zenon, PagingAssumption
    <3>3. 0 \in Nat
      BY Zenon
    <3> QED
      BY Zenon, <2>2, <3>1, <3>2, <3>3 DEF Positions
  <2> QED
    BY Zenon, <2>1, <2>2
<1>5. Pages(After(Examined(q, n), after), After(Hits(q, n), after), Page(q, n, after))
  BY Zenon, <1>1, <1>3, PageIs
<1>6. h.cursor # NoCursor => h.cursor = token
  BY Zenon, <1>1 DEF Handling
<1> QED
  BY Zenon, <1>1, <1>2, <1>3, <1>4, <1>5, <1>6

(* The query is executed on the database as it is now, which need not be   *)
(* the one of the key read before: the page continues from the cursor.     *)
LEMMA ExecuteKeeps ==
    ASSUME Inv, Execute
    PROVE  Inv'
<1> DEFINE q == h.query
           n == IndexOf(h)
           first == h.cursor = NoCursor
           after == IF first THEN Start ELSE h.cursor.last
           page == Page(q, n, after)
           ids == {x[2] : x \in page.hits}
           H == Hits(q, n)
           R == After(Examined(q, n), after)
           got == IF first THEN {} ELSE returned
           still == IF first THEN Satisfying(q) ELSE steady
           sure == first \/ h.key = db.key
           missing == [status |-> IF q.method = "GET" THEN 404 ELSE 500,
                       request |-> h, key |-> db.key]
<1>0. /\ h.st = "run"
      /\ \/ Refuse(404)
         \/ ~PathKnown(n) /\ Answer(missing)
         \/ /\ db.key # 0 /\ PathKnown(n)
            /\ h' = Idle
            /\ token' = IF page.more
                        THEN [key |-> h.key, query |-> Bound(q), index |-> n, last |-> page.last]
                        ELSE NoCursor
            /\ out' = [status |-> 200, final |-> ~page.more, request |-> h, key |-> db.key,
                       wrong |-> ids \ Satisfying(q)]
            /\ returned' = got \cup ids /\ steady' = still
            /\ twice' = IF first THEN {} ELSE twice \cup (returned \cap ids)
            /\ db' = db /\ keys' = keys
  <2>1. {} \cup ids = ids
    BY Zenon
  <2> HIDE DEF ids, page
  <2> QED
    BY <2>1, ZenonT(30) DEF Execute, PathKnown, ids, page
<1>1. CASE Refuse(404)
  BY <1>1, RefuseKeeps
<1>3. CASE ~PathKnown(n) /\ Answer(missing)
  <2>1. out' = missing
    BY Zenon, <1>3 DEF Answer
  <2>2. /\ missing.status # 200 /\ (missing.status = 500 => q.method # "GET")
        /\ missing.request = h /\ missing.key = db.key
    BY SMTT(30)
  <2> HIDE DEF missing
  <2>3. out'.request = h /\ out'.key = db.key
    BY Zenon, <2>1, <2>2
  <2>4. ASSUME missing.status = 500, PlanHeld' PROVE FALSE
    <3>0. h.query.method = "GET" \/ h.plan = db.key
      BY SMTT(30), <2>3, <2>4 DEF PlanHeld
    <3>1. h.plan = db.key /\ q.method # "GET"
      BY Zenon, <2>2, <2>4, <3>0
    <3>2. TypeOK /\ Handling /\ h \in Requests /\ h # Idle
      BY SMTT(30), <1>0 DEF Inv, TypeOK, Idle
    <3>3. q \in Queries
      BY Zenon, <3>2 DEF Requests
    <3>4. q.method = "QUERY" /\ q.path \in Path /\ n = h.index
      BY Zenon, <3>1, <3>3, QueryFields DEF IndexOf
    <3>5. h.index # NoIndex /\ db.defs[h.index] = NoPath
      BY Zenon, <1>3, <3>4 DEF PathKnown
    <3>6. h.st # "plan"
      BY <1>0
    <3>7. db.defs[h.index] = q.path
      BY Zenon, <3>1, <3>2, <3>4, <3>5, <3>6 DEF Handling
    <3> QED
      BY Zenon, <3>4, <3>5, <3>7, PagingAssumption
  <2> QED
    BY Zenon, <1>3, <2>2, <2>4, AnswerKeeps
<1>2. CASE ~Refuse(404) /\ ~(~PathKnown(n) /\ Answer(missing))
  <2>1. /\ db.key # 0 /\ PathKnown(n)
        /\ h' = Idle /\ db' = db /\ keys' = keys
        /\ returned' = got \cup ids /\ steady' = still
        /\ twice' = IF first THEN {} ELSE twice \cup (returned \cap ids)
        /\ token' = IF page.more
                    THEN [key |-> h.key, query |-> Bound(q), index |-> n, last |-> page.last]
                    ELSE NoCursor
        /\ out' = [status |-> 200, final |-> ~page.more, request |-> h, key |-> db.key,
                   wrong |-> ids \ Satisfying(q)]
    BY <1>0, <1>2, Zenon
  <2>2. /\ h \in Requests /\ h # Idle /\ q \in Queries /\ Planned(q, n)
        /\ after \in Positions /\ Pages(R, After(H, after), page)
        /\ h.cursor # NoCursor => h.cursor = token
    BY <1>0, <2>1, ReadsPage, Zenon
  <2>3. TypeOK /\ KeysDrawn /\ Handling /\ Session /\ Indexed /\ Promises
    BY Zenon DEF Inv
  <2>4. /\ H \in SUBSET Positions /\ R \in SUBSET Positions
        /\ R \in SUBSET Spots /\ \A x \in R : Before(after, x)
    BY Zenon, HitsAreSpots DEF After
  <2>5. /\ h.key # 0 /\ (h.key = db.key \/ steady = {})
        /\ ~first => token # NoCursor /\ token.key = h.key
                     /\ token.query = Bound(q) /\ token.index = n
    BY Zenon, <1>0, <2>2, <2>3 DEF Handling
  <2>6. OnePerId(H) /\ Beyond(after, R)
    BY Zenon, <2>2, <2>3, <2>4, OneHit DEF OnePerId, Beyond
  <2>7. Hits(Bound(q), n) = H /\ Satisfying(Bound(q)) = Satisfying(q)
    BY Zenon, <2>2, BoundAsksTheSame
  <2>8. Divides(after, H, still, got)
    <3>1. CASE first
      BY Zenon, <3>1, HitsAreSpots, FromStart DEF Divides
    <3>2. CASE ~first
      BY Zenon, <2>2, <2>3, <2>5, <2>7, <3>2 DEF Session, Divides
    <3> QED
      BY Zenon, <3>1, <3>2
  <2>9. sure => still \subseteq Satisfying(q)
    BY Zenon, <2>3, <2>5, <2>7 DEF Session
  <2>10. ids \subseteq IdsOf(H)
    BY Zenon, <2>2 DEF Pages, After, IdsOf
  <2> HIDE DEF page, ids, H, R, after, first, got, still
  <2>11. /\ page.more => Divides(page.last, H, still, got \cup ids)
         /\ got \cap ids \cap still = {}
         /\ ~page.more => still \cap IdsOf(H) \subseteq got \cup ids
    <3>1. ids = IdsOf(page.hits)
      BY Zenon DEF ids, IdsOf
    <3>2. Continues(page, R, H, after, still, got)
      BY Zenon, <2>2, <2>4, <2>6, <2>8 DEF Continues
    <3>3. page.more => Divides(page.last, H, still, got \cup ids)
      BY Zenon, <3>1, <3>2, PageDivides
    <3>4. got \cap ids \cap still = {}
      BY Zenon, <3>1, <3>2, PageIsNew
    <3>5. ~page.more => still \cap IdsOf(H) \subseteq got \cup ids
      BY Zenon, <3>1, <3>2, LastPageIsRest
    <3> QED
      BY Zenon, <3>3, <3>4, <3>5
  <2>12. page.more => page.last \in R
    BY Zenon, <2>2 DEF Pages
  <2>13. H \in SUBSET Spots /\ Spots \in SUBSET (({0} \cup Value) \X Id)
         /\ IdsOf(H) \in SUBSET Id
    <3>1. H \in SUBSET Spots
      BY Zenon, HitsAreSpots DEF H
    <3>2. Live \in SUBSET Id
      BY Zenon DEF Live
    <3> QED
      BY Zenon, <3>1, <3>2 DEF Spots, IdsOf
  <2>14. TypeOK'
    <3>1. token' \in Cursors
      <4>1. CASE page.more
        <5>1. h.key \in 1..MaxKey /\ n \in IndexName \cup {NoIndex}
              /\ page.last \in ({0} \cup Value) \X Id
          BY SMTT(30), <2>2, <2>4, <2>5, <2>12, <2>13, <4>1, PagingAssumption
             DEF Requests, Planned
        <5> QED
          BY Zenon, <2>1, <2>2, <4>1, <5>1 DEF Cursors
      <4>2. CASE ~page.more
        BY Zenon, <2>1, <4>2 DEF Cursors
      <4> QED
        BY Zenon, <4>1, <4>2
    <3>2. returned' \subseteq Id /\ twice' \subseteq returned'
      BY Zenon, <2>1, <2>3, <2>10, <2>13 DEF TypeOK, got
    <3>3. steady' \subseteq Id
      BY Zenon, <2>1, <2>3 DEF TypeOK, still, Satisfying, Live
    <3> QED
      BY Zenon, <2>1, <2>3, <3>1, <3>2, <3>3 DEF TypeOK
  <2>15. KeysDrawn' /\ Handling'
    <3>1. h.key <= keys
      BY Zenon, <2>2, <2>3 DEF KeysDrawn
    <3> QED
      BY Zenon, <2>1, <2>3, <3>1 DEF KeysDrawn, Handling
  <2>16. Session'
    <3> SUFFICES ASSUME page.more, h.key = db.key PROVE Session'
      BY Zenon, <2>1 DEF Session
    <3>1. /\ token'.query = Bound(q) /\ token'.index = n /\ token'.last = page.last
      BY Zenon, <2>1
    <3>2. /\ Satisfying(token.query)' = Satisfying(q) /\ Hits(token.query, token.index)' = H
      <4>1. Satisfying(token.query)' = Satisfying(Bound(q))
        BY Zenon, <2>1, <3>1 DEF Satisfying, PathOf, Live
      <4>2. Hits(token.query, token.index)' = Hits(Bound(q), n)
        BY Zenon, <2>1, <3>1 DEF Hits, Spots, Chosen, PlanPath, Live
      <4> QED
        BY Zenon, <2>7, <4>1, <4>2
    <3> QED
      BY Zenon, <2>1, <2>9, <2>11, <3>1, <3>2 DEF Session
  <2>18. Indexed'
    BY Zenon, <2>1, <2>3 DEF Indexed, Indexable, Live
  <2>17. Promises'
    <3>1. /\ out'.final = ~page.more /\ out'.request = h /\ out'.key = db.key
          /\ out'.wrong = ids \ Satisfying(q)
      BY Zenon, <2>1
    <3>0. PlanHeld' => PlanPath(q, n) = PathOf(q)
      <4> SUFFICES ASSUME PlanHeld' PROVE PlanPath(q, n) = PathOf(q)
        BY Zenon
      <4>1. q.method = "GET" \/ h.plan = db.key
        BY Zenon, <3>1 DEF PlanHeld
      <4>2. CASE q.method = "GET"
        <5>1. n = q.index /\ n # NoIndex
          BY Zenon, <2>2, <4>2, QueryFields, PagingAssumption DEF Planned
        <5> QED
          BY Zenon, <4>2, <5>1 DEF PlanPath, PathOf
      <4>3. CASE q.method # "GET"
        <5>1. q.method = "QUERY" /\ n = h.index
          BY Zenon, <2>2, <4>3, QueryFields DEF IndexOf
        <5>2. h.index # NoIndex => db.defs[h.index] = q.path
          BY Zenon, <1>0, <2>2, <2>3, <4>1, <4>3, <5>1 DEF Handling
        <5> QED
          BY Zenon, <4>3, <5>1, <5>2 DEF PlanPath, PathOf
      <4> QED
        BY Zenon, <4>2, <4>3
    <3>2. PlanHeld' => /\ IdsOf(H) \subseteq Satisfying(q)
                       /\ Satisfying(q) \subseteq IdsOf(H) \cup Overlooked(h)
      <4> SUFFICES ASSUME PlanHeld'
                   PROVE  /\ IdsOf(H) \subseteq Satisfying(q)
                          /\ Satisfying(q) \subseteq IdsOf(H) \cup Overlooked(h)
        BY Zenon
      <4>1. /\ IdsOf(H) \subseteq Satisfying(q)
            /\ \A i \in Satisfying(q) :
                 Nodes[db.docs[i]][PathOf(q)] \cap Good(q) \cap Value # {} => i \in IdsOf(H)
        BY Zenon, <2>2, <2>3, <3>0, HitsSatisfy DEF H, IdsOf
      <4>2. ASSUME NEW i \in Satisfying(q), i \notin IdsOf(H) PROVE i \in Overlooked(h)
        <5>1. /\ i \in Live /\ PathOf(q) # NoPath /\ PlanPath(q, n) = PathOf(q)
              /\ Nodes[db.docs[i]][PathOf(q)] \cap Good(q) \cap Value = {}
              /\ Nodes[db.docs[i]][PathOf(q)] \cap Good(q) # {}
          BY Zenon, <3>0, <4>1, <4>2 DEF Satisfying
        <5>2. Nodes[db.docs[i]][PathOf(q)] \in SUBSET (Value \cup Oversize)
          BY Zenon, <2>2, <2>3, <5>1, PlanReads
        <5>3. n = NoIndex
          <6> SUFFICES ASSUME n # NoIndex PROVE FALSE
            BY Zenon
          <6>1. n \in IndexName /\ db.defs[n] = PathOf(q)
            BY Zenon, <2>2, <5>1 DEF Planned, PlanPath
          <6>2. Nodes[db.docs[i]][PathOf(q)] \subseteq Value
            BY Zenon, <2>3, <5>1, <6>1 DEF Indexed, Indexable
          <6> QED
            BY Zenon, <5>1, <6>2
        <5>4. PathOf(q) = q.path
          BY Zenon, <5>1, <5>3 DEF PlanPath
        <5> QED
          BY Zenon, <5>1, <5>2, <5>3, <5>4 DEF Overlooked
      <4> QED
        BY Zenon, <4>1, <4>2
    <3>3. Sound'
      <4>1. out'.status # 500
        BY <2>1
      <4> QED
        BY Zenon, <2>10, <3>1, <3>2, <4>1 DEF Sound
    <3>4. NoRepeat'
      BY Zenon, <2>1, <2>3, <2>11 DEF NoRepeat, Promises, got, still
    <3>5. Advances'
      <4> SUFFICES ASSUME page.more, ~first PROVE Before(h.cursor.last, token'.last)
        BY Zenon, <3>1 DEF Advances, first
      <4>1. after = h.cursor.last /\ token'.last = page.last
        BY Zenon, <2>1 DEF after
      <4> QED
        BY Zenon, <2>4, <2>12, <4>1
    <3>6. Complete'
      <4>0. Overlooked(out.request)' = Overlooked(h)
        BY Zenon, <2>1, <3>1 DEF Overlooked, Live
      <4> SUFFICES ASSUME ~page.more, PlanHeld'
                   PROVE  still \subseteq got \cup ids \cup Overlooked(h)
        BY Zenon, <2>1, <3>1, <4>0 DEF Complete
      <4>1. CASE sure
        BY Zenon, <2>9, <2>11, <3>2, <4>1
      <4>2. CASE ~sure
        <5>1. still = {}
          BY Zenon, <2>5, <4>2 DEF still
        <5> QED
          BY Zenon, <5>1
      <4> QED
        BY Zenon, <4>1, <4>2
    <3> QED
      BY Zenon, <3>3, <3>4, <3>5, <3>6 DEF Promises
  <2> QED
    BY Zenon, <2>14, <2>15, <2>16, <2>17, <2>18 DEF Inv
<1> QED
  BY Zenon, <1>0, <1>1, <1>2, <1>3

-----------------------------------------------------------------------------
(* Every step keeps the invariant.                                         *)
LEMMA StepKeeps == Inv /\ [Next]_vars => Inv'
<1> SUFFICES ASSUME Inv, [Next]_vars PROVE Inv'
  BY Zenon
<1>1. CASE Next
  <2>1. CASE Fail
    BY SMTT(30), <2>1, RefuseKeeps DEF Fail
  <2> QED
    BY <1>1, <2>1, CreateDBKeeps, DeleteDBKeeps, WriteKeeps, RestartKeeps, AskKeeps,
       planPathQueryKeeps, cursorKeyKeeps, ExecuteKeeps, Zenon DEF Next
<1>2. CASE UNCHANGED vars
  <2>1. /\ UNCHANGED <<db, keys, token, returned, twice, steady>> /\ out' = out /\ h' = h
    BY Zenon, <1>2 DEF vars
  <2>2. Handling'
    BY Zenon, <2>1 DEF Inv, Handling, IndexOf
  <2> QED
    BY Zenon, <2>1, <2>2, HandlerKeeps DEF Inv, TypeOK, KeysDrawn
<1> QED
  BY Zenon, <1>1, <1>2

(* The invariant holds of every behaviour.                                 *)
THEOREM PagingInvariant == Spec => []Inv
BY InitKeeps, StepKeeps, PTL DEF Spec

(* A cursor always names a position the codecs of query_cursor.go and      *)
(* path_cursor.go accept: a page that has more has examined a document.    *)
THEOREM PagingTypeCorrect == Spec => []TypeOK
<1>1. Inv => TypeOK
  BY Zenon DEF Inv
<1> QED
  BY <1>1, PagingInvariant, PTL

(* Following the cursors of queryDocsCtx, queryRangePage or queryPathDocs  *)
(* to the end misses no document that has matched, unchanged, throughout,  *)
(* except that a scan does not see the scalars that are too large to       *)
(* encode; through an index nothing is missed, since such a document is    *)
(* not stored.                                                             *)
THEOREM PagesComplete == Spec => []Complete
<1>1. Inv => Complete
  BY Zenon DEF Inv, Promises
<1> QED
  BY <1>1, PagingInvariant, PTL

(* No such document is returned twice.                                     *)
THEOREM PagesDoNotRepeat == Spec => []NoRepeat
<1>1. Inv => NoRepeat
  BY Zenon DEF Inv, Promises
<1> QED
  BY <1>1, PagingInvariant, PTL

(* The cursor a page answers with is beyond the one it went on from.       *)
THEOREM PagesAdvance == Spec => []Advances
<1>1. Inv => Advances
  BY Zenon DEF Inv, Promises
<1> QED
  BY <1>1, PagingInvariant, PTL

(* A page planned for the database it reads holds only documents that      *)
(* satisfy the query, and such a query is no internal error for want of    *)
(* its index.                                                              *)
THEOREM PagesSound == Spec => []Sound
<1>1. Inv => Sound
  BY Zenon DEF Inv, Promises
<1> QED
  BY <1>1, PagingInvariant, PTL

=============================================================================
