----------------------------- MODULE SortProofs -----------------------------
(***************************************************************************)
(* Proofs about Sort for every input, every list of keys and every batch   *)
(* size: the comparator is a strict weak order, the stable order is the    *)
(* reference order, and the operator keeps the pull contract but for the   *)
(* promise that the end comes, which is a matter of fairness.              *)
(***************************************************************************)
EXTENDS Sort, SequenceTheorems, FiniteSetTheorems, WellFoundedInduction, TLAPS

-----------------------------------------------------------------------------
\* What a natural number can be chosen by: a set of them has a least one.

Less == {p \in Nat \X Nat : p[1] < p[2]}

\* The naturals are well founded.
LEMMA LessWellFounded == IsWellFoundedOn(Less, Nat)
  BY NatLessThanWellFounded, Zenon DEF OpToRel, Less

\* A nonempty set of naturals has a least member.
LEMMA Least ==
  ASSUME NEW T \in SUBSET Nat, T # {}
  PROVE  \E x \in T : \A y \in T : x <= y
<1>1. PICK x \in T : \A y \in T : ~ (<<y, x>> \in Less)
  BY LessWellFounded, WFMin
<1>2. ASSUME NEW y \in T PROVE x <= y
  <2>1. ~ (y < x)
    BY <1>1 DEF Less
  <2>2. QED BY <2>1
<1>3. QED BY <1>2

-----------------------------------------------------------------------------
\* One cell.

\* compare_cell is zero on equal cells only, and turns round with its arguments.
LEMMA CompareCellOrder ==
  ASSUME NEW x \in Cell, NEW y \in Cell
  PROVE  /\ CompareCell(x, y) \in {-1, 0, 1}
         /\ CompareCell(x, y) = 0 <=> x = y
         /\ CompareCell(x, y) < 0 <=> CompareCell(y, x) > 0
  BY SortAssumption DEF CompareCell, CompareNumber, NaNLast, Cell

\* A sort key has a direction and a place for NULL.
LEMMA KeyIsRecord ==
  ASSUME TypeOK, NEW k \in DOMAIN keys
  PROVE  keys[k].ascending \in BOOLEAN /\ keys[k].nullsFirst \in BOOLEAN
<1>1. keys \in Seq([ascending : BOOLEAN, nullsFirst : BOOLEAN])
  BY SortAssumption DEF TypeOK
<1>2. keys[k] \in [ascending : BOOLEAN, nullsFirst : BOOLEAN]
  BY <1>1, ElementOfSeq, LenProperties
<1>3. QED BY <1>2

\* On one key the comparator and the reference order agree.
LEMMA DecidesIsRankLess ==
  ASSUME TypeOK, NEW k \in DOMAIN keys, NEW x \in Cell, NEW y \in Cell
  PROVE  Decides(k, x, y) <=> RankLess(k, x, y)
<1>1. keys[k].ascending \in BOOLEAN /\ keys[k].nullsFirst \in BOOLEAN
  BY KeyIsRecord
<1>2. CASE x = Null \/ y = Null
  BY <1>1, <1>2, SortAssumption
     DEF Decides, RankLess, NullSide, NullAhead, CompareCell, Cell
<1>3. CASE x # Null /\ y # Null
  <2>1. CompareCell(x, y) < 0 <=> Smaller(x, y)
    BY <1>3, SortAssumption DEF CompareCell, CompareNumber, NaNLast, Cell, Smaller
  <2>2. CompareCell(x, y) > 0 <=> Smaller(y, x)
    BY <1>3, SortAssumption DEF CompareCell, CompareNumber, NaNLast, Cell, Smaller
  <2>3. Decides(k, x, y) <=> (IF keys[k].ascending THEN CompareCell(x, y) < 0
                              ELSE CompareCell(x, y) > 0)
    BY <1>3 DEF Decides
  <2>4. RankLess(k, x, y) <=> (IF keys[k].ascending THEN Smaller(x, y) ELSE Smaller(y, x))
    BY <1>3 DEF RankLess, NullSide
  <2>5. QED BY <2>1, <2>2, <2>3, <2>4
<1>4. QED BY <1>2, <1>3

\* On one key the reference order is a strict total order of the cells.
LEMMA RankLessOrder ==
  ASSUME TypeOK, NEW k \in DOMAIN keys, NEW x \in Cell, NEW y \in Cell, NEW z \in Cell
  PROVE  /\ ~ RankLess(k, x, x)
         /\ x # y => (RankLess(k, x, y) <=> ~ RankLess(k, y, x))
         /\ RankLess(k, x, y) /\ RankLess(k, y, z) => RankLess(k, x, z)
<1>1. keys[k].ascending \in BOOLEAN /\ keys[k].nullsFirst \in BOOLEAN
  BY KeyIsRecord
<1>2. \A u, v, w \in Cell : Null \notin {u, v, w} =>
        /\ ~ Smaller(u, u)
        /\ u # v => (Smaller(u, v) <=> ~ Smaller(v, u))
        /\ Smaller(u, v) /\ Smaller(v, w) => Smaller(u, w)
  BY SortAssumption DEF Smaller, Cell
<1>3. CASE Null \notin {x, y, z}
  <2>1. ASSUME NEW u \in {x, y, z}, NEW v \in {x, y, z}
        PROVE  RankLess(k, u, v) <=> (IF keys[k].ascending THEN Smaller(u, v) ELSE Smaller(v, u))
    BY <1>3, <2>1 DEF RankLess, NullSide
  <2>2. QED BY <1>2, <1>3, <2>1
<1>4. CASE Null \in {x, y, z}
  <2>1. \A u, v \in Cell : Null \in {u, v} =>
          (RankLess(k, u, v) <=> NullSide(k, u) < NullSide(k, v))
    BY DEF RankLess
  <2>2. \A u, v \in Cell : (NullSide(k, u) # NullSide(k, v)) => (Null \in {u, v})
    BY DEF NullSide
  <2>3. \A u \in Cell : NullSide(k, u) \in {-1, 0, 1} /\ (NullSide(k, u) = 0 <=> u # Null)
    BY DEF NullSide
  <2>4. \A u, v \in Cell : NullSide(k, u) < NullSide(k, v) => RankLess(k, u, v)
    BY DEF RankLess
  <2>5. NullSide(k, Null) = IF keys[k].nullsFirst THEN -1 ELSE 1
    BY DEF NullSide
  <2>6. ~ RankLess(k, x, x)
    BY <1>2, <2>1, <2>3 DEF RankLess
  <2>7. x # y => (RankLess(k, x, y) <=> ~ RankLess(k, y, x))
    <3>1. CASE Null \in {x, y}
      BY <2>1, <2>3, <2>5, <3>1
    <3>2. CASE Null \notin {x, y}
      BY <1>1, <1>2, <3>2 DEF RankLess, NullSide
    <3>3. QED BY <3>1, <3>2
  <2>8. RankLess(k, x, y) /\ RankLess(k, y, z) => RankLess(k, x, z)
    <3>1. CASE y = Null
      BY <2>1, <2>3, <2>4, <2>5, <3>1
    <3>2. CASE y # Null /\ x = Null
      BY <1>4, <2>1, <2>3, <2>4, <2>5, <3>2 DEF RankLess
    <3>3. CASE y # Null /\ x # Null
      BY <1>4, <2>1, <2>3, <2>4, <2>5, <3>3 DEF RankLess
    <3>4. QED BY <3>1, <3>2, <3>3
  <2>9. QED BY <2>6, <2>7, <2>8
<1>5. QED BY <1>3, <1>4

-----------------------------------------------------------------------------
\* Whole rows.

\* The rows of the input are numbered from 1.
LEMMA InputRows ==
  ASSUME TypeOK
  PROVE  /\ input \in Seq(Seq(Cell)) /\ Len(input) \in Nat
         /\ DOMAIN input = 1 .. Len(input) /\ DOMAIN input \subseteq Nat
<1>1. input \in Seq(Seq(Cell))
  BY SortAssumption DEF TypeOK
<1>2. Len(input) \in Nat /\ DOMAIN input = 1 .. Len(input)
  BY <1>1, LenProperties
<1>3. QED BY <1>1, <1>2

\* Every row of the input has a cell for every key.
LEMMA RowCells ==
  ASSUME TypeOK, NEW a \in DOMAIN input, NEW k \in DOMAIN keys
  PROVE  input[a][k] \in Cell
<1>1. input \in Seq(Seq(Cell)) /\ keys \in Seq([ascending : BOOLEAN, nullsFirst : BOOLEAN])
  BY SortAssumption DEF TypeOK
<1>2. input[a] \in Seq(Cell)
  BY <1>1, ElementOfSeq, LenProperties
<1>3. Len(input[a]) = Len(keys)
  BY DEF TypeOK
<1>4. k \in 1 .. Len(input[a])
  BY <1>1, <1>3, LenProperties
<1>5. QED BY <1>2, <1>4, ElementOfSeq

\* The keys are numbered from 1, and the first k - 1 of them are keys.
LEMMA KeyNumbers ==
  ASSUME TypeOK
  PROVE  /\ DOMAIN keys \subseteq Nat
         /\ \A k \in DOMAIN keys : 1 .. k - 1 \subseteq DOMAIN keys
         /\ \A k, j \in DOMAIN keys : j < k => j \in 1 .. k - 1
<1>1. DOMAIN keys = 1 .. Len(keys) /\ Len(keys) \in Nat
  BY SortAssumption, LenProperties DEF TypeOK
<1>2. QED BY <1>1

\* The comparator orders rows as the reference does.
LEMMA AheadIsRankBefore ==
  ASSUME TypeOK, NEW a \in DOMAIN input, NEW b \in DOMAIN input
  PROVE  Ahead(a, b) <=> RankBefore(a, b)
<1>1. ASSUME NEW k \in DOMAIN keys
      PROVE  Decides(k, input[a][k], input[b][k]) <=> RankLess(k, input[a][k], input[b][k])
  BY RowCells, DecidesIsRankLess
<1>2. ASSUME NEW k \in DOMAIN keys, NEW j \in 1 .. k - 1
      PROVE  CompareCell(input[a][j], input[b][j]) = 0 <=> input[a][j] = input[b][j]
  <2>1. j \in DOMAIN keys
    BY KeyNumbers
  <2>2. QED BY <2>1, RowCells, CompareCellOrder
<1>3. QED BY <1>1, <1>2 DEF Ahead, RankBefore

\* The two rows have the same cells.
SameCells(a, b) == \A k \in DOMAIN keys : input[a][k] = input[b][k]

\* Two rows with different cells are decided by the first key on which they differ.
LEMMA FirstDifference ==
  ASSUME TypeOK, NEW a \in DOMAIN input, NEW b \in DOMAIN input, ~ SameCells(a, b)
  PROVE  RankBefore(a, b) \/ RankBefore(b, a)
<1> DEFINE T == {k \in DOMAIN keys : input[a][k] # input[b][k]}
<1>1. T \in SUBSET Nat /\ T # {}
  BY KeyNumbers DEF SameCells
<1>2. PICK k \in T : \A j \in T : k <= j
  <2> HIDE DEF T
  <2>1. QED BY <1>1, Least
<1>3. k \in Nat /\ k \in DOMAIN keys /\ input[a][k] # input[b][k]
  BY <1>1, <1>2
<1>4. \A j \in 1 .. k - 1 : input[a][j] = input[b][j] /\ input[b][j] = input[a][j]
  <2> SUFFICES ASSUME NEW j \in 1 .. k - 1 PROVE input[a][j] = input[b][j]
    OBVIOUS
  <2>1. j \in DOMAIN keys /\ ~ (k <= j)
    BY <1>3, KeyNumbers
  <2>2. QED BY <1>2, <2>1
<1>5. RankLess(k, input[a][k], input[b][k]) \/ RankLess(k, input[b][k], input[a][k])
  BY <1>3, RowCells, RankLessOrder
<1>6. QED BY <1>3, <1>4, <1>5 DEF RankBefore

\* The reference order of the rows is a strict weak order, in which exactly the
\* rows with equal cells tie.
LEMMA RankBeforeOrder ==
  ASSUME TypeOK, NEW a \in DOMAIN input, NEW b \in DOMAIN input, NEW c \in DOMAIN input
  PROVE  /\ RankBefore(a, b) => ~ SameCells(a, b) /\ ~ RankBefore(b, a)
         /\ RankBefore(a, b) /\ RankBefore(b, c) => RankBefore(a, c)
<1>1. ASSUME RankBefore(a, b) PROVE ~ SameCells(a, b)
  <2>1. PICK k \in DOMAIN keys : RankLess(k, input[a][k], input[b][k])
    BY <1>1 DEF RankBefore
  <2>2. input[a][k] # input[b][k]
    BY <2>1, RowCells, RankLessOrder
  <2>3. QED BY <2>2 DEF SameCells
<1>2. ASSUME NEW d \in DOMAIN input, RankBefore(a, b), RankBefore(b, d) PROVE RankBefore(a, d)
  <2>1. PICK k \in DOMAIN keys : /\ \A j \in 1 .. k - 1 : input[a][j] = input[b][j]
                                 /\ RankLess(k, input[a][k], input[b][k])
    BY <1>2 DEF RankBefore
  <2>2. PICK l \in DOMAIN keys : /\ \A j \in 1 .. l - 1 : input[b][j] = input[d][j]
                                 /\ RankLess(l, input[b][l], input[d][l])
    BY <1>2 DEF RankBefore
  <2>3. k \in Nat /\ l \in Nat
    BY KeyNumbers
  <2>4. CASE k < l
    <3>1. k \in 1 .. l - 1 /\ 1 .. k - 1 \subseteq 1 .. l - 1
      BY <2>3, <2>4, KeyNumbers
    <3>2. QED BY <2>1, <2>2, <3>1 DEF RankBefore
  <2>5. CASE k = l
    <3>1. RankLess(k, input[a][k], input[d][k])
      BY <2>1, <2>2, <2>5, RowCells, RankLessOrder
    <3>2. QED BY <2>1, <2>2, <2>5, <3>1 DEF RankBefore
  <2>6. CASE l < k
    <3>1. l \in 1 .. k - 1 /\ 1 .. l - 1 \subseteq 1 .. k - 1
      BY <2>3, <2>6, KeyNumbers
    <3>2. QED BY <2>1, <2>2, <3>1 DEF RankBefore
  <2>7. QED BY <2>3, <2>4, <2>5, <2>6
<1>3. ASSUME RankBefore(a, b), RankBefore(b, a) PROVE FALSE
  <2>1. RankBefore(a, a)
    BY <1>2, <1>3
  <2>2. PICK k \in DOMAIN keys : RankLess(k, input[a][k], input[a][k])
    BY <2>1 DEF RankBefore
  <2>3. QED BY <2>2, RowCells, RankLessOrder
<1>4. QED BY <1>1, <1>2, <1>3

\* Rows with equal cells stand on the same side of every other row.
LEMMA SameCellsAlike ==
  ASSUME TypeOK, NEW a \in DOMAIN input, NEW b \in DOMAIN input, NEW c \in DOMAIN input,
         SameCells(a, b)
  PROVE  /\ RankBefore(a, c) <=> RankBefore(b, c)
         /\ RankBefore(c, a) <=> RankBefore(c, b)
<1>1. \A k \in DOMAIN keys : /\ input[a][k] = input[b][k]
                             /\ \A j \in 1 .. k - 1 : input[a][j] = input[b][j]
  BY KeyNumbers DEF SameCells
<1>2. QED BY <1>1 DEF RankBefore

\* With the source's order for rows that tie it is a strict total order.
LEMMA InOrderTotal ==
  ASSUME TypeOK, NEW a \in DOMAIN input, NEW b \in DOMAIN input, NEW c \in DOMAIN input
  PROVE  /\ ~ InOrder(a, a)
         /\ a # b => (InOrder(a, b) <=> ~ InOrder(b, a))
         /\ InOrder(a, b) /\ InOrder(b, c) => InOrder(a, c)
<1>1. a \in Nat /\ b \in Nat /\ c \in Nat
  BY InputRows
<1>2. \A d, e \in {a, b, c} : ~ RankBefore(d, e) /\ ~ RankBefore(e, d) <=> SameCells(d, e)
  <2> SUFFICES ASSUME NEW d \in {a, b, c}, NEW e \in {a, b, c}
               PROVE  ~ RankBefore(d, e) /\ ~ RankBefore(e, d) <=> SameCells(d, e)
    OBVIOUS
  <2>1. SameCells(d, e) <=> SameCells(e, d)
    BY DEF SameCells
  <2>2. QED BY <2>1, FirstDifference, RankBeforeOrder
<1>3. ~ InOrder(a, a)
  BY <1>1, RankBeforeOrder DEF InOrder
<1>4. a # b => (InOrder(a, b) <=> ~ InOrder(b, a))
  BY <1>1, RankBeforeOrder DEF InOrder
<1>5. ASSUME InOrder(a, b), InOrder(b, c) PROVE InOrder(a, c)
  <2>1. CASE RankBefore(a, b) /\ RankBefore(b, c)
    BY <2>1, RankBeforeOrder DEF InOrder
  <2>2. CASE ~ RankBefore(a, b)
    <3>1. SameCells(a, b) /\ a < b
      BY <1>2, <1>5, <2>2 DEF InOrder
    <3>2. (RankBefore(a, c) <=> RankBefore(b, c)) /\ (RankBefore(c, a) <=> RankBefore(c, b))
      BY <3>1, SameCellsAlike
    <3>3. QED BY <1>1, <1>5, <3>1, <3>2 DEF InOrder
  <2>3. CASE ~ RankBefore(b, c)
    <3>1. SameCells(b, c) /\ b < c
      BY <1>2, <1>5, <2>3 DEF InOrder
    <3>2. (RankBefore(b, a) <=> RankBefore(c, a)) /\ (RankBefore(a, b) <=> RankBefore(a, c))
      BY <3>1, SameCellsAlike
    <3>3. QED BY <1>1, <1>5, <3>1, <3>2 DEF InOrder
  <2>4. QED BY <2>1, <2>2, <2>3
<1>6. QED BY <1>3, <1>4, <1>5

\* The stored rows are rows of the input.
LEMMA StoredRows ==
  ASSUME TypeOK
  PROVE  /\ Len(store) \in Nat /\ DOMAIN store = 1 .. Len(store)
         /\ \A i \in DOMAIN store : store[i] \in DOMAIN input /\ store[i] \in Nat
         /\ Range(store) \subseteq DOMAIN input
<1>1. Len(store) \in Nat /\ DOMAIN store = 1 .. Len(store)
  BY LenProperties DEF TypeOK
<1>2. DOMAIN input = 1 .. Len(input) /\ Len(input) \in Nat
  BY InputRows
<1>3. \A i \in DOMAIN store : store[i] \in 1 .. pulled
  BY <1>1, ElementOfSeq DEF TypeOK
<1>4. \A i \in DOMAIN store : store[i] \in DOMAIN input /\ store[i] \in Nat
  BY <1>2, <1>3 DEF TypeOK
<1>5. QED BY <1>1, <1>4 DEF Range

\* What std::stable_sort requires of its comparator.
LEMMA StrictWeak ==
  ASSUME TypeOK
  PROVE  ComparatorIsStrictWeak
<1>1. ASSUME NEW a \in Range(store), NEW b \in Range(store)
      PROVE  /\ a \in DOMAIN input /\ b \in DOMAIN input
             /\ Ahead(a, b) <=> RankBefore(a, b)
             /\ ~ Ahead(a, b) /\ ~ Ahead(b, a) <=> SameCells(a, b)
  <2>1. a \in DOMAIN input /\ b \in DOMAIN input
    BY StoredRows
  <2>2. (Ahead(a, b) <=> RankBefore(a, b)) /\ (Ahead(b, a) <=> RankBefore(b, a))
    BY <2>1, AheadIsRankBefore
  <2>3. SameCells(a, b) <=> SameCells(b, a)
    BY DEF SameCells
  <2>4. QED BY <2>1, <2>2, <2>3, FirstDifference, RankBeforeOrder
<1>2. \A a \in Range(store) : ~ Ahead(a, a)
  BY <1>1, RankBeforeOrder
<1>3. \A a, b, c \in Range(store) : Ahead(a, b) /\ Ahead(b, c) => Ahead(a, c)
  BY <1>1, RankBeforeOrder
<1>4. ASSUME NEW a \in Range(store), NEW b \in Range(store), NEW c \in Range(store),
             ~ Ahead(a, b) /\ ~ Ahead(b, a), ~ Ahead(b, c) /\ ~ Ahead(c, b)
      PROVE  ~ Ahead(a, c) /\ ~ Ahead(c, a)
  <2>1. SameCells(a, b) /\ SameCells(b, c)
    BY <1>1, <1>4
  <2>2. SameCells(a, c)
    BY <2>1 DEF SameCells
  <2>3. QED BY <1>1, <2>2
<1>5. QED BY <1>2, <1>3, <1>4 DEF ComparatorIsStrictWeak

-----------------------------------------------------------------------------
\* Numbers arranged by an order R: the place of each is one behind those that
\* come before it.

TotalOn(R, S) ==
  \A a, b, c \in S : /\ <<a, a>> \notin R
                     /\ a # b => (<<a, b>> \in R <=> <<b, a>> \notin R)
                     /\ <<a, b>> \in R /\ <<b, c>> \in R => <<a, c>> \in R
Before(R, S, a) == {b \in S : <<b, a>> \in R}
Places(R, S) == [a \in S |-> 1 + Cardinality(Before(R, S, a))]
Arranged(place, S) == [k \in S |-> CHOOSE a \in S : place[a] = k]

\* Of two numbers the one that comes first has the smaller place.
LEMMA PlacesFollowOrder ==
  ASSUME NEW R, NEW n \in Nat, TotalOn(R, 1 .. n), NEW a \in 1 .. n
  PROVE  /\ Places(R, 1 .. n)[a] \in 1 .. n
         /\ \A b \in 1 .. n : <<a, b>> \in R => Places(R, 1 .. n)[a] < Places(R, 1 .. n)[b]
<1> DEFINE all == 1 .. n
<1>1. IsFiniteSet(all) /\ Cardinality(all) = n
  <2>1. IsFiniteSet(1 .. n) /\ Cardinality(1 .. n) = IF 1 > n THEN 0 ELSE n - 1 + 1
    BY FS_Interval
  <2>2. QED BY <2>1
<1>2. ASSUME NEW b \in 1 .. n
      PROVE  /\ IsFiniteSet(Before(R, 1 .. n, b)) /\ Cardinality(Before(R, 1 .. n, b)) \in Nat
             /\ Cardinality(Before(R, 1 .. n, b)) < n
  <2>1. Before(R, 1 .. n, b) \in SUBSET all /\ b \notin Before(R, 1 .. n, b) /\ b \in all
    BY DEF Before, TotalOn
  <2> HIDE DEF all
  <2>2. /\ IsFiniteSet(Before(R, 1 .. n, b)) /\ Cardinality(Before(R, 1 .. n, b)) <= Cardinality(all)
        /\ Cardinality(Before(R, 1 .. n, b)) # Cardinality(all)
    BY <1>1, <2>1, FS_Subset
  <2>3. Cardinality(Before(R, 1 .. n, b)) \in Nat
    BY <2>2, FS_CardinalityType
  <2>4. QED BY <1>1, <2>2, <2>3
<1>3. ASSUME NEW b \in 1 .. n, <<a, b>> \in R
      PROVE  Cardinality(Before(R, 1 .. n, a)) < Cardinality(Before(R, 1 .. n, b))
  <2> DEFINE A == Before(R, 1 .. n, a)
             B == Before(R, 1 .. n, b)
  <2>1. A \in SUBSET B /\ a \in B /\ a \notin A
    BY <1>3 DEF Before, TotalOn
  <2>2. IsFiniteSet(B) /\ Cardinality(A) \in Nat /\ Cardinality(B) \in Nat
    BY <1>2
  <2> HIDE DEF A, B
  <2>3. Cardinality(A) <= Cardinality(B) /\ Cardinality(A) # Cardinality(B)
    BY <2>1, <2>2, FS_Subset
  <2>4. Cardinality(A) < Cardinality(B)
    BY <2>2, <2>3
  <2>5. QED BY <2>4 DEF A, B
<1>4. QED BY <1>2, <1>3 DEF Places

\* Every place is taken, and by one number only: what is arranged is a permutation,
\* and it is in order.
LEMMA ArrangedInOrder ==
  ASSUME NEW R, NEW n \in Nat, TotalOn(R, 1 .. n)
  PROVE  /\ Arranged(Places(R, 1 .. n), 1 .. n) \in Seq(1 .. n) /\ Len(Arranged(Places(R, 1 .. n), 1 .. n)) = n
         /\ \A k, l \in 1 .. n : k < l => <<Arranged(Places(R, 1 .. n), 1 .. n)[k], Arranged(Places(R, 1 .. n), 1 .. n)[l]>> \in R
         /\ \A a \in 1 .. n : \E k \in 1 .. n : Arranged(Places(R, 1 .. n), 1 .. n)[k] = a
<1> DEFINE place == Places(R, 1 .. n)
           at == Arranged(Places(R, 1 .. n), 1 .. n)
<1>1. /\ place \in [1 .. n -> 1 .. n]
      /\ \A a, b \in 1 .. n : <<a, b>> \in R => place[a] < place[b]
  BY PlacesFollowOrder DEF Places
<1>2. \A a, b \in 1 .. n : place[a] = place[b] => a = b
  <2> HIDE DEF place
  <2> SUFFICES ASSUME NEW a \in 1 .. n, NEW b \in 1 .. n, a # b PROVE place[a] # place[b]
    OBVIOUS
  <2>1. <<a, b>> \in R \/ <<b, a>> \in R
    BY DEF TotalOn
  <2>2. place[a] < place[b] \/ place[b] < place[a]
    BY <1>1, <2>1
  <2>3. place[a] \in Nat /\ place[b] \in Nat
    BY <1>1
  <2>4. QED BY <2>2, <2>3
<1>3. \A k \in 1 .. n : \E a \in 1 .. n : place[a] = k
  <2> DEFINE all == 1 .. n
  <2>1. IsFiniteSet(all)
    BY FS_Interval
  <2>2. place \in Injection(all, all)
    BY <1>1, <1>2, Zenon DEF Injection, IsInjective
  <2> HIDE DEF place, all
  <2>3. place \in Surjection(all, all)
    BY <2>1, <2>2, FS_Injection
  <2>4. \A k \in all : \E a \in all : place[a] = k
    BY <2>3 DEF Surjection
  <2>5. QED BY <2>4 DEF all
<1>4. \A k \in 1 .. n : at[k] \in 1 .. n /\ place[at[k]] = k
  <2> SUFFICES ASSUME NEW k \in 1 .. n PROVE at[k] \in 1 .. n /\ place[at[k]] = k
    OBVIOUS
  <2>1. at[k] = CHOOSE a \in 1 .. n : place[a] = k
    BY DEF Arranged
  <2> HIDE DEF place, at
  <2>2. QED BY <1>3, <2>1
<1>5. at = [k \in 1 .. n |-> at[k]]
  BY DEF Arranged
<1> HIDE DEF place, at
<1>6. at \in [1 .. n -> 1 .. n]
  BY <1>4, <1>5
<1>7. at \in Seq(1 .. n) /\ Len(at) = n
  BY <1>6
<1>8. ASSUME NEW k \in 1 .. n, NEW l \in 1 .. n, k < l PROVE <<at[k], at[l]>> \in R
  <2>1. at[k] \in 1 .. n /\ at[l] \in 1 .. n /\ place[at[k]] = k /\ place[at[l]] = l
    BY <1>4
  <2>2. at[k] # at[l]
    BY <1>8, <2>1
  <2>3. ~ (place[at[l]] < place[at[k]])
    BY <1>8, <2>1
  <2>4. QED BY <1>1, <2>1, <2>2, <2>3 DEF TotalOn
<1>9. ASSUME NEW a \in 1 .. n PROVE \E k \in 1 .. n : at[k] = a
  <2>1. place[a] \in 1 .. n
    BY <1>1
  <2>2. at[place[a]] = a
    BY <1>2, <1>4, <2>1
  <2>3. QED BY <2>1, <2>2
<1>10. QED BY <1>7, <1>8, <1>9 DEF at

-----------------------------------------------------------------------------
\* The two orders of the specification are such arrangements.

StoreOrder == {p \in (DOMAIN store) \X (DOMAIN store) : Earlier(p[1], p[2])}
InputOrder == {p \in (DOMAIN input) \X (DOMAIN input) : InOrder(p[1], p[2])}

\* Membership in the two, pair by pair.
LEMMA PairInStoreOrder ==
  ASSUME NEW i \in DOMAIN store, NEW j \in DOMAIN store
  PROVE  <<i, j>> \in StoreOrder <=> Earlier(i, j)
<1> DEFINE p == <<i, j>>
<1>1. p \in (DOMAIN store) \X (DOMAIN store) /\ p[1] = i /\ p[2] = j
  OBVIOUS
<1> HIDE DEF p
<1>2. p \in StoreOrder <=> Earlier(p[1], p[2])
  BY <1>1 DEF StoreOrder
<1>3. p \in StoreOrder <=> Earlier(i, j)
  BY <1>1, <1>2
<1>4. QED BY <1>3 DEF p

LEMMA PairInInputOrder ==
  ASSUME NEW a \in DOMAIN input, NEW b \in DOMAIN input
  PROVE  <<a, b>> \in InputOrder <=> InOrder(a, b)
<1> DEFINE p == <<a, b>>
<1>1. p \in (DOMAIN input) \X (DOMAIN input) /\ p[1] = a /\ p[2] = b
  OBVIOUS
<1> HIDE DEF p
<1>2. p \in InputOrder <=> InOrder(p[1], p[2])
  BY <1>1 DEF InputOrder
<1>3. p \in InputOrder <=> InOrder(a, b)
  BY <1>1, <1>2
<1>4. QED BY <1>3 DEF p

\* Ids in the store compare as the rows they stand for.
LEMMA EarlierIsInOrder ==
  ASSUME TypeOK, NEW i \in DOMAIN store, NEW j \in DOMAIN store
  PROVE  Earlier(i, j) <=> InOrder(store[i], store[j])
<1>1. /\ i \in Nat /\ j \in Nat /\ store[i] \in DOMAIN input /\ store[j] \in DOMAIN input
      /\ store[i] \in Nat /\ store[j] \in Nat
  BY StoredRows
<1>2. i < j <=> store[i] < store[j]
  <2>1. i < j => store[i] < store[j]
    BY DEF TypeOK
  <2>2. j < i => store[j] < store[i]
    BY DEF TypeOK
  <2>3. QED BY <1>1, <2>1, <2>2
<1>3. (Ahead(store[i], store[j]) <=> RankBefore(store[i], store[j]))
      /\ (Ahead(store[j], store[i]) <=> RankBefore(store[j], store[i]))
  BY <1>1, AheadIsRankBefore
<1>4. QED BY <1>2, <1>3 DEF Earlier, InOrder

\* The comparator with the ids is a strict total order of the store.
LEMMA StoreOrderTotal ==
  ASSUME TypeOK
  PROVE  /\ TotalOn(StoreOrder, 1 .. Len(store))
         /\ \A i, j \in DOMAIN store : <<i, j>> \in StoreOrder <=> InOrder(store[i], store[j])
<1>1. Len(store) \in Nat /\ DOMAIN store = 1 .. Len(store)
      /\ \A i \in DOMAIN store : store[i] \in DOMAIN input /\ store[i] \in Nat
  BY StoredRows
<1>2. ASSUME NEW i \in DOMAIN store, NEW j \in DOMAIN store
      PROVE  <<i, j>> \in StoreOrder <=> InOrder(store[i], store[j])
  BY EarlierIsInOrder, PairInStoreOrder
<1>3. \A i, j \in DOMAIN store : i # j => store[i] # store[j]
  <2> SUFFICES ASSUME NEW i \in DOMAIN store, NEW j \in DOMAIN store, i # j
               PROVE  store[i] # store[j]
    OBVIOUS
  <2>1. i \in Nat /\ j \in Nat /\ store[i] \in Nat /\ store[j] \in Nat
    BY <1>1
  <2>2. (i < j => store[i] < store[j]) /\ (j < i => store[j] < store[i])
    BY DEF TypeOK
  <2>3. QED BY <2>1, <2>2
<1>4. ASSUME NEW a \in 1 .. Len(store), NEW b \in 1 .. Len(store), NEW c \in 1 .. Len(store)
      PROVE  /\ <<a, a>> \notin StoreOrder
             /\ a # b => (<<a, b>> \in StoreOrder <=> <<b, a>> \notin StoreOrder)
             /\ <<a, b>> \in StoreOrder /\ <<b, c>> \in StoreOrder => <<a, c>> \in StoreOrder
  <2>1. a \in DOMAIN store /\ b \in DOMAIN store /\ c \in DOMAIN store
    BY <1>1
  <2>2. /\ ~ InOrder(store[a], store[a])
        /\ a # b => (InOrder(store[a], store[b]) <=> ~ InOrder(store[b], store[a]))
        /\ InOrder(store[a], store[b]) /\ InOrder(store[b], store[c]) => InOrder(store[a], store[c])
    BY <1>1, <1>3, <2>1, InOrderTotal
  <2>3. QED BY <1>2, <2>1, <2>2
<1>5. QED BY <1>2, <1>4 DEF TotalOn

\* The reference order is a strict total order of the input.
LEMMA InputOrderTotal ==
  ASSUME TypeOK
  PROVE  /\ TotalOn(InputOrder, 1 .. Len(input))
         /\ \A a, b \in DOMAIN input : <<a, b>> \in InputOrder <=> InOrder(a, b)
<1>1. DOMAIN input = 1 .. Len(input)
  BY InputRows
<1>2. ASSUME NEW a \in DOMAIN input, NEW b \in DOMAIN input
      PROVE  <<a, b>> \in InputOrder <=> InOrder(a, b)
  BY PairInInputOrder
<1>3. ASSUME NEW a \in 1 .. Len(input), NEW b \in 1 .. Len(input), NEW c \in 1 .. Len(input)
      PROVE  /\ <<a, a>> \notin InputOrder
             /\ a # b => (<<a, b>> \in InputOrder <=> <<b, a>> \notin InputOrder)
             /\ <<a, b>> \in InputOrder /\ <<b, c>> \in InputOrder => <<a, c>> \in InputOrder
  <2>1. a \in DOMAIN input /\ b \in DOMAIN input /\ c \in DOMAIN input
    BY <1>1
  <2>2. QED BY <1>2, <2>1, InOrderTotal
<1>4. QED BY <1>2, <1>3 DEF TotalOn

\* The order of the store, written as an arrangement.
LEMMA StableOrderArranged ==
  ASSUME TypeOK
  PROVE  StableOrder = [n \in 1 .. Len(store) |->
           store[Arranged(Places(StoreOrder, 1 .. Len(store)), 1 .. Len(store))[n]]]
<1>1. DOMAIN store = 1 .. Len(store)
  BY StoredRows
<1>2. ASSUME NEW i \in DOMAIN store
      PROVE  {j \in DOMAIN store : Earlier(j, i)} = Before(StoreOrder, DOMAIN store, i)
  BY PairInStoreOrder DEF Before
<1>3. Place = Places(StoreOrder, DOMAIN store)
  BY <1>2 DEF Place, Places
<1>4. StableOrder = [n \in DOMAIN store |-> store[Arranged(Place, DOMAIN store)[n]]]
  BY DEF StableOrder, Arranged
<1>5. QED BY <1>1, <1>3, <1>4

\* The reference result, written as an arrangement.
LEMMA AnswerArranged ==
  ASSUME TypeOK
  PROVE  Answer = Arranged(Places(InputOrder, 1 .. Len(input)), 1 .. Len(input))
<1>1. DOMAIN input = 1 .. Len(input)
  BY InputRows
<1>2. ASSUME NEW a \in DOMAIN input
      PROVE  {b \in DOMAIN input : InOrder(b, a)} = Before(InputOrder, DOMAIN input, a)
  BY PairInInputOrder DEF Before
<1> DEFINE place == [a \in DOMAIN input |-> 1 + Cardinality({b \in DOMAIN input : InOrder(b, a)})]
<1>3. place = Places(InputOrder, DOMAIN input)
  BY <1>2 DEF Places
<1>4. Answer = Arranged(place, DOMAIN input)
  BY DEF Answer, Arranged
<1> HIDE DEF place
<1>5. QED BY <1>1, <1>3, <1>4

\* The stable order has the rows of the store, in the reference order.
LEMMA StableOrderInOrder ==
  ASSUME TypeOK
  PROVE  /\ StableOrder \in Seq(DOMAIN input) /\ Len(StableOrder) = Len(store)
         /\ \A m, n \in 1 .. Len(store) : m < n => InOrder(StableOrder[m], StableOrder[n])
         /\ \A i \in 1 .. Len(store) : \E n \in 1 .. Len(store) : StableOrder[n] = store[i]
<1> DEFINE at == Arranged(Places(StoreOrder, 1 .. Len(store)), 1 .. Len(store))
<1>1. /\ at \in Seq(1 .. Len(store)) /\ Len(at) = Len(store)
      /\ \A k, l \in 1 .. Len(store) : k < l => <<at[k], at[l]>> \in StoreOrder
      /\ \A a \in 1 .. Len(store) : \E k \in 1 .. Len(store) : at[k] = a
  BY StoredRows, StoreOrderTotal, ArrangedInOrder
<1>2. StableOrder = [n \in 1 .. Len(store) |-> store[at[n]]]
  BY StableOrderArranged
<1> HIDE DEF at
<1>3. Len(store) \in Nat /\ DOMAIN store = 1 .. Len(store)
  BY StoredRows
<1>4. \A n \in 1 .. Len(store) : at[n] \in DOMAIN store
  BY <1>1, <1>3, ElementOfSeq
<1>5. StableOrder \in [1 .. Len(store) -> DOMAIN input]
  BY <1>2, <1>4, StoredRows
<1>6. StableOrder \in Seq(DOMAIN input) /\ Len(StableOrder) = Len(store)
  BY <1>3, <1>5
<1>7. \A m, n \in 1 .. Len(store) : m < n => InOrder(StableOrder[m], StableOrder[n])
  BY <1>1, <1>2, <1>4, StoreOrderTotal
<1>8. \A i \in 1 .. Len(store) : \E n \in 1 .. Len(store) : StableOrder[n] = store[i]
  BY <1>1, <1>2
<1>9. QED BY <1>6, <1>7, <1>8

\* When no row was lost on the way the stable order is the reference result.
LEMMA StableOrderIsAnswer ==
  ASSUME TypeOK, pulled = Len(input), store = [i \in 1 .. pulled |-> i]
  PROVE  StableOrder = Answer
<1>1. Len(store) = Len(input) /\ Len(input) \in Nat /\ DOMAIN input = 1 .. Len(input)
      /\ DOMAIN store = 1 .. Len(input)
  BY InputRows
<1>2. \A i \in 1 .. Len(input) : store[i] = i
  BY <1>1
<1>3. \A i, j \in 1 .. Len(input) : <<i, j>> \in StoreOrder <=> <<i, j>> \in InputOrder
  BY <1>1, <1>2, StoreOrderTotal, InputOrderTotal
<1> DEFINE rows == 1 .. Len(input)
<1>4. ASSUME NEW i \in rows PROVE Before(StoreOrder, rows, i) = Before(InputOrder, rows, i)
  BY <1>3 DEF Before
<1>5. Places(StoreOrder, rows) = Places(InputOrder, rows)
  <2> HIDE DEF rows
  <2>1. QED BY <1>4 DEF Places
<1>6. Arranged(Places(StoreOrder, rows), rows) = Arranged(Places(InputOrder, rows), rows)
  BY <1>5
<1> DEFINE at == Arranged(Places(InputOrder, rows), rows)
<1>7. at \in Seq(1 .. Len(input)) /\ Len(at) = Len(input)
  BY <1>1, InputOrderTotal, ArrangedInOrder
<1>8. StableOrder = [n \in 1 .. Len(input) |-> store[at[n]]]
  BY <1>1, <1>6, StableOrderArranged
<1> HIDE DEF at
<1>9. \A n \in 1 .. Len(input) : at[n] \in 1 .. Len(input)
  BY <1>7, ElementOfSeq
<1>10. StableOrder = [n \in 1 .. Len(input) |-> at[n]]
  BY <1>2, <1>8, <1>9
<1>11. at = [n \in 1 .. Len(input) |-> at[n]]
  BY <1>1, <1>7
<1>12. QED BY <1>10, <1>11, AnswerArranged DEF at

-----------------------------------------------------------------------------
\* The invariant is inductive.

\* The orders depend on the input, the keys and the store alone.
LEMMA OrdersKept ==
  ASSUME UNCHANGED <<input, keys>>
  PROVE  /\ Answer' = Answer
         /\ store' = store => StableOrder' = StableOrder
<1>1. input' = input /\ keys' = keys
  OBVIOUS
<1>2. Answer' = Answer
  BY <1>1 DEF Answer, InOrder, RankBefore, RankLess, NullSide, Smaller
<1>3. ASSUME store' = store PROVE StableOrder' = StableOrder
  BY <1>1, <1>3 DEF StableOrder, Place, Earlier, Ahead, Decides, NullAhead
<1>4. QED BY <1>2, <1>3

\* The values of the variables, as sequences and numbers.
LEMMA Values ==
  ASSUME TypeOK
  PROVE  /\ Len(input) \in Nat /\ DOMAIN input = 1 .. Len(input)
         /\ pulled \in Nat /\ pulled <= Len(input) /\ store \in Seq(1 .. pulled)
         /\ order \in Seq(DOMAIN input) /\ out \in Seq(DOMAIN input) /\ delivered \in Seq(DOMAIN input)
         /\ Len(store) \in Nat /\ Len(order) \in Nat /\ Len(out) \in Nat /\ Len(delivered) \in Nat
         /\ Len(order) = IF sorted THEN Len(store) ELSE 0
         /\ cursor \in Nat /\ 1 <= cursor /\ cursor <= Len(order) + 1
         /\ Capacity \in Nat /\ Capacity >= 1 /\ Len(out) <= Capacity /\ sorted \in BOOLEAN
<1>1. Len(input) \in Nat /\ DOMAIN input = 1 .. Len(input)
  BY InputRows
<1>2. order \in Seq(DOMAIN input) /\ out \in Seq(DOMAIN input) /\ delivered \in Seq(DOMAIN input)
  BY Zenon DEF TypeOK
<1>3. store \in Seq(1 .. pulled)
  BY DEF TypeOK
<1>4. Len(store) \in Nat /\ Len(order) \in Nat /\ Len(out) \in Nat /\ Len(delivered) \in Nat
  BY <1>2, <1>3, LenProperties
<1>5. pulled \in Nat /\ pulled <= Len(input)
  BY <1>1 DEF TypeOK
<1>6. /\ Len(order) = IF sorted THEN Len(store) ELSE 0
      /\ cursor \in 1 .. Len(order) + 1 /\ Len(out) <= Capacity /\ sorted \in BOOLEAN
  BY Zenon DEF TypeOK
<1>7. cursor \in Nat /\ 1 <= cursor /\ cursor <= Len(order) + 1
  BY <1>4, <1>6
<1>8. QED BY <1>1, <1>2, <1>3, <1>4, <1>5, <1>6, <1>7, SortAssumption

\* Nothing has been pulled at first.
LEMMA InitIInv ==
  ASSUME Init
  PROVE  IInv
<1>1. input \in Seq(Seq(Cell))
  BY SortAssumption DEF Init
<1>2. Len(input) \in Nat /\ DOMAIN input = 1 .. Len(input)
  BY <1>1, LenProperties
<1>3. \A r \in DOMAIN input : Len(input[r]) = Len(keys)
  BY DEF Init, Range
<1>4. TypeOK
  <2>1. {order, out, delivered} \subseteq Seq(DOMAIN input) /\ store \in Seq(1 .. pulled)
    BY EmptySeq DEF Init
  <2>2. /\ Len(store) = 0 /\ Len(order) = 0 /\ Len(out) = 0 /\ DOMAIN store = {}
    BY DEF Init
  <2>3. /\ input \in Inputs /\ keys \in SortKeys /\ pulled \in 0 .. Len(input)
        /\ \A i, j \in DOMAIN store : i < j => store[i] < store[j]
        /\ sorted \in BOOLEAN /\ Len(order) = IF sorted THEN Len(store) ELSE 0
        /\ cursor \in 1 .. Len(order) + 1 /\ pc \in {"idle", "drain", "emit"}
        /\ Len(out) <= Capacity /\ verdict \in {"more", "end", "threw"}
    <3>1. pulled \in 0 .. Len(input)
      BY <1>2 DEF Init
    <3>2. \A i, j \in DOMAIN store : i < j => store[i] < store[j]
      BY <2>2
    <3>3. cursor \in 1 .. Len(order) + 1 /\ Len(out) <= Capacity
      BY <2>2, SortAssumption DEF Init
    <3>4. sorted \in BOOLEAN /\ Len(order) = IF sorted THEN Len(store) ELSE 0
      BY <2>2 DEF Init
    <3>5. /\ input \in Inputs /\ keys \in SortKeys /\ pc \in {"idle", "drain", "emit"}
          /\ verdict \in {"more", "end", "threw"}
      BY DEF Init
    <3>6. QED BY <3>1, <3>2, <3>3, <3>4, <3>5
  <2>4. QED BY <1>3, <2>1, <2>3 DEF TypeOK
<1>5. SortedOnce
  BY DEF Init, SortedOnce
<1>6. GivenSoFar
  BY SubSeqEmpty DEF Init, GivenSoFar
<1>7. Reported
  BY DEF Init, Reported
<1>8. QED BY <1>4, <1>5, <1>6, <1>7 DEF IInv

\* A call begins with an empty batch.
LEMMA CallIInv ==
  ASSUME IInv, Call
  PROVE  IInv'
<1> USE DEF IInv
<1>1. /\ UNCHANGED <<input, keys, pulled, store, order, sorted, cursor, delivered, verdict>>
      /\ pc = "idle" /\ out' = << >> /\ pc' = IF sorted THEN "emit" ELSE "drain"
  BY DEF Call, frozen
<1>2. TypeOK'
  <2>1. << >> \in Seq(DOMAIN input) /\ Len(<< >>) = 0
    BY EmptySeq
  <2>2. QED BY <1>1, <2>1, SortAssumption DEF TypeOK
<1>3. SortedOnce'
  <2>1. StableOrder' = StableOrder
    BY <1>1, OrdersKept
  <2>2. QED BY <1>1, <2>1 DEF SortedOnce
<1>4. GivenSoFar'
  BY <1>1 DEF GivenSoFar
<1>5. Reported'
  BY <1>1 DEF Reported
<1>6. QED BY <1>2, <1>3, <1>4, <1>5

\* A row more is stored, behind those before it.
LEMMA DrainIInv ==
  ASSUME IInv, Drain
  PROVE  IInv'
<1> USE DEF IInv
<1>1. /\ UNCHANGED <<input, keys, order, sorted, cursor, pc, out, delivered, verdict>>
      /\ pc = "drain" /\ pulled < Len(input) /\ pulled' = pulled + 1
      /\ store' = Append(store, pulled + 1)
  BY DEF Drain, frozen
<1>2. ~ sorted /\ ~ sorted' /\ verdict # "end"
  BY <1>1 DEF SortedOnce, Reported
<1>3. /\ store' \in Seq(1 .. pulled + 1) /\ Len(store') = Len(store) + 1
      /\ \A i \in 1 .. Len(store) : store'[i] = store[i]
      /\ store'[Len(store) + 1] = pulled + 1
  <2>1. store \in Seq(1 .. pulled + 1) /\ pulled + 1 \in 1 .. pulled + 1
    <3>1. 1 .. pulled \subseteq 1 .. pulled + 1 /\ pulled + 1 \in 1 .. pulled + 1
      BY Values
    <3>2. QED BY <3>1, Values, SeqMonotonic
  <2>2. QED BY <1>1, <2>1, AppendProperties
<1>4. \A i, j \in DOMAIN store' : i < j => store'[i] < store'[j]
  <2> DEFINE n == Len(store)
  <2>0. n \in Nat /\ pulled \in Nat
    BY Values
  <2> SUFFICES ASSUME NEW i \in 1 .. n + 1, NEW j \in 1 .. n + 1, i < j
               PROVE  store'[i] < store'[j]
    BY <1>3, Values, LenProperties
  <2>1. i \in 1 .. n /\ store[i] \in 1 .. pulled
    <3>1. i \in 1 .. n
      <4> HIDE DEF n
      <4>1. QED BY <2>0
    <3>2. QED BY <3>1, Values, ElementOfSeq
  <2>2. CASE j = n + 1
    <3>1. store'[i] = store[i] /\ store'[j] = pulled + 1
      BY <1>3, <2>1, <2>2
    <3>2. QED BY <2>0, <2>1, <3>1
  <2>3. CASE j # n + 1
    <3>1. j \in 1 .. n
      <4> HIDE DEF n
      <4>1. QED BY <2>0, <2>3
    <3>2. i \in DOMAIN store /\ j \in DOMAIN store
      BY <2>1, <3>1, StoredRows
    <3>3. store[i] < store[j]
      BY <3>2 DEF TypeOK
    <3>4. QED BY <1>3, <2>1, <3>1, <3>3
  <2>4. QED BY <2>2, <2>3
<1>5. TypeOK'
  BY <1>1, <1>2, <1>3, <1>4, Values DEF TypeOK
<1>6. SortedOnce'
  BY <1>1, <1>2 DEF SortedOnce
<1>7. GivenSoFar'
  BY <1>1 DEF GivenSoFar
<1>8. Reported'
  <2>1. ASSUME verdict # "threw" PROVE store' = [i \in 1 .. pulled + 1 |-> i]
    <3>1. store = [i \in 1 .. pulled |-> i]
      BY <2>1 DEF Reported
    <3>2. Len(store) = pulled /\ \A i \in 1 .. pulled : store[i] = i
      BY <3>1, Values
    <3>3. store' \in [1 .. pulled + 1 -> 1 .. pulled + 1]
      BY <1>3, <3>2, LenProperties
    <3>4. ASSUME NEW i \in 1 .. pulled + 1 PROVE store'[i] = i
      <4>1. pulled \in Nat
        BY Values
      <4>2. i \in 1 .. pulled \/ i = pulled + 1
        BY <4>1
      <4>3. QED BY <1>3, <3>2, <4>2
    <3>5. QED BY <3>3, <3>4
  <2>2. QED BY <1>1, <1>2, <2>1 DEF Reported
<1>9. QED BY <1>5, <1>6, <1>7, <1>8

\* An exception loses rows; the store keeps what it has.
LEMMA ChildThrowIInv ==
  ASSUME IInv, ChildThrow
  PROVE  IInv'
<1> USE DEF IInv
<1>1. /\ UNCHANGED <<input, keys, store, order, sorted, cursor, out, delivered>>
      /\ pc = "drain" /\ pulled' \in pulled .. Len(input) /\ pc' = "idle" /\ verdict' = "threw"
  BY DEF ChildThrow, frozen
<1>2. ~ sorted /\ ~ sorted'
  BY <1>1 DEF SortedOnce
<1>3. pulled' \in Nat /\ pulled <= pulled' /\ pulled' <= Len(input)
  BY <1>1, Values
<1>4. store \in Seq(1 .. pulled')
  <2>1. 1 .. pulled \subseteq 1 .. pulled'
    BY <1>3, Values
  <2>2. QED BY <2>1, Values, SeqMonotonic
<1>5. TypeOK'
  BY <1>1, <1>3, <1>4 DEF TypeOK
<1>6. SortedOnce'
  BY <1>1, <1>2 DEF SortedOnce
<1>7. GivenSoFar'
  BY <1>1 DEF GivenSoFar
<1>8. Reported'
  BY <1>1 DEF Reported
<1>9. QED BY <1>5, <1>6, <1>7, <1>8

\* The store is complete and is sorted.
LEMMA SortRowsIInv ==
  ASSUME IInv, SortRows
  PROVE  IInv'
<1> USE DEF IInv
<1>1. /\ UNCHANGED <<input, keys, pulled, store, cursor, out, delivered, verdict>>
      /\ pc = "drain" /\ pulled = Len(input) /\ order' = StableOrder /\ sorted' = TRUE /\ pc' = "emit"
  BY DEF SortRows, frozen
<1>2. ~ sorted /\ cursor = 1 /\ out = << >> /\ verdict # "end"
  BY <1>1 DEF SortedOnce, Reported
<1>3. StableOrder \in Seq(DOMAIN input) /\ Len(StableOrder) = Len(store)
  BY StableOrderInOrder
<1>4. TypeOK'
  BY <1>1, <1>2, <1>3, Values DEF TypeOK
<1>5. SortedOnce'
  <2>1. StableOrder' = StableOrder
    BY <1>1, OrdersKept
  <2>2. QED BY <1>1, <2>1 DEF SortedOnce
<1>6. GivenSoFar'
  <2>1. delivered \o << >> = SubSeq(order, 1, 0)
    BY <1>1, <1>2 DEF GivenSoFar
  <2>2. SubSeq(order, 1, 0) = << >> /\ SubSeq(StableOrder, 1, 0) = << >>
    BY SubSeqEmpty
  <2>3. QED BY <1>1, <1>2, <2>1, <2>2 DEF GivenSoFar
<1>7. Reported'
  BY <1>1, <1>2 DEF Reported
<1>8. QED BY <1>4, <1>5, <1>6, <1>7

\* The next row of the order is put into the batch.
LEMMA EmitRowIInv ==
  ASSUME IInv, EmitRow
  PROVE  IInv'
<1> USE DEF IInv
<1>1. /\ UNCHANGED <<input, keys, pulled, store, order, sorted, pc, delivered, verdict>>
      /\ pc = "emit" /\ cursor <= Len(order) /\ Len(out) < Capacity
      /\ out' = Append(out, order[cursor]) /\ cursor' = cursor + 1
  BY DEF EmitRow, frozen, HasRoom
<1>2. sorted /\ verdict # "end"
  BY <1>1, Values DEF SortedOnce, Reported
<1>3. cursor \in 1 .. Len(order) /\ order[cursor] \in DOMAIN input
  <2>1. cursor \in 1 .. Len(order)
    BY <1>1, Values
  <2>2. QED BY <2>1, Values, ElementOfSeq
<1>4. out' \in Seq(DOMAIN input) /\ Len(out') = Len(out) + 1
  BY <1>1, <1>3, Values, AppendProperties
<1>5. TypeOK'
  <2>1. cursor + 1 \in 1 .. Len(order) + 1 /\ Len(out) + 1 <= Capacity
    BY <1>1, <1>3, Values
  <2>2. QED BY <1>1, <1>4, <2>1 DEF TypeOK
<1>6. SortedOnce'
  <2>1. StableOrder' = StableOrder
    BY <1>1, OrdersKept
  <2>2. QED BY <1>1, <1>2, <2>1 DEF SortedOnce
<1>7. GivenSoFar'
  <2>1. delivered \o out = SubSeq(order, 1, cursor - 1)
    BY <1>1 DEF GivenSoFar
  <2>2. SubSeq(order, 1, cursor) = SubSeq(order, 1, cursor - 1) \o <<order[cursor]>>
    <3>1. 1 \in 1 .. Len(order) /\ cursor \in 1 .. Len(order) /\ order \in Seq(DOMAIN input)
      BY <1>3, Values
    <3>2. QED BY <3>1, SubSeqRecursiveSecond
  <2>3. out' = out \o <<order[cursor]>>
    BY <1>1, <1>3, Values, AppendIsConcat
  <2>4. delivered \o (out \o <<order[cursor]>>) = (delivered \o out) \o <<order[cursor]>>
    <3>1. <<order[cursor]>> \in Seq(DOMAIN input)
      BY <1>3
    <3>2. delivered \in Seq(DOMAIN input) /\ out \in Seq(DOMAIN input)
      BY Values
    <3>3. QED BY <3>1, <3>2, ConcatAssociative
  <2>5. delivered \o out' = SubSeq(order, 1, cursor)
    BY <2>1, <2>2, <2>3, <2>4
  <2>6. cursor' - 1 = cursor
    BY <1>1, Values
  <2>7. QED BY <1>1, <2>5, <2>6 DEF GivenSoFar
<1>8. Reported'
  BY <1>1, <1>2 DEF Reported
<1>9. QED BY <1>5, <1>6, <1>7, <1>8

\* The batch is handed over, or the end is told.
LEMMA ReturnIInv ==
  ASSUME IInv, Return
  PROVE  IInv'
<1> USE DEF IInv
<1>1. /\ UNCHANGED <<input, keys, pulled, store, order, sorted, cursor, out>>
      /\ pc = "emit" /\ (Len(out) = Capacity \/ cursor > Len(order)) /\ pc' = "idle"
      /\ delivered' = delivered \o out
      /\ verdict' = IF out = << >> /\ verdict = "more" THEN "end" ELSE verdict
  BY DEF Return, frozen, Told
<1>2. sorted
  BY <1>1 DEF SortedOnce
<1>3. delivered \o out \in Seq(DOMAIN input)
  BY Values, ConcatProperties
<1>4. TypeOK'
  BY <1>1, <1>3 DEF TypeOK
<1>5. SortedOnce'
  <2>1. StableOrder' = StableOrder
    BY <1>1, OrdersKept
  <2>2. QED BY <1>1, <1>2, <2>1 DEF SortedOnce
<1>6. GivenSoFar'
  <2>1. (delivered \o out) \o << >> = delivered \o out
    BY <1>3, ConcatEmptySeq
  <2>2. QED BY <1>1, <2>1 DEF GivenSoFar
<1>7. Reported'
  <2>1. ASSUME out = << >> PROVE cursor = Len(order) + 1
    <3>1. Len(out) = 0
      BY <2>1
    <3>2. QED BY <1>1, <3>1, Values
  <2>2. QED BY <1>1, <1>2, <2>1 DEF Reported
<1>8. QED BY <1>4, <1>5, <1>6, <1>7

\* Every step keeps it.
LEMMA NextIInv ==
  ASSUME IInv, [Next]_vars
  PROVE  IInv'
<1>1. CASE Next
  BY <1>1, CallIInv, DrainIInv, ChildThrowIInv, SortRowsIInv, EmitRowIInv, ReturnIInv
     DEF Next, Work
<1>2. CASE UNCHANGED vars
  <2>1. UNCHANGED <<input, keys, pulled, store, order, sorted, cursor, pc, out, delivered, verdict>>
    BY <1>2 DEF vars
  <2>2. StableOrder' = StableOrder
    BY <2>1, OrdersKept
  <2>3. QED BY <2>1, <2>2 DEF IInv, TypeOK, SortedOnce, GivenSoFar, Reported
<1>3. QED BY <1>1, <1>2

-----------------------------------------------------------------------------
\* What the runs check of the rows.

\* What has been given is the beginning of the order.
LEMMA GivenIsPrefix ==
  ASSUME IInv
  PROVE  /\ Len(delivered) <= cursor - 1 /\ Len(delivered) <= Len(order)
         /\ \A i \in 1 .. Len(delivered) : delivered[i] = order[i]
         /\ sorted \/ delivered = << >>
<1> USE DEF IInv
<1> DEFINE rest == IF pc = "emit" THEN out ELSE << >>
           given == SubSeq(order, 1, cursor - 1)
<1>1. rest \in Seq(DOMAIN input) /\ Len(rest) \in Nat
  <2>1. << >> \in Seq(DOMAIN input) /\ Len(<< >>) = 0
    BY EmptySeq
  <2>2. QED BY <2>1, Values
<1>2. delivered \o rest = given
  BY DEF GivenSoFar
<1>3. Len(given) = cursor - 1 /\ \A i \in 1 .. cursor - 1 : given[i] = order[i]
  <2>1. cursor - 1 \in Nat /\ cursor - 1 <= Len(order) /\ order \in Seq(DOMAIN input)
    BY Values
  <2>2. \A i \in 1 .. cursor - 1 : i \in 1 .. Len(order)
    BY <2>1, Values
  <2>3. \A i \in 1 .. cursor - 1 : order[i] \in DOMAIN input
    BY <2>1, <2>2, ElementOfSeq
  <2> HIDE DEF rest
  <2>4. /\ Len(given) = IF 1 <= cursor - 1 THEN cursor - 1 - 1 + 1 ELSE 0
        /\ \A i \in 1 .. cursor - 1 - 1 + 1 : given[i] = order[1 + i - 1]
    <3>1. 1 \in Int /\ cursor - 1 \in Int
      BY <2>1
    <3>2. QED BY <2>3, <3>1, SubSeqProperties
  <2> HIDE DEF given
  <2>5. cursor - 1 - 1 + 1 = cursor - 1 /\ \A i \in 1 .. cursor - 1 : 1 + i - 1 = i
    BY <2>1
  <2>6. QED BY <2>1, <2>4, <2>5
<1> HIDE DEF rest, given
<1>4. /\ Len(delivered \o rest) = Len(delivered) + Len(rest)
      /\ \A i \in 1 .. Len(delivered) + Len(rest) :
           (delivered \o rest)[i] = IF i <= Len(delivered) THEN delivered[i] ELSE rest[i - Len(delivered)]
  BY <1>1, Values, ConcatProperties
<1>5. Len(delivered) + Len(rest) = cursor - 1
  BY <1>2, <1>3, <1>4
<1>6. Len(delivered) <= cursor - 1 /\ Len(delivered) <= Len(order)
  BY <1>1, <1>5, Values
<1>7. ASSUME NEW i \in 1 .. Len(delivered) PROVE delivered[i] = order[i]
  <2>1. i \in 1 .. cursor - 1 /\ i \in 1 .. Len(delivered) + Len(rest) /\ i <= Len(delivered)
    BY <1>1, <1>5, <1>6, Values
  <2>2. QED BY <1>2, <1>3, <1>4, <2>1
<1>8. sorted \/ delivered = << >>
  <2>1. CASE ~ sorted
    <3>1. Len(delivered) = 0
      BY <1>6, <2>1, Values
    <3>2. QED BY <3>1, Values, EmptySeq
  <2>2. QED BY <2>1, Values
<1>9. QED BY <1>6, <1>7, <1>8

\* The invariant says that rows come in order and once.
LEMMA InOrderAndOnce ==
  ASSUME IInv
  PROVE  RowsInOrderAndOnce
<1> USE DEF IInv
<1> SUFFICES ASSUME NEW x \in DOMAIN delivered, NEW y \in DOMAIN delivered, x < y
             PROVE  InOrder(delivered[x], delivered[y])
  BY DEF RowsInOrderAndOnce
<1>1. x \in 1 .. Len(delivered) /\ y \in 1 .. Len(delivered)
  BY Values, LenProperties
<1>2. delivered # << >> /\ sorted
  <2>1. Len(delivered) # 0
    BY <1>1
  <2>2. QED BY <2>1, GivenIsPrefix
<1>3. order = StableOrder /\ Len(order) = Len(store)
  BY <1>2, Values DEF SortedOnce
<1>4. x \in 1 .. Len(store) /\ y \in 1 .. Len(store)
  <2>1. Len(delivered) <= Len(store) /\ Len(delivered) \in Nat /\ Len(store) \in Nat
    BY <1>3, GivenIsPrefix, Values
  <2>2. QED BY <1>1, <2>1
<1>5. InOrder(order[x], order[y])
  BY <1>3, <1>4, StableOrderInOrder
<1>6. QED BY <1>1, <1>5, GivenIsPrefix

\* The inductive invariant of the sort, for every input, list of keys and batch size.
THEOREM SortInvariance == Spec => []IInv
<1>1. Init => IInv
  BY InitIInv
<1>2. IInv /\ [Next]_vars => IInv'
  BY NextIInv
<1>3. QED BY <1>1, <1>2, PTL DEF Spec

\* The lambda given to std::stable_sort is a strict weak order on every store
\* (blocking.cpp): with NULL and NaN, on any number of keys in any directions.
THEOREM SortComparator == Spec => []ComparatorIsStrictWeak
<1>1. IInv => ComparatorIsStrictWeak
  BY StrictWeak DEF IInv
<1>2. QED BY <1>1, SortInvariance, PTL

\* No row comes twice or out of order, exceptions of the child or not.
THEOREM SortRowsInOrder == Spec => []RowsInOrderAndOnce
<1>1. IInv => RowsInOrderAndOnce
  BY InOrderAndOnce
<1>2. QED BY <1>1, SortInvariance, PTL

-----------------------------------------------------------------------------
\* The sort implements the pull contract.

\* As a prefix, element by element.
LEMMA PrefixByElement ==
  ASSUME NEW S, NEW s \in Seq(S), NEW t \in Seq(S), Len(s) <= Len(t),
         \A i \in 1 .. Len(s) : s[i] = t[i]
  PROVE  IsPrefix(s, t)
<1> DEFINE n == Len(s)
<1>1. n \in Nat /\ Len(t) \in Nat
  BY LenProperties
<1>2. \A i \in 1 .. n : s[i] \in S /\ t[i] \in S
  <2>1. \A i \in 1 .. n : i \in 1 .. Len(t)
    BY <1>1
  <2>2. QED BY <2>1, ElementOfSeq
<1> HIDE DEF n
<1>3. /\ SubSeq(s, 1, n) \in Seq(S) /\ Len(SubSeq(s, 1, n)) = IF 1 <= n THEN n - 1 + 1 ELSE 0
      /\ \A i \in 1 .. n - 1 + 1 : SubSeq(s, 1, n)[i] = s[1 + i - 1]
  BY <1>1, <1>2, SubSeqProperties
<1>4. /\ SubSeq(t, 1, n) \in Seq(S) /\ Len(SubSeq(t, 1, n)) = IF 1 <= n THEN n - 1 + 1 ELSE 0
      /\ \A i \in 1 .. n - 1 + 1 : SubSeq(t, 1, n)[i] = t[1 + i - 1]
  BY <1>1, <1>2, SubSeqProperties
<1>5. \A i \in 1 .. n : SubSeq(s, 1, n)[i] = SubSeq(t, 1, n)[i]
  <2> SUFFICES ASSUME NEW i \in 1 .. n PROVE SubSeq(s, 1, n)[i] = SubSeq(t, 1, n)[i]
    OBVIOUS
  <2>1. i \in 1 .. n - 1 + 1 /\ 1 + i - 1 = i
    BY <1>1
  <2>2. s[i] = t[i]
    BY DEF n
  <2>3. QED BY <1>3, <1>4, <2>1, <2>2
<1>6. Len(SubSeq(s, 1, n)) = n /\ Len(SubSeq(t, 1, n)) = n
  BY <1>1, <1>3, <1>4
<1>7. SubSeq(s, 1, n) = SubSeq(t, 1, n)
  BY <1>3, <1>4, <1>5, <1>6, SeqEqual
<1>8. QED BY <1>7 DEF IsPrefix, n

\* The result is a sequence of rows.
LEMMA AnswerIsSeq ==
  ASSUME TypeOK
  PROVE  Answer \in Seq(DOMAIN input) /\ Len(Answer) = Len(input)
<1>1. DOMAIN input = 1 .. Len(input) /\ Len(input) \in Nat
  BY InputRows
<1>2. QED BY <1>1, AnswerArranged, InputOrderTotal, ArrangedInOrder

\* Nothing has been given at first.
LEMMA InitContract ==
  ASSUME Init
  PROVE  Contract!Init
  BY DEF Init, Contract!Init

\* As long as nothing threw, the order is the result, and a return hands over the
\* next rows of it or ends where it ends; afterwards no row is taken back.
LEMMA ReturnContract ==
  ASSUME IInv, Return, IInv'
  PROVE  [Contract!Next]_<<Answer, delivered, verdict>>
<1>1. /\ UNCHANGED <<input, keys, pulled, store, order, sorted, cursor, out>>
      /\ pc = "emit" /\ (Len(out) = Capacity \/ cursor > Len(order))
      /\ delivered' = delivered \o out
      /\ verdict' = IF out = << >> /\ verdict = "more" THEN "end" ELSE verdict
  BY DEF Return, frozen, Told
<1>2. Answer' = Answer
  BY <1>1, OrdersKept
<1>3. /\ delivered \in Seq(DOMAIN input) /\ out \in Seq(DOMAIN input)
      /\ Len(delivered) \in Nat /\ Len(out) \in Nat /\ Len(out) <= Capacity
      /\ sorted /\ order = StableOrder /\ pulled = Len(input)
      /\ verdict \in {"more", "end", "threw"}
  BY <1>1, Values DEF IInv, SortedOnce, TypeOK
<1>4. /\ delivered' \in Seq(DOMAIN input) /\ Len(delivered') = Len(delivered) + Len(out)
      /\ \A i \in 1 .. Len(delivered) : delivered'[i] = delivered[i]
  <2>1. \A i \in 1 .. Len(delivered) : i \in 1 .. Len(delivered) + Len(out) /\ i <= Len(delivered)
    BY <1>3
  <2>2. QED BY <1>1, <1>3, <2>1, ConcatProperties
<1>5. IsPrefix(delivered, delivered')
  <2>1. Len(delivered) <= Len(delivered')
    BY <1>3, <1>4
  <2>2. QED BY <1>3, <1>4, <2>1, PrefixByElement
<1>6. CASE verdict = "threw"
  BY <1>1, <1>2, <1>5, <1>6 DEF Contract!Next, Contract!Salvage, Contract!IsPrefix, IsPrefix
<1>7. CASE verdict = "end"
  <2>1. out = << >>
    BY <1>7 DEF IInv, Reported
  <2>2. delivered' = delivered
    BY <1>1, <1>3, <2>1, ConcatEmptySeq
  <2>3. QED BY <1>1, <1>2, <1>7, <2>2
<1>8. CASE verdict = "more"
  <2>1. order = Answer
    <3>1. store = [i \in 1 .. pulled |-> i]
      BY <1>8 DEF IInv, Reported
    <3>2. QED BY <1>3, <3>1, StableOrderIsAnswer DEF IInv
  <2>2. Answer \in Seq(DOMAIN input)
    BY AnswerIsSeq DEF IInv
  <2>3. CASE out # << >>
    <3>1. Len(out) \in 1 .. Capacity
      <4>1. Len(out) # 0
        BY <1>3, <2>3, EmptySeq
      <4>2. QED BY <1>3, <4>1, SortAssumption
    <3>2. Len(delivered') - Len(delivered) \in 1 .. Capacity
      BY <1>3, <1>4, <3>1
    <3>3. IsPrefix(delivered', Answer)
      <4>1. /\ Len(delivered') <= Len(order') /\ order' = order
            /\ \A i \in 1 .. Len(delivered') : delivered'[i] = order'[i]
        <5>1. (IInv => /\ Len(delivered) <= Len(order)
                       /\ \A i \in 1 .. Len(delivered) : delivered[i] = order[i])'
          BY GivenIsPrefix, PTL
        <5>2. QED BY <1>1, <5>1
      <4>2. QED BY <1>4, <2>1, <2>2, <4>1, PrefixByElement
    <3>4. QED BY <1>1, <1>2, <1>5, <1>8, <2>3, <3>2, <3>3
              DEF Contract!Next, Contract!Deliver, Contract!IsPrefix, IsPrefix
  <2>4. CASE out = << >>
    <3>1. delivered' = delivered /\ verdict' = "end"
      BY <1>1, <1>3, <1>8, <2>4, ConcatEmptySeq
    <3>2. delivered = Answer
      <4>1. cursor = Len(order) + 1
        <5>1. Len(out) = 0
          BY <2>4
        <5>2. QED BY <1>1, <5>1, Values DEF IInv
      <4>2. delivered \o << >> = SubSeq(order, 1, cursor - 1)
        BY <1>1, <2>4 DEF IInv, GivenSoFar
      <4>3. delivered \o << >> = delivered
        BY <1>3, ConcatEmptySeq
      <4>4. cursor - 1 = Len(order)
        BY <4>1, Values DEF IInv
      <4>5. SubSeq(order, 1, Len(order)) = order
        BY <2>1, <2>2, SubSeqFull
      <4>6. QED BY <2>1, <4>2, <4>3, <4>4, <4>5
    <3>3. QED BY <1>2, <1>8, <3>1, <3>2 DEF Contract!Next, Contract!Finish
  <2>5. QED BY <2>3, <2>4
<1>9. QED BY <1>3, <1>6, <1>7, <1>8

\* Every other step hands over nothing; an exception is told.
LEMMA StepContract ==
  ASSUME IInv, [Next]_vars, IInv'
  PROVE  [Contract!Next]_<<Answer, delivered, verdict>>
<1>1. CASE Return
  BY <1>1, ReturnContract
<1>2. CASE Call \/ Drain \/ SortRows \/ EmitRow \/ UNCHANGED vars
  <2>1. UNCHANGED <<input, keys, delivered, verdict>>
    BY <1>2 DEF Call, Drain, SortRows, EmitRow, frozen, vars
  <2>2. QED BY <2>1, OrdersKept
<1>3. CASE ChildThrow
  <2>1. /\ UNCHANGED <<input, keys, delivered>> /\ pc = "drain" /\ verdict' = "threw"
    BY <1>3 DEF ChildThrow, frozen
  <2>2. Answer' = Answer
    BY <2>1, OrdersKept
  <2>3. verdict \in {"more", "threw"}
    BY <2>1 DEF IInv, TypeOK, SortedOnce, Reported
  <2>4. QED BY <2>1, <2>2, <2>3 DEF Contract!Next, Contract!Throw
<1>4. QED BY <1>1, <1>2, <1>3 DEF Next, Work

\* The sort gives all rows in the reference order, in batches of at most Capacity,
\* says the end when it has given the last, and after an exception takes none back.
THEOREM SortKeepsContract == Spec => Contract!Safety
<1>1. Init => Contract!Init
  BY InitContract
<1>2. IInv /\ [Next]_vars /\ IInv' => [Contract!Next]_<<Answer, delivered, verdict>>
  BY StepContract
<1>3. QED BY <1>1, <1>2, SortInvariance, PTL DEF Spec, Contract!Safety
=============================================================================
