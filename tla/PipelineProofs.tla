--------------------------- MODULE PipelineProofs ---------------------------
(***************************************************************************)
(* Proofs about Pipeline for every table, every sound choice of skipped    *)
(* groups, every limit and every batch size: no accepted row is lost,      *)
(* repeated or out of order, the counters of the scan are exact, and the   *)
(* spine keeps the pull contract but for the promise that the end comes,   *)
(* which is a matter of fairness.                                          *)
(***************************************************************************)
EXTENDS Pipeline, SequenceTheorems, FiniteSetTheorems, WellFoundedInduction, TLAPS

-----------------------------------------------------------------------------
\* Numbers.

Less == {p \in Nat \X Nat : p[1] < p[2]}

\* The naturals are well founded.
LEMMA LessWellFounded == IsWellFoundedOn(Less, Nat)
  BY NatLessThanWellFounded, Zenon DEF OpToRel, Less

\* A nonempty set of naturals has a least member.
LEMMA Least ==
  ASSUME NEW T \in SUBSET Nat, T # {}
  PROVE  \E x \in T : \A y \in T : x <= y
<1>1. PICK x \in T : \A y \in T : ~ (<<y, x>> \in Less)
  BY LessWellFounded, WFMin
<1>2. ASSUME NEW y \in T PROVE x <= y
  <2>1. ~ (y < x)
    BY <1>1 DEF Less
  <2>2. QED BY <2>1
<1>3. QED BY <1>2

\* The smaller of two numbers.
LEMMA MinOfTwo ==
  ASSUME NEW a \in Int, NEW b \in Int
  PROVE  /\ Min({a, b}) \in {a, b}
         /\ Min({a, b}) <= a /\ Min({a, b}) <= b
<1>1. \E x \in {a, b} : \A y \in {a, b} : x <= y
  OBVIOUS
<1>2. Min({a, b}) \in {a, b} /\ \A y \in {a, b} : Min({a, b}) <= y
  BY <1>1 DEF Min
<1>3. QED BY <1>2

-----------------------------------------------------------------------------
\* A finite set arranged by a strict total order R: every member is at one place,
\* in order.

TotalOn(R, S) ==
  \A a, b, c \in S : /\ <<a, a>> \notin R
                     /\ a # b => (<<a, b>> \in R <=> <<b, a>> \notin R)
                     /\ <<a, b>> \in R /\ <<b, c>> \in R => <<a, c>> \in R
Ahead(R, S, x) == {y \in S : <<y, x>> \in R}
Places(R, S) == [x \in S |-> 1 + Cardinality(Ahead(R, S, x))]
InPlace(R, S) == [n \in 1 .. Cardinality(S) |-> CHOOSE x \in S : Places(R, S)[x] = n]

\* Of two members the one that comes first has fewer of them before it.
LEMMA AheadGrows ==
  ASSUME NEW R, NEW S, IsFiniteSet(S), TotalOn(R, S), NEW x \in S
  PROVE  /\ Cardinality(Ahead(R, S, x)) \in Nat /\ Cardinality(S) \in Nat
         /\ Cardinality(Ahead(R, S, x)) < Cardinality(S)
         /\ \A y \in S : <<x, y>> \in R => Cardinality(Ahead(R, S, x)) < Cardinality(Ahead(R, S, y))
<1>1. ASSUME NEW y \in S
      PROVE  /\ IsFiniteSet(Ahead(R, S, y)) /\ Cardinality(Ahead(R, S, y)) \in Nat
             /\ Cardinality(S) \in Nat /\ Cardinality(Ahead(R, S, y)) < Cardinality(S)
  <2>1. Ahead(R, S, y) \in SUBSET S /\ y \notin Ahead(R, S, y)
    BY DEF Ahead, TotalOn
  <2>2. /\ IsFiniteSet(Ahead(R, S, y)) /\ Cardinality(Ahead(R, S, y)) <= Cardinality(S)
        /\ Cardinality(S) # Cardinality(Ahead(R, S, y))
    BY <2>1, FS_Subset
  <2>3. Cardinality(Ahead(R, S, y)) \in Nat /\ Cardinality(S) \in Nat
    BY <2>2, FS_CardinalityType
  <2>4. QED BY <2>2, <2>3
<1>2. ASSUME NEW y \in S, <<x, y>> \in R
      PROVE  Cardinality(Ahead(R, S, x)) < Cardinality(Ahead(R, S, y))
  <2>1. /\ Ahead(R, S, x) \in SUBSET Ahead(R, S, y)
        /\ x \in Ahead(R, S, y) /\ x \notin Ahead(R, S, x)
    BY <1>2 DEF Ahead, TotalOn
  <2>2. /\ Cardinality(Ahead(R, S, x)) <= Cardinality(Ahead(R, S, y))
        /\ Cardinality(Ahead(R, S, y)) # Cardinality(Ahead(R, S, x))
    BY <1>1, <2>1, FS_Subset
  <2>3. QED BY <1>1, <2>2
<1>3. QED BY <1>1, <1>2

\* The arrangement is a permutation of the set, in order.
LEMMA InPlaceOrder ==
  ASSUME NEW R, NEW S, IsFiniteSet(S), TotalOn(R, S)
  PROVE  /\ InPlace(R, S) \in Seq(S) /\ Len(InPlace(R, S)) = Cardinality(S) /\ Cardinality(S) \in Nat
         /\ \A k, l \in 1 .. Cardinality(S) : k < l => <<InPlace(R, S)[k], InPlace(R, S)[l]>> \in R
         /\ \A x \in S : \E k \in 1 .. Cardinality(S) : InPlace(R, S)[k] = x
<1> DEFINE n == Cardinality(S)
           place == Places(R, S)
           at == InPlace(R, S)
<1>1. n \in Nat
  BY FS_CardinalityType
<1>2. \A x \in S : place[x] \in 1 .. n
  BY AheadGrows DEF Places
<1>3. \A x, y \in S : <<x, y>> \in R => place[x] < place[y]
  BY AheadGrows DEF Places
<1>4. place \in [S -> 1 .. n]
  BY <1>2 DEF Places
<1> HIDE DEF place
<1>5. \A x, y \in S : place[x] = place[y] => x = y
  <2> SUFFICES ASSUME NEW x \in S, NEW y \in S, x # y PROVE place[x] # place[y]
    OBVIOUS
  <2>1. <<x, y>> \in R \/ <<y, x>> \in R
    BY DEF TotalOn
  <2>2. place[x] < place[y] \/ place[y] < place[x]
    BY <1>3, <2>1
  <2>3. place[x] \in Nat /\ place[y] \in Nat
    BY <1>1, <1>2
  <2>4. QED BY <2>2, <2>3
<1>6. \A k \in 1 .. n : \E x \in S : place[x] = k
  <2> DEFINE all == 1 .. n
  <2>1. IsFiniteSet(all) /\ Cardinality(all) = n
    <3>1. IsFiniteSet(1 .. n) /\ Cardinality(1 .. n) = IF 1 > n THEN 0 ELSE n - 1 + 1
      BY <1>1, FS_Interval
    <3>2. QED BY <1>1, <3>1
  <2>2. place \in Injection(S, all)
    BY <1>4, <1>5, Zenon DEF Injection, IsInjective
  <2> HIDE DEF all
  <2>3. place \in Surjection(S, all)
    BY <2>1, <2>2, FS_Injection DEF n
  <2>4. \A k \in all : \E x \in S : place[x] = k
    BY <2>3 DEF Surjection
  <2>5. QED BY <2>4 DEF all
<1>7. \A k \in 1 .. n : at[k] \in S /\ place[at[k]] = k
  <2> SUFFICES ASSUME NEW k \in 1 .. n PROVE at[k] \in S /\ place[at[k]] = k
    OBVIOUS
  <2>1. at[k] = CHOOSE x \in S : place[x] = k
    BY DEF InPlace, place
  <2> HIDE DEF at
  <2>2. QED BY <1>6, <2>1
<1>8. at = [k \in 1 .. n |-> at[k]]
  BY DEF InPlace
<1> HIDE DEF n, at
<1>9. at \in [1 .. n -> S]
  BY <1>7, <1>8
<1>10. at \in Seq(S) /\ Len(at) = n
  BY <1>1, <1>9
<1>11. ASSUME NEW k \in 1 .. n, NEW l \in 1 .. n, k < l PROVE <<at[k], at[l]>> \in R
  <2>1. at[k] \in S /\ at[l] \in S /\ place[at[k]] = k /\ place[at[l]] = l
    BY <1>7
  <2>2. at[k] # at[l]
    BY <1>11, <2>1
  <2>3. ~ (place[at[l]] < place[at[k]])
    BY <1>1, <1>11, <2>1
  <2>4. QED BY <1>3, <2>1, <2>2, <2>3 DEF TotalOn
<1>12. ASSUME NEW x \in S PROVE \E k \in 1 .. n : at[k] = x
  <2>1. place[x] \in 1 .. n
    BY <1>2
  <2>2. at[place[x]] = x
    BY <1>5, <1>7, <2>1
  <2>3. QED BY <2>1, <2>2
<1>13. QED BY <1>1, <1>10, <1>11, <1>12 DEF n, at

Increasing(R, s) == \A i, j \in 1 .. Len(s) : i < j => <<s[i], s[j]>> \in R
Members(s) == {s[i] : i \in 1 .. Len(s)}
FromTheFront(R, S, s) == \A x \in S : \A i \in 1 .. Len(s) : <<x, s[i]>> \in R => x \in Members(s)

\* A sequence in order that leaves out no member before one it has is the beginning
\* of the arrangement, and all of it when it leaves out none.
LEMMA FrontOfArrangement ==
  ASSUME NEW R, NEW S, IsFiniteSet(S), TotalOn(R, S),
         NEW s \in Seq(S), Increasing(R, s), FromTheFront(R, S, s)
  PROVE  /\ Len(s) \in Nat /\ Len(s) <= Cardinality(S)
         /\ \A i \in 1 .. Len(s) : s[i] = InPlace(R, S)[i]
         /\ S \subseteq Members(s) => Len(s) = Cardinality(S)
<1> DEFINE n == Cardinality(S)
           at == InPlace(R, S)
           all == 1 .. Len(s)
<1>1. /\ at \in Seq(S) /\ Len(at) = n /\ n \in Nat
      /\ \A k, l \in 1 .. n : k < l => <<at[k], at[l]>> \in R
      /\ \A x \in S : \E k \in 1 .. n : at[k] = x
  BY InPlaceOrder
<1> HIDE DEF at
<1>2. Len(s) \in Nat /\ s \in [all -> S] /\ \A i \in all : s[i] \in S
  <2>1. Len(s) \in Nat /\ s \in [all -> S]
    BY LenProperties
  <2>2. QED BY <2>1, ElementOfSeq
<1>3. \A i, j \in all : s[i] = s[j] => i = j
  <2> SUFFICES ASSUME NEW i \in all, NEW j \in all, i # j PROVE s[i] # s[j]
    OBVIOUS
  <2>1. <<s[i], s[j]>> \in R \/ <<s[j], s[i]>> \in R
    BY <1>2 DEF Increasing
  <2>2. s[i] \in S /\ s[j] \in S
    BY <1>2
  <2>3. QED BY <2>1, <2>2 DEF TotalOn
<1>4. IsFiniteSet(all) /\ Cardinality(all) = Len(s)
  <2>1. 1 \in Int /\ Len(s) \in Int
    BY <1>2
  <2>2. IsFiniteSet(1 .. Len(s)) /\ Cardinality(1 .. Len(s)) = IF 1 > Len(s) THEN 0 ELSE Len(s) - 1 + 1
    BY <2>1, FS_Interval
  <2>3. QED BY <1>2, <2>2
<1>5. Len(s) <= n
  <2> HIDE DEF all
  <2>1. s \in Injection(all, S)
    BY <1>2, <1>3, Zenon DEF Injection, IsInjective
  <2>2. QED BY <1>4, <2>1, FS_Injection
<1>6. ASSUME S \subseteq Members(s) PROVE Len(s) = n
  <2>1. \A x \in S : \E i \in all : s[i] = x
    BY <1>6 DEF Members
  <2> HIDE DEF all
  <2>2. s \in Surjection(all, S)
    BY <1>2, <2>1 DEF Surjection
  <2>3. n <= Len(s)
    BY <1>4, <2>2, FS_Surjection
  <2>4. QED BY <1>1, <1>2, <1>5, <2>3
<1>7. ASSUME \E i \in 1 .. Len(s) : s[i] # at[i] PROVE FALSE
  <2> DEFINE T == {i \in 1 .. Len(s) : s[i] # at[i]}
  <2>1. T \in SUBSET Nat /\ T # {}
    BY <1>7
  <2>2. PICK i \in T : \A j \in T : i <= j
    <3> HIDE DEF T
    <3>1. QED BY <2>1, Least
  <2>3. i \in 1 .. Len(s) /\ s[i] # at[i] /\ i \in 1 .. n /\ i \in Nat
    BY <1>1, <1>2, <1>5, <2>2
  <2>4. \A j \in 1 .. Len(s) : j < i => s[j] = at[j]
    <3> SUFFICES ASSUME NEW j \in 1 .. Len(s), j < i, s[j] # at[j] PROVE FALSE
      OBVIOUS
    <3>1. i <= j
      BY <2>2
    <3>2. QED BY <2>3, <3>1
  <2>5. s[i] \in S /\ at[i] \in S
    BY <1>1, <1>2, <2>3, ElementOfSeq
  <2>6. PICK k \in 1 .. n : at[k] = s[i]
    BY <1>1, <2>5
  <2>7. k \in Nat /\ k # i
    BY <1>1, <2>3, <2>6
  <2>8. CASE k < i
    <3>1. k \in 1 .. Len(s)
      BY <1>2, <2>3, <2>7, <2>8
    <3>2. s[k] = s[i]
      BY <2>4, <2>6, <2>8, <3>1
    <3>3. QED BY <1>3, <2>3, <2>7, <3>1, <3>2
  <2>9. CASE i < k
    <3>1. <<at[i], s[i]>> \in R
      BY <1>1, <2>3, <2>6, <2>9
    <3>2. at[i] \in Members(s)
      BY <2>3, <2>5, <3>1 DEF FromTheFront
    <3>3. PICK j \in 1 .. Len(s) : at[i] = s[j]
      BY <3>2 DEF Members
    <3>4. j \in Nat /\ j # i
      BY <1>2, <2>3, <3>3
    <3>5. CASE j < i
      <4>1. at[j] = at[i] /\ j \in 1 .. n
        <5>1. j \in 1 .. n
          BY <1>1, <2>3, <3>4, <3>5, <3>3
        <5>2. QED BY <2>4, <3>3, <3>5, <5>1
      <4>2. <<at[j], at[i]>> \in R
        BY <1>1, <2>3, <3>5, <4>1
      <4>3. QED BY <2>5, <4>1, <4>2 DEF TotalOn
    <3>6. CASE i < j
      <4>1. <<s[i], at[i]>> \in R
        BY <2>3, <3>3, <3>6 DEF Increasing
      <4>2. QED BY <2>3, <2>5, <3>1, <4>1 DEF TotalOn
    <3>7. QED BY <2>3, <3>4, <3>5, <3>6
  <2>10. QED BY <2>3, <2>7, <2>8, <2>9
<1>8. QED BY <1>2, <1>5, <1>6, <1>7 DEF at
-----------------------------------------------------------------------------
\* The rows of the table.

\* What the caller chose.
SourceOK == /\ table \in Tables
            /\ limit \in Limits
            /\ leaf \in {"table", "file", "bare"}
            /\ pruned \in SoundPruning(table)

\* It is part of the types.
LEMMA TypesOfSource ==
  ASSUME TypeOK
  PROVE  SourceOK
  BY DEF TypeOK, SourceOK

\* The groups of a table hold rows, each with the verdict of the predicate.
LEMMA TableRows ==
  ASSUME SourceOK
  PROVE  /\ Len(table) \in Nat /\ Groups = 1 .. Len(table)
         /\ \A g \in Groups : /\ table[g] \in Seq(BOOLEAN) /\ Len(table[g]) \in Nat \ {0}
                              /\ DOMAIN table[g] = 1 .. Len(table[g])
<1>1. table \in Seq(Seq(BOOLEAN) \ {<< >>})
  BY PipelineAssumption DEF SourceOK
<1>2. Len(table) \in Nat /\ Groups = 1 .. Len(table)
  BY <1>1, LenProperties DEF Groups
<1>3. ASSUME NEW g \in Groups
      PROVE  /\ table[g] \in Seq(BOOLEAN) /\ Len(table[g]) \in Nat \ {0}
             /\ DOMAIN table[g] = 1 .. Len(table[g])
  <2>1. table[g] \in Seq(BOOLEAN) \ {<< >>}
    BY <1>1, <1>2, ElementOfSeq
  <2>2. QED BY <2>1, EmptySeq, LenProperties
<1>4. QED BY <1>2, <1>3

\* A row is a group and a position in it.
LEMMA RowIsPair ==
  ASSUME SourceOK
  PROVE  /\ \A r \in Rows : /\ r = <<r[1], r[2]>> /\ r[1] \in Groups /\ r[2] \in 1 .. Len(table[r[1]])
                            /\ r[1] \in Nat /\ r[2] \in Nat
         /\ \A g \in Groups : \A i \in 1 .. Len(table[g]) : <<g, i>> \in Rows
<1>1. /\ Groups \subseteq Nat
      /\ \A g \in Groups : DOMAIN table[g] = 1 .. Len(table[g]) /\ DOMAIN table[g] \subseteq Nat
  BY TableRows
<1>2. ASSUME NEW r \in Rows
      PROVE  /\ r = <<r[1], r[2]>> /\ r[1] \in Groups /\ r[2] \in 1 .. Len(table[r[1]])
             /\ r[1] \in Nat /\ r[2] \in Nat
  <2>1. PICK g \in Groups : r \in {g} \X DOMAIN table[g]
    BY DEF Rows
  <2>2. r = <<r[1], r[2]>> /\ r[1] = g /\ r[2] \in DOMAIN table[g]
    BY <2>1
  <2>3. QED BY <1>1, <2>2
<1>3. ASSUME NEW g \in Groups, NEW i \in 1 .. Len(table[g])
      PROVE  <<g, i>> \in Rows
  <2>1. i \in DOMAIN table[g]
    BY <1>1
  <2>2. <<g, i>> \in {g} \X DOMAIN table[g]
    BY <2>1
  <2>3. QED BY <2>2 DEF Rows
<1>4. QED BY <1>2, <1>3

\* A table has finitely many rows.
LEMMA RowsFinite ==
  ASSUME SourceOK
  PROVE  IsFiniteSet(Rows)
<1> DEFINE f == [g \in Groups |-> {g} \X DOMAIN table[g]]
           parts == {{g} \X DOMAIN table[g] : g \in Groups}
<1>1. IsFiniteSet(Groups)
  BY TableRows, FS_Interval
<1>2. f \in Surjection(Groups, parts)
  BY DEF Surjection
<1>3. IsFiniteSet(parts)
  <2> HIDE DEF f, parts
  <2>1. QED BY <1>1, <1>2, FS_Surjection
<1>4. ASSUME NEW T \in parts PROVE IsFiniteSet(T)
  <2>1. PICK g \in Groups : T = {g} \X DOMAIN table[g]
    OBVIOUS
  <2>2. IsFiniteSet({g})
    BY FS_Singleton
  <2>3. IsFiniteSet(DOMAIN table[g])
    <3>1. DOMAIN table[g] = 1 .. Len(table[g]) /\ Len(table[g]) \in Int /\ 1 \in Int
      BY TableRows
    <3>2. QED BY <3>1, FS_Interval
  <2>4. IsFiniteSet({g} \X DOMAIN table[g])
    BY <2>2, <2>3, FS_Product
  <2>5. QED BY <2>1, <2>4
<1>5. IsFiniteSet(UNION parts)
  <2> HIDE DEF parts
  <2>1. QED BY <1>3, <1>4, FS_UNION
<1>6. QED BY <1>5 DEF Rows

RowOrder == {p \in Rows \X Rows : Earlier(p[1], p[2])}

\* Membership in it, pair by pair.
LEMMA PairInRowOrder ==
  ASSUME NEW r \in Rows, NEW q \in Rows
  PROVE  <<r, q>> \in RowOrder <=> Earlier(r, q)
<1> DEFINE p == <<r, q>>
<1>1. p \in Rows \X Rows /\ p[1] = r /\ p[2] = q
  OBVIOUS
<1> HIDE DEF p
<1>2. p \in RowOrder <=> Earlier(p[1], p[2])
  BY <1>1 DEF RowOrder
<1>3. p \in RowOrder <=> Earlier(r, q)
  BY <1>1, <1>2
<1>4. QED BY <1>3 DEF p

\* The order of the source is a strict total order of its rows.
LEMMA EarlierTotal ==
  ASSUME SourceOK, NEW r \in Rows, NEW q \in Rows
  PROVE  /\ ~ Earlier(r, r)
         /\ r # q => (Earlier(r, q) <=> ~ Earlier(q, r))
         /\ \A t \in Rows : Earlier(r, q) /\ Earlier(q, t) => Earlier(r, t)
<1>1. \A t \in Rows : t = <<t[1], t[2]>> /\ t[1] \in Nat /\ t[2] \in Nat
  BY RowIsPair
<1>2. ~ Earlier(r, r)
  BY <1>1 DEF Earlier
<1>3. ASSUME r # q PROVE Earlier(r, q) <=> ~ Earlier(q, r)
  <2>1. r[1] # q[1] \/ r[2] # q[2]
    BY <1>1, <1>3
  <2>2. r[1] \in Nat /\ r[2] \in Nat /\ q[1] \in Nat /\ q[2] \in Nat
    BY <1>1
  <2>3. QED BY <2>1, <2>2 DEF Earlier
<1>4. ASSUME NEW t \in Rows, Earlier(r, q), Earlier(q, t) PROVE Earlier(r, t)
  <2>1. /\ r[1] \in Nat /\ r[2] \in Nat /\ q[1] \in Nat /\ q[2] \in Nat
        /\ t[1] \in Nat /\ t[2] \in Nat
    BY <1>1
  <2>2. QED BY <1>4, <2>1 DEF Earlier
<1>5. QED BY <1>2, <1>3, <1>4

\* It is one of every set of rows.
LEMMA RowOrderTotal ==
  ASSUME SourceOK, NEW S \in SUBSET Rows
  PROVE  TotalOn(RowOrder, S) /\ IsFiniteSet(S)
<1>1. ASSUME NEW a \in S, NEW b \in S, NEW c \in S
      PROVE  /\ <<a, a>> \notin RowOrder
             /\ a # b => (<<a, b>> \in RowOrder <=> <<b, a>> \notin RowOrder)
             /\ <<a, b>> \in RowOrder /\ <<b, c>> \in RowOrder => <<a, c>> \in RowOrder
  BY EarlierTotal, PairInRowOrder
<1>2. QED BY <1>1, RowsFinite, FS_Subset DEF TotalOn

\* Rows arranged in the order of the source.
LEMMA ArrangedRows ==
  ASSUME SourceOK, NEW S \in SUBSET Rows
  PROVE  /\ Arranged(S, Earlier) = InPlace(RowOrder, S)
         /\ Arranged(S, Earlier) \in Seq(S) /\ Len(Arranged(S, Earlier)) = Cardinality(S)
         /\ Cardinality(S) \in Nat
         /\ \A k, l \in 1 .. Cardinality(S) :
              k < l => Earlier(Arranged(S, Earlier)[k], Arranged(S, Earlier)[l])
         /\ \A x \in S : \E k \in 1 .. Cardinality(S) : Arranged(S, Earlier)[k] = x
<1> DEFINE place == [x \in S |-> 1 + Cardinality({y \in S : Earlier(y, x)})]
<1>1. ASSUME NEW x \in S PROVE {y \in S : Earlier(y, x)} = Ahead(RowOrder, S, x)
  BY PairInRowOrder DEF Ahead
<1>2. place = Places(RowOrder, S)
  BY <1>1 DEF Places
<1>3. Arranged(S, Earlier) = [n \in 1 .. Cardinality(S) |-> CHOOSE x \in S : place[x] = n]
  BY DEF Arranged
<1>4. Arranged(S, Earlier) = InPlace(RowOrder, S)
  <2> HIDE DEF place
  <2>1. QED BY <1>2, <1>3 DEF InPlace
<1> DEFINE at == InPlace(RowOrder, S)
<1>5. /\ at \in Seq(S) /\ Len(at) = Cardinality(S) /\ Cardinality(S) \in Nat
      /\ \A k, l \in 1 .. Cardinality(S) : k < l => <<at[k], at[l]>> \in RowOrder
      /\ \A x \in S : \E k \in 1 .. Cardinality(S) : at[k] = x
  BY RowOrderTotal, InPlaceOrder
<1> HIDE DEF at
<1>6. \A k \in 1 .. Cardinality(S) : at[k] \in Rows
  BY <1>5, ElementOfSeq
<1>7. \A k, l \in 1 .. Cardinality(S) : k < l => Earlier(at[k], at[l])
  BY <1>5, <1>6, PairInRowOrder
<1>8. QED BY <1>4, <1>5, <1>7 DEF at

\* Numbers arranged in their order.
LEMMA ArrangedNumbers ==
  ASSUME NEW n \in Nat, NEW S \in SUBSET (1 .. n)
  PROVE  /\ Arranged(S, Lower) \in Seq(S) /\ Len(Arranged(S, Lower)) = Cardinality(S)
         /\ Cardinality(S) \in Nat /\ Cardinality(S) <= n
         /\ \A k, l \in 1 .. Cardinality(S) :
              k < l => Arranged(S, Lower)[k] < Arranged(S, Lower)[l]
         /\ \A x \in S : \E k \in 1 .. Cardinality(S) : Arranged(S, Lower)[k] = x
<1> DEFINE place == [x \in S |-> 1 + Cardinality({y \in S : Lower(y, x)})]
           at == InPlace(Less, S)
<1>1. \A x, y \in S : <<x, y>> \in Less <=> x < y
  BY DEF Less
<1>2. ASSUME NEW x \in S PROVE {y \in S : Lower(y, x)} = Ahead(Less, S, x)
  BY <1>1 DEF Ahead, Lower
<1>3. place = Places(Less, S)
  BY <1>2 DEF Places
<1>4. Arranged(S, Lower) = [k \in 1 .. Cardinality(S) |-> CHOOSE x \in S : place[x] = k]
  BY DEF Arranged
<1>5. Arranged(S, Lower) = InPlace(Less, S)
  <2> HIDE DEF place
  <2>1. QED BY <1>3, <1>4 DEF InPlace
<1>6. TotalOn(Less, S)
  <2>1. ASSUME NEW a \in S, NEW b \in S, NEW c \in S
        PROVE  /\ <<a, a>> \notin Less
               /\ a # b => (<<a, b>> \in Less <=> <<b, a>> \notin Less)
               /\ <<a, b>> \in Less /\ <<b, c>> \in Less => <<a, c>> \in Less
    <3>1. a \in Int /\ b \in Int /\ c \in Int
      OBVIOUS
    <3>2. QED BY <1>1, <3>1
  <2>2. QED BY <2>1 DEF TotalOn
<1>7. IsFiniteSet(S) /\ Cardinality(S) <= n
  <2>1. IsFiniteSet(1 .. n) /\ Cardinality(1 .. n) = IF 1 > n THEN 0 ELSE n - 1 + 1
    BY FS_Interval
  <2>2. IsFiniteSet(S) /\ Cardinality(S) <= Cardinality(1 .. n)
    BY <2>1, FS_Subset
  <2>3. QED BY <2>1, <2>2
<1>8. /\ at \in Seq(S) /\ Len(at) = Cardinality(S) /\ Cardinality(S) \in Nat
      /\ \A k, l \in 1 .. Cardinality(S) : k < l => <<at[k], at[l]>> \in Less
      /\ \A x \in S : \E k \in 1 .. Cardinality(S) : at[k] = x
  BY <1>6, <1>7, InPlaceOrder
<1> HIDE DEF at
<1>9. \A k \in 1 .. Cardinality(S) : at[k] \in S
  BY <1>8, ElementOfSeq
<1>10. \A k, l \in 1 .. Cardinality(S) : k < l => at[k] < at[l]
  BY <1>1, <1>8, <1>9
<1>11. QED BY <1>5, <1>7, <1>8, <1>10 DEF at

-----------------------------------------------------------------------------
\* What the sets and sequences of the specification are made of.

\* The members of a sequence.
LEMMA SeqMembers ==
  ASSUME NEW S, NEW s \in Seq(S)
  PROVE  /\ Len(s) \in Nat /\ DOMAIN s = 1 .. Len(s)
         /\ \A i \in 1 .. Len(s) : s[i] \in S
         /\ \A x : x \in Range(s) <=> \E i \in 1 .. Len(s) : s[i] = x
         /\ Range(s) \subseteq S
<1>1. Len(s) \in Nat /\ DOMAIN s = 1 .. Len(s)
  BY LenProperties
<1>2. \A i \in 1 .. Len(s) : s[i] \in S
  BY ElementOfSeq
<1>3. QED BY <1>1, <1>2 DEF Range

\* The members of a concatenation, and its order.
LEMMA ConcatInOrder ==
  ASSUME NEW S, NEW s \in Seq(S), NEW t \in Seq(S)
  PROVE  /\ s \o t \in Seq(S) /\ Len(s \o t) = Len(s) + Len(t)
         /\ \A x : x \in Range(s \o t) <=> x \in Range(s) \/ x \in Range(t)
         /\ InOrder(s) /\ InOrder(t) /\ (\A x \in Range(s), y \in Range(t) : Earlier(x, y))
              => InOrder(s \o t)
<1> DEFINE u == s \o t
           m == Len(s)
           n == Len(t)
<1>1. /\ m \in Nat /\ DOMAIN s = 1 .. m /\ \A x : x \in Range(s) <=> \E i \in 1 .. m : s[i] = x
      /\ n \in Nat /\ DOMAIN t = 1 .. n /\ \A x : x \in Range(t) <=> \E i \in 1 .. n : t[i] = x
  BY SeqMembers
<1>2. /\ u \in Seq(S) /\ Len(u) = m + n
      /\ \A i \in 1 .. m + n : u[i] = IF i <= m THEN s[i] ELSE t[i - m]
  BY ConcatProperties
<1>3. DOMAIN u = 1 .. m + n /\ \A x : x \in Range(u) <=> \E i \in 1 .. m + n : u[i] = x
  BY <1>2, SeqMembers
<1> HIDE DEF u, m, n
<1>4. \A i \in 1 .. m : i \in 1 .. m + n /\ u[i] = s[i]
  BY <1>1, <1>2
<1>5. \A i \in 1 .. n : m + i \in 1 .. m + n /\ u[m + i] = t[i]
  <2> SUFFICES ASSUME NEW i \in 1 .. n PROVE m + i \in 1 .. m + n /\ u[m + i] = t[i]
    OBVIOUS
  <2> DEFINE k == m + i
  <2>1. k \in 1 .. m + n /\ ~ (k <= m) /\ k - m = i
    BY <1>1
  <2> HIDE DEF k
  <2>2. u[k] = t[i]
    BY <1>2, <2>1
  <2>3. QED BY <2>1, <2>2 DEF k
<1>6. \A i \in 1 .. m + n : i \in 1 .. m \/ (i - m \in 1 .. n /\ ~ (i <= m))
  BY <1>1
<1>7. ASSUME NEW x PROVE x \in Range(u) <=> x \in Range(s) \/ x \in Range(t)
  <2>1. ASSUME x \in Range(u) PROVE x \in Range(s) \/ x \in Range(t)
    <3>1. PICK i \in 1 .. m + n : u[i] = x
      BY <1>3, <2>1
    <3>2. QED BY <1>1, <1>2, <1>4, <1>6, <3>1
  <2>2. x \in Range(s) => x \in Range(u)
    BY <1>1, <1>3, <1>4
  <2>3. x \in Range(t) => x \in Range(u)
    BY <1>1, <1>3, <1>5
  <2>4. QED BY <2>1, <2>2, <2>3
<1>8. ASSUME InOrder(s), InOrder(t), \A x \in Range(s), y \in Range(t) : Earlier(x, y)
      PROVE  InOrder(u)
  <2>1. \A i, j \in 1 .. m : i < j => Earlier(s[i], s[j])
    BY <1>1, <1>8 DEF InOrder
  <2>2. \A i, j \in 1 .. n : i < j => Earlier(t[i], t[j])
    BY <1>1, <1>8 DEF InOrder
  <2>3. \A i \in 1 .. m, j \in 1 .. n : Earlier(s[i], t[j])
    BY <1>1, <1>8
  <2>4. ASSUME NEW i \in 1 .. m + n, NEW j \in 1 .. m + n, i < j PROVE Earlier(u[i], u[j])
    <3>1. CASE i \in 1 .. m /\ j \in 1 .. m
      BY <1>4, <2>1, <2>4, <3>1
    <3>2. CASE i \in 1 .. m /\ j \notin 1 .. m
      <4>1. u[j] = t[j - m] /\ j - m \in 1 .. n
        BY <1>2, <1>6, <3>2
      <4>2. QED BY <1>4, <2>3, <3>2, <4>1
    <3>3. CASE i \notin 1 .. m
      <4>1. u[i] = t[i - m] /\ i - m \in 1 .. n
        BY <1>2, <1>6, <3>3
      <4>2. j \notin 1 .. m
        BY <1>1, <2>4, <3>3
      <4>3. u[j] = t[j - m] /\ j - m \in 1 .. n
        BY <1>2, <1>6, <4>2
      <4>4. i - m < j - m
        BY <1>1, <2>4
      <4>5. QED BY <2>2, <4>1, <4>3, <4>4
    <3>4. QED BY <3>1, <3>2, <3>3
  <2>5. QED BY <1>3, <2>4 DEF InOrder
<1>9. QED BY <1>2, <1>7, <1>8 DEF u, m, n

\* The rows of a file: those of the selected groups, once each, in order.
LEMMA FileRowsInOrder ==
  ASSUME SourceOK
  PROVE  /\ FileRows \in Seq(Rows) /\ Len(FileRows) \in Nat
         /\ \A n \in 1 .. Len(FileRows) : FileRows[n] \in Rows /\ FileRows[n][1] \notin pruned
         /\ \A k, l \in 1 .. Len(FileRows) : k < l => Earlier(FileRows[k], FileRows[l])
         /\ \A r \in Rows : r[1] \notin pruned => \E n \in 1 .. Len(FileRows) : FileRows[n] = r
<1> DEFINE U == {r \in Rows : r[1] \notin pruned}
<1>1. U \in SUBSET Rows
  OBVIOUS
<1>2. FileRows = Arranged(U, Earlier)
  BY DEF FileRows
<1>3. \A r : r \in U <=> r \in Rows /\ r[1] \notin pruned
  OBVIOUS
<1> HIDE DEF U
<1>4. /\ FileRows \in Seq(U) /\ Len(FileRows) = Cardinality(U) /\ Cardinality(U) \in Nat
      /\ \A k, l \in 1 .. Cardinality(U) : k < l => Earlier(FileRows[k], FileRows[l])
      /\ \A x \in U : \E k \in 1 .. Cardinality(U) : FileRows[k] = x
  BY <1>1, <1>2, ArrangedRows
<1>5. FileRows \in Seq(Rows)
  BY <1>1, <1>4, SeqMonotonic
<1>6. \A n \in 1 .. Len(FileRows) : FileRows[n] \in U
  BY <1>4, ElementOfSeq
<1>7. QED BY <1>3, <1>4, <1>5, <1>6

\* No accepted row is in a group that the statistics rule out.
LEMMA AcceptedRows ==
  ASSUME SourceOK
  PROVE  Accepted \subseteq Rows /\ \A a \in Accepted : a[1] \notin pruned
<1>1. Accepted \subseteq Rows
  BY DEF Accepted
<1>2. ASSUME NEW a \in Accepted, a[1] \in pruned PROVE FALSE
  <2>1. TRUE \notin Range(table[a[1]])
    BY <1>2 DEF SourceOK, SoundPruning
  <2>2. a[1] \in Groups /\ a[2] \in 1 .. Len(table[a[1]])
    BY <1>1, RowIsPair
  <2>3. a[2] \in DOMAIN table[a[1]] /\ table[a[1]][a[2]] \in BOOLEAN
    BY <2>2, TableRows, ElementOfSeq
  <2>4. table[a[1]][a[2]] = TRUE
    BY <2>3 DEF Accepted, Accepts
  <2>5. QED BY <2>1, <2>3, <2>4 DEF Range
<1>3. QED BY <1>1, <1>2

\* The scan passes the rows it may not skip in the order of the source.
LEMMA PassedRows ==
  ASSUME TypeOK
  PROVE  /\ Passed \subseteq Rows
         /\ \A a \in Rows, p \in Passed : a[1] \notin pruned /\ Earlier(a, p) => a \in Passed
<1>1. CASE leaf = "table"
  <2>1. Passed = {q \in Rows : q[1] < group \/ (q[1] = group /\ q[2] <= row)}
    BY <1>1 DEF Passed
  <2>2. ASSUME NEW a \in Rows, NEW p \in Passed, Earlier(a, p) PROVE a \in Passed
    <3>1. p \in Rows /\ (p[1] < group \/ (p[1] = group /\ p[2] <= row))
      BY <2>1
    <3>2. /\ a[1] \in Nat /\ a[2] \in Nat /\ p[1] \in Nat /\ p[2] \in Nat
          /\ group \in Nat /\ row \in Nat
      BY <3>1, TypesOfSource, RowIsPair, TableRows DEF TypeOK
    <3>3. a[1] < group \/ (a[1] = group /\ a[2] <= row)
      BY <2>2, <3>1, <3>2 DEF Earlier
    <3>4. QED BY <2>1, <3>3
  <2>3. QED BY <2>1, <2>2
<1>2. CASE leaf # "table"
  <2>1. Passed = {FileRows[n] : n \in 1 .. taken}
    BY <1>2 DEF Passed
  <2>2. taken \in 0 .. Len(FileRows) /\ Len(FileRows) \in Nat /\ 1 .. taken \subseteq 1 .. Len(FileRows)
    BY TypesOfSource, FileRowsInOrder DEF TypeOK
  <2>3. Passed \subseteq Rows
    BY <2>1, <2>2, TypesOfSource, FileRowsInOrder
  <2>4. ASSUME NEW a \in Rows, NEW p \in Passed, a[1] \notin pruned, Earlier(a, p) PROVE a \in Passed
    <3>1. PICK n \in 1 .. taken : p = FileRows[n]
      BY <2>1
    <3>2. PICK k \in 1 .. Len(FileRows) : a = FileRows[k]
      BY <2>4, TypesOfSource, FileRowsInOrder
    <3>3. n \in 1 .. Len(FileRows)
      BY <2>2
    <3>4. ASSUME n < k PROVE FALSE
      <4>1. Earlier(p, a)
        BY <3>1, <3>2, <3>3, <3>4, TypesOfSource, FileRowsInOrder
      <4>2. a # p => ~ Earlier(p, a)
        BY <2>3, <2>4, TypesOfSource, EarlierTotal
      <4>3. ~ Earlier(a, a)
        BY TypesOfSource, EarlierTotal
      <4>4. QED BY <2>4, <4>1, <4>2, <4>3
    <3>5. k \in 1 .. taken
      BY <2>2, <3>3, <3>4
    <3>6. QED BY <2>1, <3>2, <3>5
  <2>5. QED BY <2>3, <2>4
<1>3. QED BY <1>1, <1>2

\* What the filter keeps of the selection: the accepted rows, in the same order.
LEMMA SelectedRows ==
  ASSUME TypeOK, SelectionInOrder
  PROVE  /\ Selected \in Seq(DOMAIN batch) /\ Len(Selected) <= Len(selection)
         /\ \A i, j \in DOMAIN Selected : i < j => Selected[i] < Selected[j]
         /\ \A i : (\E k \in DOMAIN Selected : Selected[k] = i)
                     <=> Selects(i) /\ Accepts(batch[i])
<1> DEFINE J == {j \in DOMAIN selection : Accepts(batch[selection[j]])}
           passing == Arranged(J, Lower)
           n == Cardinality(J)
<1>1. /\ Len(selection) \in Nat /\ DOMAIN selection = 1 .. Len(selection)
      /\ \A j \in 1 .. Len(selection) : selection[j] \in DOMAIN batch
  BY SeqMembers DEF TypeOK
<1>2. J \in SUBSET (1 .. Len(selection))
  BY <1>1
<1>3. /\ passing \in Seq(J) /\ Len(passing) = n /\ n \in Nat /\ n <= Len(selection)
      /\ \A k, l \in 1 .. n : k < l => passing[k] < passing[l]
      /\ \A x \in J : \E k \in 1 .. n : passing[k] = x
  <2> HIDE DEF J
  <2>1. QED BY <1>1, <1>2, ArrangedNumbers
<1>4. Selected = [k \in DOMAIN passing |-> selection[passing[k]]]
  BY DEF Selected
<1>5. \A j : j \in J <=> j \in DOMAIN selection /\ Accepts(batch[selection[j]])
  OBVIOUS
<1> HIDE DEF J, passing, n
<1>6. DOMAIN passing = 1 .. n /\ \A k \in 1 .. n : passing[k] \in J
  BY <1>3, ElementOfSeq, LenProperties
<1>7. \A k \in 1 .. n : Selected[k] = selection[passing[k]] /\ Selected[k] \in DOMAIN batch
  BY <1>1, <1>4, <1>5, <1>6
<1>8. Selected \in [1 .. n -> DOMAIN batch]
  BY <1>4, <1>6, <1>7
<1>9. Selected \in Seq(DOMAIN batch) /\ Len(Selected) = n /\ DOMAIN Selected = 1 .. n
  BY <1>3, <1>8
<1>10. ASSUME NEW i \in 1 .. n, NEW j \in 1 .. n, i < j PROVE Selected[i] < Selected[j]
  <2>1. /\ passing[i] \in DOMAIN selection /\ passing[j] \in DOMAIN selection
        /\ passing[i] < passing[j]
    BY <1>3, <1>5, <1>6, <1>10
  <2>2. selection[passing[i]] < selection[passing[j]]
    BY <2>1 DEF SelectionInOrder
  <2>3. QED BY <1>7, <2>2
<1>11. ASSUME NEW i
       PROVE  (\E k \in 1 .. n : Selected[k] = i) <=> Selects(i) /\ Accepts(batch[i])
  <2>1. (\E k \in 1 .. n : Selected[k] = i) => Selects(i) /\ Accepts(batch[i])
    BY <1>5, <1>6, <1>7 DEF Selects
  <2>2. ASSUME Selects(i), Accepts(batch[i]) PROVE \E k \in 1 .. n : Selected[k] = i
    <3>1. PICK j \in DOMAIN selection : selection[j] = i
      BY <2>2 DEF Selects
    <3>2. j \in J
      BY <1>5, <2>2, <3>1
    <3>3. PICK k \in 1 .. n : passing[k] = j
      BY <1>3, <3>2
    <3>4. QED BY <1>7, <3>1, <3>3
  <2>3. QED BY <2>1, <2>2
<1>12. QED BY <1>3, <1>9, <1>10, <1>11

-----------------------------------------------------------------------------
\* What a step that leaves the source alone keeps.

\* The source is fixed.
LEMMA SourceKept ==
  ASSUME UNCHANGED frozen
  PROVE  /\ table' = table /\ pruned' = pruned /\ limit' = limit /\ leaf' = leaf
         /\ Groups' = Groups /\ Rows' = Rows /\ FileRows' = FileRows
         /\ Accepted' = Accepted /\ Answer' = Answer
<1>1. table' = table /\ pruned' = pruned /\ limit' = limit /\ leaf' = leaf
  BY DEF frozen
<1>2. Groups' = Groups /\ Rows' = Rows
  BY <1>1 DEF Groups, Rows
<1>3. FileRows' = FileRows
  BY <1>1, <1>2 DEF FileRows
<1>4. Accepted' = Accepted
  BY <1>1, <1>2 DEF Accepted, Accepts
<1>5. Answer' = Answer
  BY <1>1, <1>4 DEF Answer
<1>6. QED BY <1>1, <1>2, <1>3, <1>4, <1>5

\* The scan stands where it stood.
LEMMA ScanKept ==
  ASSUME UNCHANGED frozen, UNCHANGED scan
  PROVE  /\ Passed' = Passed /\ Exhausted' = Exhausted /\ InReader' = InReader
         /\ UNCHANGED <<group, row, read, skipped, again, taken, unread>>
         /\ CountersExact' = CountersExact
<1>1. UNCHANGED <<group, row, read, skipped, again, taken, unread>>
  BY DEF scan
<1>2. Passed' = Passed /\ Exhausted' = Exhausted /\ InReader' = InReader
  BY <1>1, SourceKept DEF Passed, Exhausted, InReader
<1>3. CountersExact' = CountersExact
  BY <1>1, SourceKept DEF CountersExact
<1>4. QED BY <1>1, <1>2, <1>3

\* The kinds of the numbers and sequences of a state.
LEMMA Values ==
  ASSUME TypeOK
  PROVE  /\ group \in Nat /\ row \in Nat /\ taken \in Nat /\ unread \in Nat
         /\ remaining \in Nat /\ limit \in Nat /\ remaining <= limit
         /\ Len(FileRows) \in Nat /\ InReader \in Nat /\ taken <= Len(FileRows)
         /\ batch \in Seq(Rows) /\ Len(batch) \in Nat /\ DOMAIN batch = 1 .. Len(batch)
         /\ selection \in Seq(DOMAIN batch) /\ Len(selection) \in Nat
         /\ DOMAIN selection = 1 .. Len(selection)
         /\ delivered \in Seq(Rows) /\ Len(delivered) \in Nat
         /\ Capacity \in Nat \ {0} /\ Len(batch) <= Capacity
<1>1. Len(table) \in Nat /\ Len(FileRows) \in Nat
  BY TypesOfSource, TableRows, FileRowsInOrder
<1>2. /\ batch \in Seq(Rows) /\ selection \in Seq(DOMAIN batch) /\ delivered \in Seq(Rows)
      /\ Len(batch) <= Capacity
  BY DEF TypeOK
<1>3. /\ Len(batch) \in Nat /\ DOMAIN batch = 1 .. Len(batch)
      /\ Len(selection) \in Nat /\ DOMAIN selection = 1 .. Len(selection)
      /\ Len(delivered) \in Nat
  BY <1>2, LenProperties
<1>4. limit \in Nat /\ Capacity \in Nat \ {0}
  BY PipelineAssumption DEF TypeOK
<1>5. group \in Nat /\ row \in Nat /\ taken \in Nat /\ taken <= Len(FileRows)
  BY <1>1 DEF TypeOK
<1>6. InReader \in Nat
  BY <1>1, <1>5 DEF InReader
<1>7. unread \in Nat
  BY <1>1, <1>6 DEF TypeOK
<1>8. remaining \in Nat /\ remaining <= limit
  BY <1>4 DEF TypeOK
<1>9. QED BY <1>1, <1>2, <1>3, <1>4, <1>5, <1>6, <1>7, <1>8

\* Nothing is in an empty batch.
LEMMA NoRows ==
  /\ \A S : << >> \in Seq(S)
  /\ Len(<< >>) = 0 /\ DOMAIN << >> = {} /\ Range(<< >>) = {} /\ InOrder(<< >>)
<1>1. \A S : << >> \in Seq(S)
  BY EmptySeq
<1>2. Len(<< >>) = 0 /\ DOMAIN << >> = {}
  OBVIOUS
<1>3. QED BY <1>1, <1>2 DEF Range, InOrder

-----------------------------------------------------------------------------
\* The invariant holds at first.

\* Nothing is begun, and a file has its row groups chosen.
LEMMA InitCounts ==
  ASSUME Init
  PROVE  CountersExact
<1>1. /\ group = 1 /\ row = 0 /\ again = 0 /\ pruned \in SUBSET Groups
      /\ read = (IF leaf = "table" THEN 0 ELSE Cardinality(Groups \ pruned))
      /\ skipped = (IF leaf = "table" THEN 0 ELSE Cardinality(pruned))
  BY DEF Init, SoundPruning, Groups
<1>2. IsFiniteSet(Groups \ pruned)
  <2>1. SourceOK
    BY DEF Init, SourceOK
  <2>2. Groups = 1 .. Len(table) /\ Len(table) \in Nat
    BY <2>1, TableRows
  <2>3. IsFiniteSet(Groups)
    BY <2>2, FS_Interval
  <2>4. QED BY <2>3, FS_Subset
<1> DEFINE begun == IF leaf # "table" THEN Groups
                    ELSE IF row > 0 THEN 1 .. group ELSE 1 .. group - 1
<1>3. /\ read = Cardinality(begun \ pruned) + again
      /\ skipped = Cardinality(begun \cap pruned)
  <2>1. CASE leaf = "table"
    <3>1. begun = {}
      BY <1>1, <2>1
    <3>2. begun \ pruned = {} /\ begun \cap pruned = {}
      BY <3>1
    <3>3. QED BY <1>1, <2>1, <3>2, FS_EmptySet
  <2>2. CASE leaf # "table"
    <3>1. begun = Groups /\ Groups \cap pruned = pruned
      BY <1>1, <2>2
    <3>2. Cardinality(Groups \ pruned) \in Nat
      BY <1>2, FS_CardinalityType
    <3>3. QED BY <1>1, <2>2, <3>1, <3>2
  <2>3. QED BY <2>1, <2>2
<1>4. QED BY <1>3 DEF CountersExact

LEMMA InitIInv ==
  ASSUME Init
  PROVE  IInv
<1>1. /\ table \in Tables /\ pruned \in SoundPruning(table) /\ limit \in Limits
      /\ leaf \in {"table", "file", "bare"}
      /\ group = 1 /\ row = 0 /\ again = 0 /\ taken = 0 /\ batch = << >> /\ selection = << >>
      /\ unread = (IF leaf = "table" THEN 0 ELSE Len(FileRows))
      /\ remaining = limit /\ pc = "idle" /\ delivered = << >> /\ verdict = "more"
  BY DEF Init
<1>2. /\ \A S : << >> \in Seq(S)
      /\ Len(<< >>) = 0 /\ DOMAIN << >> = {} /\ Range(<< >>) = {} /\ InOrder(<< >>)
  BY NoRows
<1>3. SourceOK
  BY <1>1 DEF SourceOK
<1>4. /\ Len(table) \in Nat /\ limit \in Nat /\ Capacity \in Nat \ {0} /\ Len(FileRows) \in Nat
  BY <1>1, <1>3, PipelineAssumption, TableRows, FileRowsInOrder
<1>5. pruned \subseteq Groups
  BY <1>1 DEF SoundPruning, Groups
<1>6. TypeOK
  <2>1. InReader = Len(FileRows)
    BY <1>1, <1>4 DEF InReader
  <2>2. unread = 0 \/ unread \in InReader .. Len(FileRows)
    BY <1>1, <1>4, <2>1
  <2>3. group \in 1 .. Len(table) + 1 /\ taken \in 0 .. Len(FileRows) /\ remaining \in 0 .. limit
    BY <1>1, <1>4
  <2>4. Len(batch) <= Capacity /\ row \in Nat /\ ~ (row > 0)
    BY <1>1, <1>2, <1>4
  <2>5. batch \in Seq(Rows) /\ selection \in Seq(DOMAIN batch) /\ delivered \in Seq(Rows)
    BY <1>1, <1>2
  <2>6. QED BY <1>1, <1>5, <2>2, <2>3, <2>4, <2>5, InitCounts DEF TypeOK
<1>7. Passed = {}
  <2>1. CASE leaf = "table"
    <3>1. \A q \in Rows : ~ (q[1] < 1) /\ ~ (q[2] <= 0)
      BY <1>3, <1>4, RowIsPair, TableRows
    <3>2. QED BY <1>1, <2>1, <3>1 DEF Passed
  <2>2. CASE leaf # "table"
    <3>1. 1 .. taken = {}
      BY <1>1
    <3>2. QED BY <2>2, <3>1 DEF Passed
  <2>3. QED BY <2>1, <2>2
<1>8. BatchInOrder
  BY <1>1, <1>2 DEF BatchInOrder
<1>9. SelectionInOrder
  BY <1>1, <1>2 DEF SelectionInOrder
<1>10. DeliveredInOrder
  <2>1. Len(delivered) = limit - remaining
    BY <1>1, <1>2, <1>4
  <2>2. QED BY <1>1, <1>2, <2>1 DEF DeliveredInOrder
<1>11. NothingLost
  <2>1. leaf = "table" \/ unread = InReader
    BY <1>1, <1>4 DEF InReader
  <2>2. QED BY <1>1, <1>2, <1>7, <2>1 DEF NothingLost
<1>12. EndTold /\ FileScan
  BY <1>1, <1>4 DEF EndTold, FileScan, InReader
<1>13. QED BY <1>6, <1>8, <1>9, <1>10, <1>11, <1>12 DEF IInv

-----------------------------------------------------------------------------
\* Limit and the beginning of a call.

\* Limit has nothing left to give: the end, and nothing moves.
LEMMA LimitReachedIInv ==
  ASSUME IInv, LimitReached
  PROVE  IInv'
<1> USE DEF IInv
<1>1. /\ UNCHANGED frozen /\ UNCHANGED scan
      /\ UNCHANGED <<batch, selection, remaining, pc, delivered>>
      /\ pc = "idle" /\ remaining = 0
      /\ verdict' = IF verdict = "threw" THEN "threw" ELSE "end"
  BY DEF LimitReached, Told
<1>2. /\ table' = table /\ pruned' = pruned /\ limit' = limit /\ leaf' = leaf
      /\ Rows' = Rows /\ Groups' = Groups /\ FileRows' = FileRows /\ Accepted' = Accepted
  BY <1>1, SourceKept
<1>3. /\ Passed' = Passed /\ InReader' = InReader /\ CountersExact' = CountersExact
      /\ UNCHANGED <<group, row, read, skipped, again, taken, unread>>
  BY <1>1, ScanKept
<1>4. TypeOK'
  BY <1>1, <1>2, <1>3 DEF TypeOK
<1>5. BatchInOrder' /\ SelectionInOrder' /\ DeliveredInOrder' /\ FileScan'
  BY <1>1, <1>2, <1>3
     DEF BatchInOrder, SelectionInOrder, Selects, Accepts, DeliveredInOrder, FileScan
<1>6. NothingLost'
  BY <1>1, <1>2, <1>3 DEF NothingLost
<1>7. EndTold'
  BY <1>1 DEF EndTold
<1>8. QED BY <1>4, <1>5, <1>6, <1>7

\* A call begins with an empty batch.
LEMMA CallIInv ==
  ASSUME IInv, Call
  PROVE  IInv'
<1> USE DEF IInv
<1>1. /\ UNCHANGED frozen /\ UNCHANGED scan
      /\ UNCHANGED <<remaining, delivered, verdict>>
      /\ pc = "idle" /\ remaining > 0
      /\ pc' = "scan" /\ batch' = << >> /\ selection' = << >>
  BY DEF Call
<1>2. /\ table' = table /\ pruned' = pruned /\ limit' = limit /\ leaf' = leaf
      /\ Rows' = Rows /\ Groups' = Groups /\ FileRows' = FileRows /\ Accepted' = Accepted
  BY <1>1, SourceKept
<1>3. /\ Passed' = Passed /\ InReader' = InReader /\ CountersExact' = CountersExact
      /\ Exhausted' = Exhausted
      /\ UNCHANGED <<group, row, read, skipped, again, taken, unread>>
  BY <1>1, ScanKept
<1>4. /\ \A S : << >> \in Seq(S)
      /\ Len(<< >>) = 0 /\ DOMAIN << >> = {} /\ Range(<< >>) = {} /\ InOrder(<< >>)
  BY NoRows
<1>5. Capacity \in Nat \ {0} /\ remaining \in Nat
  BY Values
<1>6. TypeOK'
  BY <1>1, <1>2, <1>3, <1>4, <1>5 DEF TypeOK
<1>7. BatchInOrder' /\ SelectionInOrder'
  BY <1>1, <1>4 DEF BatchInOrder, SelectionInOrder
<1>8. DeliveredInOrder' /\ FileScan'
  BY <1>1, <1>2, <1>3 DEF DeliveredInOrder, FileScan
<1>9. NothingLost'
  BY <1>1, <1>2, <1>3 DEF NothingLost
<1>10. EndTold'
  BY <1>1, <1>3 DEF EndTold
<1>11. QED BY <1>6, <1>7, <1>8, <1>9, <1>10

-----------------------------------------------------------------------------
\* The scan of a table.

\* The groups a scan of a table has begun or passed over.
Begun == IF row > 0 THEN 1 .. group ELSE 1 .. group - 1

\* One more group among the first ones.
LEMMA OneMore ==
  ASSUME NEW n \in Nat, NEW T
  PROVE  /\ Cardinality((1 .. n) \cap T) \in Nat
         /\ n + 1 \in T => Cardinality((1 .. n + 1) \cap T) = Cardinality((1 .. n) \cap T) + 1
         /\ n + 1 \notin T => Cardinality((1 .. n + 1) \cap T) = Cardinality((1 .. n) \cap T)
<1> DEFINE S == (1 .. n) \cap T
           U == (1 .. n + 1) \cap T
<1>1. IsFiniteSet(S) /\ Cardinality(S) \in Nat
  <2>1. IsFiniteSet(1 .. n)
    BY FS_Interval
  <2>2. S \in SUBSET (1 .. n)
    OBVIOUS
  <2> HIDE DEF S
  <2>3. QED BY <2>1, <2>2, FS_Subset, FS_CardinalityType
<1>2. ASSUME n + 1 \in T PROVE U = S \cup {n + 1} /\ n + 1 \notin S
  BY <1>2
<1>3. ASSUME n + 1 \notin T PROVE U = S
  BY <1>3
<1> HIDE DEF S, U
<1>4. n + 1 \in T => Cardinality(U) = Cardinality(S) + 1
  BY <1>1, <1>2, FS_AddElement
<1>5. QED BY <1>1, <1>3, <1>4 DEF S, U

\* The counters of a scan of a table.
LEMMA TableCounts ==
  ASSUME leaf = "table"
  PROVE  CountersExact <=> /\ read = Cardinality(Begun \ pruned) + again
                           /\ skipped = Cardinality(Begun \cap pruned)
  BY DEF CountersExact, Begun

\* They count finitely many groups.
LEMMA BegunCounts ==
  ASSUME TypeOK, leaf = "table"
  PROVE  Cardinality(Begun \ pruned) \in Nat
<1>1. group \in Nat
  BY Values
<1>2. Begun \in {1 .. group, 1 .. group - 1}
  BY DEF Begun
<1>3. IsFiniteSet(Begun)
  BY <1>1, <1>2, FS_Interval
<1>4. QED BY <1>3, FS_Subset, FS_CardinalityType

\* A group passed over is counted as such, once.
LEMMA SkipCounts ==
  ASSUME TypeOK, ScanSkip
  PROVE  CountersExact'
<1>1. /\ leaf = "table" /\ leaf' = "table" /\ pruned' = pruned /\ row = 0 /\ row' = 0
      /\ group \in Groups /\ group \in pruned /\ group' = group + 1
      /\ read' = read /\ skipped' = skipped + 1 /\ again' = again
  BY DEF ScanSkip, frozen
<1>2. group \in Nat /\ group > 0
  BY <1>1, Values, TypesOfSource, TableRows
<1>3. /\ read = Cardinality(Begun \ pruned) + again /\ again \in Nat
      /\ skipped = Cardinality(Begun \cap pruned)
  BY <1>1, TableCounts DEF TypeOK
<1> DEFINE n == group - 1
           T == Nat \ pruned
<1>4. n \in Nat /\ n + 1 = group /\ Begun = 1 .. n /\ Begun' = 1 .. n + 1
  BY <1>1, <1>2 DEF Begun
<1>5. n + 1 \in pruned /\ n + 1 \notin T
  BY <1>1, <1>4
<1>6. Begun \ pruned = (1 .. n) \cap T /\ Begun' \ pruned = (1 .. n + 1) \cap T
  BY <1>4
<1> HIDE DEF n, T
<1>7. /\ read' = Cardinality(Begun' \ pruned) + again'
      /\ skipped' = Cardinality(Begun' \cap pruned)
  BY <1>1, <1>3, <1>4, <1>5, <1>6, OneMore
<1>8. (leaf = "table" => (CountersExact <=> /\ read = Cardinality(Begun \ pruned) + again
                                            /\ skipped = Cardinality(Begun \cap pruned)))'
  BY TableCounts, PTL
<1>9. QED BY <1>1, <1>7, <1>8

\* What a copy does: at least one row, as many as the group has left and the batch
\* has room for.
LEMMA CopiedRows ==
  ASSUME TypeOK, CopiesNow
  PROVE  /\ group \in Groups /\ Copied \in Nat \ {0}
         /\ row + Copied <= Len(table[group]) /\ Len(batch) + Copied <= Capacity
         /\ row < Len(table[group]) /\ Len(table[group]) \in Nat
<1>1. group \in Groups /\ RoomLeft > 0 /\ RoomLeft = Capacity - Len(batch)
  BY DEF CopiesNow, RoomLeft
<1>2. /\ row \in Nat /\ Len(batch) \in Nat /\ Capacity \in Nat
      /\ Len(table[group]) \in Nat \ {0}
  BY <1>1, Values, TypesOfSource, TableRows
<1>3. row < Len(table[group])
  BY <1>2 DEF TypeOK
<1> DEFINE left == Len(table[group]) - row
<1>4. left \in Nat \ {0} /\ RoomLeft \in Nat \ {0}
  BY <1>1, <1>2, <1>3
<1>5. Copied = Min({left, RoomLeft})
  BY DEF Copied
<1>6. Copied \in {left, RoomLeft} /\ Copied <= left /\ Copied <= RoomLeft
  <2> HIDE DEF left
  <2>1. QED BY <1>4, <1>5, MinOfTwo
<1>7. QED BY <1>1, <1>2, <1>3, <1>4, <1>6

\* A group is counted as read when its first rows are copied, and not again.
LEMMA CopyCounts ==
  ASSUME TypeOK, ScanCopy
  PROVE  CountersExact'
<1>1. /\ leaf = "table" /\ leaf' = "table" /\ pruned' = pruned /\ CopiesNow
      /\ group \in Groups /\ (row > 0 \/ group \notin pruned)
      /\ read' = (IF row = 0 THEN read + 1 ELSE read) /\ skipped' = skipped /\ again' = again
      /\ \/ group' = group + 1 /\ row' = 0
         \/ group' = group /\ row' = row + Copied
  BY DEF ScanCopy, frozen, CopiesNow, Counted, Starts, GroupDone
<1>2. group \in Nat /\ group > 0 /\ row \in Nat /\ Copied \in Nat \ {0}
  BY <1>1, Values, TypesOfSource, TableRows, CopiedRows
<1>3. /\ read = Cardinality(Begun \ pruned) + again /\ again \in Nat
      /\ skipped = Cardinality(Begun \cap pruned)
  BY <1>1, TableCounts DEF TypeOK
<1> DEFINE n == group - 1
           T == Nat \ pruned
<1>4. n \in Nat /\ n + 1 = group /\ Begun' = 1 .. n + 1
      /\ Begun = IF row > 0 THEN 1 .. n + 1 ELSE 1 .. n
  BY <1>1, <1>2 DEF Begun
<1>5. \A S \in SUBSET Nat : S \ pruned = S \cap T
  OBVIOUS
<1>6. Begun \in SUBSET Nat /\ Begun' \in SUBSET Nat
  BY <1>4
<1>7. read = Cardinality(Begun \cap T) + again /\ Begun' \ pruned = Begun' \cap T
  BY <1>3, <1>5, <1>6
<1>8. row = 0 => n + 1 \notin pruned /\ n + 1 \in T
  BY <1>1, <1>4
<1> HIDE DEF n, T
<1>9. /\ read' = Cardinality(Begun' \ pruned) + again'
      /\ skipped' = Cardinality(Begun' \cap pruned)
  <2>1. CASE row > 0
    BY <1>1, <1>3, <1>4, <1>7, <2>1
  <2>2. CASE row = 0
    <3>1. Begun = 1 .. n
      BY <1>4, <2>2
    <3>2. /\ Cardinality((1 .. n) \cap T) \in Nat
          /\ Cardinality((1 .. n + 1) \cap T) = Cardinality((1 .. n) \cap T) + 1
          /\ Cardinality((1 .. n + 1) \cap pruned) = Cardinality((1 .. n) \cap pruned)
      BY <1>4, <1>8, <2>2, OneMore
    <3>3. Begun' = 1 .. n + 1
      BY <1>4
    <3>4. read' = Cardinality(Begun' \ pruned) + again'
      <4> DEFINE c == Cardinality((1 .. n) \cap T)
      <4>1. c \in Nat /\ read = c + again /\ Cardinality(Begun' \cap T) = c + 1
        BY <1>7, <3>1, <3>2, <3>3
      <4>2. read' = read + 1 /\ again' = again
        BY <1>1, <2>2
      <4> HIDE DEF c
      <4>3. QED BY <1>3, <1>7, <4>1, <4>2
    <3>5. skipped' = Cardinality(Begun' \cap pruned)
      BY <1>1, <1>3, <3>1, <3>2, <3>3
    <3>6. QED BY <1>1, <3>4, <3>5
  <2>3. QED BY <1>2, <2>1, <2>2
<1>10. (leaf = "table" => (CountersExact <=> /\ read = Cardinality(Begun \ pruned) + again
                                             /\ skipped = Cardinality(Begun \cap pruned)))'
  BY TableCounts, PTL
<1>11. QED BY <1>1, <1>9, <1>10

\* A group that its statistics rule out is passed over: no accepted row is in it.
LEMMA ScanSkipIInv ==
  ASSUME IInv, ScanSkip
  PROVE  IInv'
<1> USE DEF IInv
<1>1. /\ UNCHANGED frozen
      /\ UNCHANGED <<row, read, again, taken, unread, batch, selection, remaining, pc, delivered,
                     verdict>>
      /\ pc = "scan" /\ leaf = "table" /\ group \in Groups /\ row = 0
      /\ group \in pruned /\ group' = group + 1
  BY DEF ScanSkip
<1>2. /\ table' = table /\ pruned' = pruned /\ limit' = limit /\ leaf' = leaf
      /\ Rows' = Rows /\ Groups' = Groups /\ FileRows' = FileRows /\ Accepted' = Accepted
  BY <1>1, SourceKept
<1>3. group \in Nat /\ Groups = 1 .. Len(table) /\ Len(table) \in Nat /\ InReader' = InReader
  BY <1>1, <1>2, Values, TypesOfSource, TableRows DEF InReader
<1>4. /\ Passed \subseteq Passed'
      /\ \A a \in Passed' : a \in Passed \/ a[1] \in pruned
  <2>1. Passed = {q \in Rows : q[1] < group \/ (q[1] = group /\ q[2] <= row)}
    BY <1>1 DEF Passed
  <2>2. Passed' = {q \in Rows : q[1] < group + 1 \/ (q[1] = group + 1 /\ q[2] <= row)}
    BY <1>1, <1>2 DEF Passed
  <2>3. \A q \in Rows : q[1] \in Nat /\ q[2] \in Nat /\ ~ (q[2] <= 0)
    BY TypesOfSource, RowIsPair, TableRows
  <2>4. \A q \in Rows : (q[1] < group + 1 <=> q[1] < group \/ q[1] = group)
    BY <1>3, <2>3
  <2>5. QED BY <1>1, <2>1, <2>2, <2>3, <2>4
<1>5. \A a \in Accepted : a \in Passed <=> a \in Passed'
  BY <1>4, TypesOfSource, AcceptedRows
<1>6. TypeOK'
  <2>1. group' \in 1 .. Len(table) + 1
    BY <1>1, <1>3
  <2>2. CountersExact'
    BY SkipCounts
  <2>3. QED BY <1>1, <1>2, <1>3, <2>1, <2>2 DEF TypeOK
<1>7. BatchInOrder' /\ SelectionInOrder' /\ FileScan'
  BY <1>1, <1>2, <1>4 DEF BatchInOrder, SelectionInOrder, FileScan
<1>8. DeliveredInOrder'
  BY <1>1, <1>2, <1>4 DEF DeliveredInOrder
<1>9. NothingLost'
  BY <1>1, <1>2, <1>3, <1>5 DEF NothingLost
<1>10. EndTold'
  BY <1>1 DEF EndTold, Exhausted
<1>11. QED BY <1>6, <1>7, <1>8, <1>9, <1>10

\* Rows are taken into the batch: the next ones, all later than those the scan has
\* come past.
NextRows(new) == /\ new \in Seq(Rows)
                 /\ InOrder(new)
                 /\ \A p \in Passed, q \in Range(new) : Earlier(p, q)

\* Then batch, deliveries and completeness stay as they are, with the new rows.
LEMMA TakeRows ==
  ASSUME IInv, NEW new, NextRows(new), UNCHANGED frozen, pc = "scan", pc' \in {"scan", "filter"},
         batch' = batch \o new, UNCHANGED <<remaining, delivered, verdict>>,
         \A q : q \in Passed' <=> q \in Passed \/ q \in Range(new)
  PROVE  /\ batch' \in Seq(Rows) /\ Len(batch') = Len(batch) + Len(new)
         /\ BatchInOrder' /\ DeliveredInOrder'
         /\ verdict # "threw" =>
              \/ remaining = 0
              \/ \A a \in Accepted \cap Passed' : a \in Range(delivered) \/ a \in Range(batch')
<1> USE DEF IInv
<1>1. /\ table' = table /\ pruned' = pruned /\ limit' = limit /\ leaf' = leaf
      /\ Rows' = Rows /\ Accepted' = Accepted
  BY SourceKept
<1>2. /\ new \in Seq(Rows) /\ InOrder(new)
      /\ \A p \in Passed, q \in Range(new) : Earlier(p, q)
  BY DEF NextRows
<1>3. batch \in Seq(Rows) /\ Range(batch) \subseteq Passed /\ InOrder(batch)
  BY Values DEF BatchInOrder
<1>4. /\ batch' \in Seq(Rows) /\ Len(batch') = Len(batch) + Len(new)
      /\ \A x : x \in Range(batch') <=> x \in Range(batch) \/ x \in Range(new)
      /\ InOrder(batch')
  BY <1>2, <1>3, ConcatInOrder
<1>5. BatchInOrder'
  <2>1. Range(batch') \subseteq Passed'
    BY <1>3, <1>4
  <2>2. \A r \in Range(delivered), q \in Range(batch') : Earlier(r, q)
    <3>1. Range(delivered) \subseteq Passed
      BY DEF DeliveredInOrder
    <3>2. \A r \in Range(delivered), q \in Range(batch) : Earlier(r, q)
      BY DEF BatchInOrder
    <3>3. QED BY <1>2, <1>4, <3>1, <3>2
  <2>3. QED BY <1>4, <2>1, <2>2 DEF BatchInOrder
<1>6. DeliveredInOrder'
  BY <1>1 DEF DeliveredInOrder
<1>7. ASSUME verdict # "threw", remaining # 0, NEW a \in Accepted \cap Passed'
      PROVE  a \in Range(delivered) \/ a \in Range(batch')
  <2>1. a \in Passed => a \in Range(delivered) \/ a \in Range(batch)
    BY <1>7 DEF NothingLost
  <2>2. QED BY <1>4, <1>7, <2>1
<1>8. QED BY <1>4, <1>5, <1>6, <1>7

\* A range of rows of the group at hand are the next rows.
LEMMA CopyIsNext ==
  ASSUME TypeOK, ScanCopy
  PROVE  /\ NextRows([i \in 1 .. Copied |-> <<group, row + i>>])
         /\ Len([i \in 1 .. Copied |-> <<group, row + i>>]) = Copied
         /\ \A q : q \in Passed' <=>
                     q \in Passed \/ q \in Range([i \in 1 .. Copied |-> <<group, row + i>>])
<1> DEFINE new == [i \in 1 .. Copied |-> <<group, row + i>>]
<1>1. /\ leaf = "table" /\ leaf' = "table" /\ UNCHANGED frozen /\ CopiesNow
      /\ IF row + Copied = Len(table[group]) THEN group' = group + 1 /\ row' = 0
         ELSE group' = group /\ row' = row + Copied
  BY DEF ScanCopy, frozen, GroupDone
<1>2. /\ group \in Groups /\ Copied \in Nat \ {0} /\ row + Copied <= Len(table[group])
      /\ row \in Nat /\ group \in Nat /\ Len(table[group]) \in Nat
  BY <1>1, CopiedRows, Values
<1>3. Rows' = Rows /\ table' = table
  BY <1>1, SourceKept
<1>4. \A i \in 1 .. Copied : /\ <<group, row + i>> \in Rows
                             /\ new[i] = <<group, row + i>>
                             /\ new[i][1] = group /\ new[i][2] = row + i
  <2> SUFFICES ASSUME NEW i \in 1 .. Copied PROVE <<group, row + i>> \in Rows
    OBVIOUS
  <2>1. row + i \in 1 .. Len(table[group])
    BY <1>2
  <2>2. QED BY <1>2, <2>1, TypesOfSource, RowIsPair
<1>5. new \in [1 .. Copied -> Rows]
  BY <1>4
<1>6. new \in Seq(Rows) /\ Len(new) = Copied
  BY <1>2, <1>5
<1> HIDE DEF new
<1>7. DOMAIN new = 1 .. Copied /\ \A x : x \in Range(new) <=> \E i \in 1 .. Copied : new[i] = x
  BY <1>6, SeqMembers
<1>8. InOrder(new)
  <2>1. ASSUME NEW i \in 1 .. Copied, NEW j \in 1 .. Copied, i < j PROVE Earlier(new[i], new[j])
    <3>1. new[i][1] = group /\ new[j][1] = group /\ new[i][2] = row + i /\ new[j][2] = row + j
      BY <1>4
    <3>2. row + i < row + j
      BY <1>2, <2>1
    <3>3. QED BY <3>1, <3>2 DEF Earlier
  <2>2. QED BY <1>7, <2>1 DEF InOrder
<1>9. Passed = {q \in Rows : q[1] < group \/ (q[1] = group /\ q[2] <= row)}
  BY <1>1 DEF Passed
<1>10. \A p \in Passed, q \in Range(new) : Earlier(p, q)
  <2> SUFFICES ASSUME NEW p \in Passed, NEW i \in 1 .. Copied PROVE Earlier(p, new[i])
    BY <1>7
  <2>1. p[1] \in Nat /\ p[2] \in Nat /\ (p[1] < group \/ (p[1] = group /\ p[2] <= row))
    BY <1>9, TypesOfSource, RowIsPair
  <2>2. new[i][1] = group /\ new[i][2] = row + i
    BY <1>4
  <2>3. p[2] <= row => p[2] < row + i
    BY <1>2, <2>1
  <2>4. QED BY <2>1, <2>2, <2>3 DEF Earlier
<1>11. Passed' = {q \in Rows : q[1] < group \/ (q[1] = group /\ q[2] <= row + Copied)}
  <2>1. Passed' = {q \in Rows : q[1] < group' \/ (q[1] = group' /\ q[2] <= row')}
    BY <1>1, <1>3 DEF Passed
  <2>2. \A q \in Rows : /\ q[1] \in Nat /\ q[2] \in Nat /\ q[2] > 0
                        /\ q[2] <= Len(table[q[1]])
    BY <1>2, TypesOfSource, RowIsPair, TableRows
  <2>3. CASE row + Copied = Len(table[group])
    <3>1. group' = group + 1 /\ row' = 0
      BY <1>1, <2>3
    <3>2. ASSUME NEW q \in Rows
          PROVE  q[1] < group + 1 \/ (q[1] = group + 1 /\ q[2] <= 0)
                   <=> q[1] < group \/ (q[1] = group /\ q[2] <= row + Copied)
      <4>1. q[1] \in Nat /\ q[2] \in Nat /\ q[2] > 0 /\ (q[1] = group => q[2] <= row + Copied)
        BY <2>2, <2>3
      <4>2. QED BY <1>2, <4>1
    <3>3. QED BY <2>1, <3>1, <3>2
  <2>4. CASE row + Copied # Len(table[group])
    BY <1>1, <2>1, <2>4
  <2>5. QED BY <2>3, <2>4
<1>12. ASSUME NEW q PROVE q \in Passed' <=> q \in Passed \/ q \in Range(new)
  <2>1. ASSUME q \in Passed', q \notin Passed PROVE q \in Range(new)
    <3>1. q \in Rows /\ q[1] = group /\ q[2] <= row + Copied /\ ~ (q[2] <= row)
      BY <1>9, <1>11, <2>1
    <3>2. q = <<q[1], q[2]>> /\ q[2] \in Nat
      BY <3>1, TypesOfSource, RowIsPair
    <3> DEFINE i == q[2] - row
    <3>3. i \in 1 .. Copied /\ row + i = q[2]
      BY <1>2, <3>1, <3>2
    <3>4. new[i] = <<group, row + i>>
      BY <1>4, <3>3
    <3>5. new[i] = q
      BY <3>1, <3>2, <3>3, <3>4
    <3>6. QED BY <1>7, <3>3, <3>5
  <2>2. ASSUME q \in Passed PROVE q \in Passed'
    <3>1. q \in Rows /\ q[2] \in Nat /\ (q[1] < group \/ (q[1] = group /\ q[2] <= row))
      BY <1>9, <2>2, TypesOfSource, RowIsPair
    <3>2. QED BY <1>2, <1>11, <3>1
  <2>3. ASSUME q \in Range(new) PROVE q \in Passed'
    <3>1. PICK i \in 1 .. Copied : q = new[i]
      BY <1>7, <2>3
    <3>2. q \in Rows /\ q[1] = group /\ q[2] = row + i
      BY <1>4, <3>1
    <3>3. row + i <= row + Copied
      BY <1>2
    <3>4. QED BY <1>11, <3>2, <3>3
  <2>4. QED BY <2>1, <2>2, <2>3
<1>13. NextRows(new)
  BY <1>6, <1>8, <1>10 DEF NextRows
<1>14. QED BY <1>6, <1>12, <1>13 DEF new

\* A range of the group at hand is copied into the batch.
LEMMA ScanCopyIInv ==
  ASSUME IInv, ScanCopy
  PROVE  IInv'
<1> USE DEF IInv
<1> DEFINE new == [i \in 1 .. Copied |-> <<group, row + i>>]
<1>1. /\ UNCHANGED frozen
      /\ UNCHANGED <<skipped, again, taken, unread, selection, remaining, pc, delivered, verdict>>
      /\ pc = "scan" /\ leaf = "table" /\ CopiesNow /\ batch' = batch \o new
      /\ IF row + Copied = Len(table[group]) THEN group' = group + 1 /\ row' = 0
         ELSE group' = group /\ row' = row + Copied
  BY DEF ScanCopy, GroupDone
<1>2. /\ NextRows(new) /\ Len(new) = Copied
      /\ \A q : q \in Passed' <=> q \in Passed \/ q \in Range(new)
  BY CopyIsNext
<1> HIDE DEF new
<1>3. /\ table' = table /\ pruned' = pruned /\ limit' = limit /\ leaf' = leaf
      /\ Rows' = Rows /\ Groups' = Groups /\ FileRows' = FileRows /\ Accepted' = Accepted
  BY <1>1, SourceKept
<1>4. /\ batch' \in Seq(Rows) /\ Len(batch') = Len(batch) + Len(new)
      /\ BatchInOrder' /\ DeliveredInOrder'
      /\ verdict # "threw" =>
           \/ remaining = 0
           \/ \A a \in Accepted \cap Passed' : a \in Range(delivered) \/ a \in Range(batch')
  BY <1>1, <1>2, TakeRows
<1>5. /\ group \in Groups /\ Copied \in Nat \ {0} /\ row + Copied <= Len(table[group])
      /\ Len(batch) + Copied <= Capacity /\ Len(table[group]) \in Nat
      /\ row \in Nat /\ group \in Nat /\ Groups = 1 .. Len(table) /\ Len(table) \in Nat
      /\ Len(batch) \in Nat
  BY <1>1, CopiedRows, Values, TypesOfSource, TableRows
<1>6. selection = << >> /\ remaining > 0
  BY <1>1 DEF SelectionInOrder, DeliveredInOrder
<1>7. InReader' = InReader
  BY <1>1, <1>3 DEF InReader
<1>8. TypeOK'
  <2>1. group' \in 1 .. Len(table) + 1 /\ row' \in Nat
        /\ (row' > 0 => group' \in Groups /\ row' < Len(table[group']))
    BY <1>1, <1>5
  <2>2. Len(batch') <= Capacity
    BY <1>2, <1>4, <1>5
  <2>3. selection' \in Seq(DOMAIN batch')
    BY <1>1, <1>6, NoRows
  <2>4. CountersExact'
    BY CopyCounts
  <2>5. QED BY <1>1, <1>3, <1>4, <1>7, <2>1, <2>2, <2>3, <2>4 DEF TypeOK
<1>9. SelectionInOrder'
  <2>1. selection' = << >> /\ Len(selection') = 0 /\ DOMAIN selection' = {}
    BY <1>1, <1>6, NoRows
  <2>2. Len(batch') \in Nat
    BY <1>2, <1>4, <1>5
  <2>3. QED BY <1>1, <2>1, <2>2 DEF SelectionInOrder
<1>10. NothingLost'
  BY <1>1, <1>3, <1>4, <1>7 DEF NothingLost
<1>11. EndTold'
  <2>1. verdict # "end"
    BY <1>1, <1>5, <1>6, Values DEF EndTold, Exhausted
  <2>2. QED BY <1>1, <2>1 DEF EndTold
<1>12. FileScan'
  BY <1>1, <1>3 DEF FileScan
<1>13. QED BY <1>4, <1>8, <1>9, <1>10, <1>11, <1>12

\* A batch whose selection is every row of it.
LEMMA WholeBatch ==
  ASSUME NEW S, NEW b \in Seq(S), NEW s, s = [i \in 1 .. Len(b) |-> i]
  PROVE  /\ s \in Seq(DOMAIN b) /\ Len(s) = Len(b) /\ DOMAIN s = DOMAIN b
         /\ \A i, j \in DOMAIN s : i < j => s[i] < s[j]
         /\ \A i \in DOMAIN b : \E j \in DOMAIN s : s[j] = i
<1>1. Len(b) \in Nat /\ DOMAIN b = 1 .. Len(b)
  BY LenProperties
<1>2. s \in [1 .. Len(b) -> DOMAIN b] /\ \A i \in 1 .. Len(b) : s[i] = i
  BY <1>1
<1>3. s \in Seq(DOMAIN b) /\ Len(s) = Len(b) /\ DOMAIN s = 1 .. Len(b)
  BY <1>1, <1>2
<1>4. QED BY <1>1, <1>2, <1>3

\* The batch goes to the filter.
LEMMA ScanFullIInv ==
  ASSUME IInv, ScanFull
  PROVE  IInv'
<1> USE DEF IInv
<1>1. /\ UNCHANGED frozen /\ UNCHANGED scan
      /\ UNCHANGED <<batch, remaining, delivered, verdict>>
      /\ pc = "scan" /\ pc' = "filter" /\ batch # << >>
      /\ selection' = [i \in DOMAIN batch |-> i]
  BY DEF ScanFull
<1>2. /\ table' = table /\ pruned' = pruned /\ limit' = limit /\ leaf' = leaf
      /\ Rows' = Rows /\ Groups' = Groups /\ FileRows' = FileRows /\ Accepted' = Accepted
  BY <1>1, SourceKept
<1>3. /\ Passed' = Passed /\ InReader' = InReader /\ CountersExact' = CountersExact
      /\ UNCHANGED <<group, row, read, skipped, again, taken, unread>>
  BY <1>1, ScanKept
<1>4. /\ selection' \in Seq(DOMAIN batch) /\ Len(selection') = Len(batch)
      /\ DOMAIN selection' = DOMAIN batch /\ Len(batch) \in Nat
      /\ \A i, j \in DOMAIN selection' : i < j => selection'[i] < selection'[j]
      /\ \A i \in DOMAIN batch : \E j \in DOMAIN selection' : selection'[j] = i
  <2>1. batch \in Seq(Rows) /\ DOMAIN batch = 1 .. Len(batch) /\ Len(batch) \in Nat
    BY Values
  <2>2. selection' = [i \in 1 .. Len(batch) |-> i]
    BY <1>1, <2>1
  <2>3. QED BY <2>1, <2>2, WholeBatch
<1>5. TypeOK'
  BY <1>1, <1>2, <1>3, <1>4 DEF TypeOK
<1>6. BatchInOrder' /\ DeliveredInOrder' /\ FileScan' /\ NothingLost'
  BY <1>1, <1>2, <1>3 DEF BatchInOrder, DeliveredInOrder, FileScan, NothingLost
<1>7. SelectionInOrder'
  BY <1>1, <1>4 DEF SelectionInOrder, Selects
<1>8. EndTold'
  BY <1>1 DEF EndTold
<1>9. QED BY <1>5, <1>6, <1>7, <1>8

\* The scan has nothing left: false, with an empty batch.
LEMMA EndIInv ==
  ASSUME IInv, ScanEnd \/ FileEnd
  PROVE  IInv'
<1> USE DEF IInv
<1>1. /\ UNCHANGED frozen /\ UNCHANGED scan
      /\ UNCHANGED <<batch, selection, remaining, delivered>>
      /\ pc = "scan" /\ pc' = "idle" /\ batch = << >> /\ Exhausted
      /\ verdict' = IF verdict = "threw" THEN "threw" ELSE "end"
  <2>1. CASE ScanEnd
    BY <2>1 DEF ScanEnd, Told, Exhausted
  <2>2. CASE FileEnd
    BY <2>2 DEF FileEnd, Told, Exhausted, FileScan
  <2>3. QED BY <2>1, <2>2
<1>2. /\ table' = table /\ pruned' = pruned /\ limit' = limit /\ leaf' = leaf
      /\ Rows' = Rows /\ Groups' = Groups /\ FileRows' = FileRows /\ Accepted' = Accepted
  BY <1>1, SourceKept
<1>3. /\ Passed' = Passed /\ InReader' = InReader /\ CountersExact' = CountersExact
      /\ Exhausted' = Exhausted
      /\ UNCHANGED <<group, row, read, skipped, again, taken, unread>>
  BY <1>1, ScanKept
<1>4. TypeOK'
  BY <1>1, <1>2, <1>3 DEF TypeOK
<1>5. BatchInOrder' /\ SelectionInOrder' /\ DeliveredInOrder' /\ FileScan'
  BY <1>1, <1>2, <1>3
     DEF BatchInOrder, SelectionInOrder, DeliveredInOrder, FileScan
<1>6. NothingLost'
  BY <1>1, <1>2, <1>3, NoRows DEF NothingLost
<1>7. EndTold'
  BY <1>1, <1>3 DEF EndTold
<1>8. QED BY <1>4, <1>5, <1>6, <1>7

-----------------------------------------------------------------------------
\* The scan of a file.

\* What a read gives are the next rows of the file.
LEMMA ReadIsNext ==
  ASSUME TypeOK, NEW n \in Nat \ {0}, n <= InReader, leaf # "table", UNCHANGED frozen,
         taken' = taken + n
  PROVE  /\ NextRows(SubSeq(FileRows, taken + 1, taken + n))
         /\ Len(SubSeq(FileRows, taken + 1, taken + n)) = n
         /\ \A q : q \in Passed' <=>
                     q \in Passed \/ q \in Range(SubSeq(FileRows, taken + 1, taken + n))
<1> DEFINE new == SubSeq(FileRows, taken + 1, taken + n)
<1>1. /\ taken \in Nat /\ Len(FileRows) \in Nat /\ taken + n <= Len(FileRows)
  <2> DEFINE m == Len(FileRows)
  <2>1. taken \in Nat /\ m \in Nat
    BY Values
  <2>2. n <= m - taken
    BY DEF InReader
  <2> HIDE DEF m
  <2>3. taken + n <= m
    BY <2>1, <2>2
  <2>4. QED BY <2>1, <2>3 DEF m
<1>2. /\ FileRows' = FileRows /\ leaf' # "table"
  BY SourceKept
<1>3. \A i \in 1 .. Len(FileRows) : FileRows[i] \in Rows
  BY TypesOfSource, FileRowsInOrder
<1>4. /\ new \in Seq(Rows) /\ Len(new) = n
      /\ \A i \in 1 .. n : new[i] = FileRows[taken + i]
  <2> DEFINE a == taken + 1
             b == taken + n
  <2>1. a \in Int /\ b \in Int /\ a <= b /\ b - a + 1 = n /\ \A i \in 1 .. n : a + i - 1 = taken + i
    BY <1>1
  <2>2. \A i \in a .. b : FileRows[i] \in Rows
    BY <1>1, <1>3
  <2>3. new = SubSeq(FileRows, a, b)
    OBVIOUS
  <2> HIDE DEF new, a, b
  <2>4. /\ SubSeq(FileRows, a, b) \in Seq(Rows)
        /\ Len(SubSeq(FileRows, a, b)) = IF a <= b THEN b - a + 1 ELSE 0
        /\ \A i \in 1 .. b - a + 1 : SubSeq(FileRows, a, b)[i] = FileRows[a + i - 1]
    BY <2>1, <2>2, SubSeqProperties
  <2>5. QED BY <2>1, <2>3, <2>4
<1> HIDE DEF new
<1>5. DOMAIN new = 1 .. n /\ \A x : x \in Range(new) <=> \E i \in 1 .. n : new[i] = x
  BY <1>4, SeqMembers
<1>6. Passed = {FileRows[i] : i \in 1 .. taken} /\ Passed' = {FileRows[i] : i \in 1 .. taken + n}
  BY <1>2 DEF Passed
<1>7. \A i \in 1 .. n : taken + i \in 1 .. Len(FileRows) /\ taken + i \in 1 .. taken + n
  BY <1>1
<1>8. \A k, l \in 1 .. Len(FileRows) : k < l => Earlier(FileRows[k], FileRows[l])
  BY TypesOfSource, FileRowsInOrder
<1>9. InOrder(new)
  <2>1. ASSUME NEW i \in 1 .. n, NEW j \in 1 .. n, i < j PROVE Earlier(new[i], new[j])
    <3>1. taken + i < taken + j
      BY <1>1, <2>1
    <3>2. Earlier(FileRows[taken + i], FileRows[taken + j])
      BY <1>7, <1>8, <3>1
    <3>3. QED BY <1>4, <3>2
  <2>2. QED BY <1>5, <2>1 DEF InOrder
<1>10. \A p \in Passed, q \in Range(new) : Earlier(p, q)
  <2> SUFFICES ASSUME NEW k \in 1 .. taken, NEW i \in 1 .. n
               PROVE  Earlier(FileRows[k], new[i])
    BY <1>5, <1>6
  <2>1. k \in 1 .. Len(FileRows) /\ k < taken + i
    BY <1>1
  <2>2. Earlier(FileRows[k], FileRows[taken + i])
    BY <1>7, <1>8, <2>1
  <2>3. QED BY <1>4, <2>2
<1>11. ASSUME NEW q PROVE q \in Passed' <=> q \in Passed \/ q \in Range(new)
  <2>1. ASSUME q \in Passed' PROVE q \in Passed \/ q \in Range(new)
    <3>1. PICK k \in 1 .. taken + n : q = FileRows[k]
      BY <1>6, <2>1
    <3>2. CASE k \in 1 .. taken
      BY <1>6, <3>1, <3>2
    <3>3. CASE k \notin 1 .. taken
      <4> DEFINE i == k - taken
      <4>1. i \in 1 .. n /\ taken + i = k
        BY <1>1, <3>1, <3>3
      <4> HIDE DEF i
      <4>2. new[i] = q
        BY <1>4, <3>1, <4>1
      <4>3. QED BY <1>5, <4>1, <4>2
    <3>4. QED BY <3>2, <3>3
  <2>2. q \in Passed => q \in Passed'
    <3>1. 1 .. taken \subseteq 1 .. taken + n
      BY <1>1
    <3>2. QED BY <1>6, <3>1
  <2>3. ASSUME q \in Range(new) PROVE q \in Passed'
    <3>1. PICK i \in 1 .. n : q = new[i]
      BY <1>5, <2>3
    <3>2. q = FileRows[taken + i] /\ taken + i \in 1 .. taken + n
      BY <1>4, <1>7, <3>1
    <3>3. QED BY <1>6, <3>2
  <2>4. QED BY <2>1, <2>2, <2>3
<1>12. NextRows(new)
  BY <1>4, <1>9, <1>10 DEF NextRows
<1>13. QED BY <1>4, <1>11, <1>12 DEF new

\* How many rows a read may give.
LEMMA ReadableRows ==
  ASSUME TypeOK, FileScan, leaf # "table", unread > 0, NEW n \in Readable
  PROVE  n \in Nat \ {0} /\ n <= InReader /\ n <= Capacity /\ n <= unread
<1>1. /\ InReader \in Nat /\ Capacity \in Nat \ {0} /\ unread \in Nat /\ Len(FileRows) \in Nat
  BY Values
<1>2. unread >= InReader
  BY <1>1 DEF TypeOK
<1>3. CASE leaf = "bare"
  <2>1. n = Min({Capacity, unread}) /\ unread = InReader
    BY <1>3 DEF Readable, FileScan
  <2>2. n \in {Capacity, unread} /\ n <= Capacity /\ n <= unread
    BY <1>1, <2>1, MinOfTwo
  <2>3. QED BY <1>1, <2>1, <2>2
<1>4. CASE leaf # "bare"
  <2> DEFINE m == Min({Capacity, InReader})
  <2>1. n \in 1 .. m
    BY <1>4 DEF Readable
  <2>2. m \in {Capacity, InReader} /\ m <= Capacity /\ m <= InReader
    <3>1. Capacity \in Int /\ InReader \in Int
      BY <1>1
    <3>2. QED BY <3>1, MinOfTwo
  <2> HIDE DEF m
  <2>3. QED BY <1>1, <1>2, <2>1, <2>2
<1>5. QED BY <1>3, <1>4

\* A read gives a batch.
LEMMA FileReadIInv ==
  ASSUME IInv, FileRead
  PROVE  IInv'
<1> USE DEF IInv
<1>1. /\ UNCHANGED frozen /\ UNCHANGED <<group, row, read, skipped, again, remaining, delivered, verdict>>
      /\ pc = "scan" /\ pc' = "filter" /\ leaf # "table" /\ unread > 0
      /\ \E n \in Readable : /\ batch' = SubSeq(FileRows, taken + 1, taken + n)
                             /\ selection' = [i \in 1 .. n |-> i]
                             /\ taken' = taken + n
                             /\ unread' = unread - n
  BY DEF FileRead, UnreadAfter
<1>2. PICK n \in Readable : /\ batch' = SubSeq(FileRows, taken + 1, taken + n)
                            /\ selection' = [i \in 1 .. n |-> i]
                            /\ taken' = taken + n
                            /\ unread' = unread - n
  BY <1>1
<1>3. n \in Nat \ {0} /\ n <= InReader /\ n <= Capacity /\ n <= unread
  BY <1>1, ReadableRows
<1> DEFINE new == SubSeq(FileRows, taken + 1, taken + n)
<1>4. /\ NextRows(new) /\ Len(new) = n
      /\ \A q : q \in Passed' <=> q \in Passed \/ q \in Range(new)
  BY <1>1, <1>2, <1>3, ReadIsNext
<1>5. batch' = new
  BY <1>2
<1> HIDE DEF new
<1>6. batch' = batch \o new
  <2>1. batch = << >> /\ new \in Seq(Rows)
    BY <1>1, <1>4 DEF FileScan, NextRows
  <2>2. << >> \o new = new
    BY <2>1, ConcatEmptySeq
  <2>3. QED BY <1>5, <2>1, <2>2
<1>7. /\ table' = table /\ pruned' = pruned /\ limit' = limit /\ leaf' = leaf
      /\ Rows' = Rows /\ Groups' = Groups /\ FileRows' = FileRows /\ Accepted' = Accepted
  BY <1>1, SourceKept
<1>8. /\ batch' \in Seq(Rows) /\ Len(batch') = n
      /\ BatchInOrder' /\ DeliveredInOrder'
      /\ verdict # "threw" =>
           \/ remaining = 0
           \/ \A a \in Accepted \cap Passed' : a \in Range(delivered) \/ a \in Range(batch')
  <2>1. new \in Seq(Rows)
    BY <1>4 DEF NextRows
  <2>2. QED BY <1>1, <1>4, <1>5, <1>6, <2>1, TakeRows
<1>9. /\ selection' \in Seq(DOMAIN batch') /\ Len(selection') = Len(batch')
      /\ \A i, j \in DOMAIN selection' : i < j => selection'[i] < selection'[j]
      /\ \A i \in DOMAIN batch' : \E j \in DOMAIN selection' : selection'[j] = i
  <2>1. selection' = [i \in 1 .. Len(batch') |-> i]
    BY <1>2, <1>8
  <2>2. QED BY <1>8, <2>1, WholeBatch
<1>10. /\ InReader \in Nat /\ unread \in Nat /\ taken \in Nat /\ Len(FileRows) \in Nat
       /\ InReader' = InReader - n
  <2>1. InReader' = Len(FileRows) - (taken + n)
    BY <1>2, <1>7 DEF InReader
  <2>2. /\ InReader \in Nat /\ unread \in Nat /\ taken \in Nat /\ Len(FileRows) \in Nat
        /\ InReader = Len(FileRows) - taken
    BY Values DEF InReader
  <2>3. QED BY <1>3, <2>1, <2>2
<1>11. TypeOK'
  <2>1. taken' \in 0 .. Len(FileRows)
    BY <1>2, <1>3, <1>10 DEF InReader
  <2>2. unread' = 0 \/ unread' \in InReader' .. Len(FileRows)
    BY <1>1, <1>2, <1>3, <1>10 DEF TypeOK
  <2>3. CountersExact'
    BY <1>1, <1>7 DEF TypeOK, CountersExact
  <2>4. QED BY <1>1, <1>3, <1>7, <1>8, <1>9, <2>1, <2>2, <2>3 DEF TypeOK
<1>12. SelectionInOrder'
  <2>1. Len(batch') \in Nat
    BY <1>3, <1>8
  <2>2. \A i \in DOMAIN batch' : Selects(i)'
    BY <1>9 DEF Selects
  <2>3. pc' = "filter" /\ Len(selection') <= Len(batch')
    <3>1. Len(selection') <= Len(batch')
      BY <1>9, <2>1
    <3>2. QED BY <1>1, <3>1
  <2>4. \A i, j \in DOMAIN selection' : i < j => selection'[i] < selection'[j]
    BY <1>9
  <2>5. QED BY <2>2, <2>3, <2>4 DEF SelectionInOrder
<1>13. NothingLost'
  <2>1. unread = InReader => unread' = InReader'
    BY <1>2, <1>10
  <2>2. QED BY <1>1, <1>7, <1>8, <2>1 DEF NothingLost
<1>14. EndTold'
  <2>1. remaining > 0 /\ remaining \in Nat
    <3>1. pc # "idle" => remaining > 0
      BY DEF DeliveredInOrder
    <3>2. pc # "idle"
      BY <1>1
    <3>3. remaining \in Nat
      BY Values
    <3>4. QED BY <3>1, <3>2, <3>3
  <2>2. unread > 0 /\ leaf # "table"
    BY <1>1
  <2>3. ~ Exhausted
    BY <1>10, <2>2 DEF Exhausted
  <2>4. verdict # "end"
    BY <2>1, <2>3 DEF EndTold
  <2>5. verdict' = verdict
    BY <1>1
  <2>6. QED BY <2>4, <2>5 DEF EndTold
<1>15. FileScan'
  BY <1>1, <1>2, <1>7, <1>10 DEF FileScan
<1>16. QED BY <1>8, <1>11, <1>12, <1>13, <1>14, <1>15

\* The reader ends before the count only after an exception.
LEMMA ReaderEndIInv ==
  ASSUME IInv, ReaderEnd
  PROVE  IInv'
<1> USE DEF IInv
<1>1. /\ UNCHANGED frozen
      /\ UNCHANGED <<group, row, read, skipped, again, taken, batch, selection, remaining, delivered>>
      /\ pc = "scan" /\ pc' = "idle" /\ leaf = "file" /\ unread > 0 /\ InReader = 0 /\ unread' = 0
      /\ verdict' = IF verdict = "threw" THEN "threw" ELSE "end"
  BY DEF ReaderEnd, Told
<1>2. verdict = "threw" /\ verdict' = "threw"
  BY <1>1, Values DEF NothingLost
<1>3. /\ table' = table /\ pruned' = pruned /\ limit' = limit /\ leaf' = leaf
      /\ Rows' = Rows /\ Groups' = Groups /\ FileRows' = FileRows /\ Accepted' = Accepted
  BY <1>1, SourceKept
<1>4. Passed' = Passed /\ CountersExact' = CountersExact
  BY <1>1, <1>3 DEF Passed, CountersExact
<1>5. TypeOK'
  BY <1>1, <1>2, <1>3, <1>4 DEF TypeOK
<1>6. BatchInOrder' /\ SelectionInOrder' /\ DeliveredInOrder' /\ FileScan'
  BY <1>1, <1>3, <1>4 DEF BatchInOrder, SelectionInOrder, DeliveredInOrder, FileScan
<1>7. NothingLost' /\ EndTold'
  BY <1>2 DEF NothingLost, EndTold
<1>8. QED BY <1>5, <1>6, <1>7

\* The scan throws: the batch is lost, and rows of the reader may be lost with it.
LEMMA ScanThrowIInv ==
  ASSUME IInv, ScanThrow
  PROVE  IInv'
<1> USE DEF IInv
<1>1. /\ UNCHANGED frozen
      /\ UNCHANGED <<group, row, skipped, unread, batch, selection, remaining, delivered>>
      /\ pc = "scan" /\ pc' = "idle" /\ verdict' = "threw" /\ leaf \in {"table", "file"}
      /\ leaf = "table" => /\ taken' = taken
                           /\ \/ read' = read + 1 /\ again' = again + 1
                              \/ read' = read /\ again' = again
      /\ leaf = "file" => /\ \E n \in 0 .. Min({Capacity, InReader}) : taken' = taken + n
                          /\ read' = read /\ again' = again
  BY DEF ScanThrow, Counted
<1>2. /\ table' = table /\ pruned' = pruned /\ limit' = limit /\ leaf' = leaf
      /\ Rows' = Rows /\ Groups' = Groups /\ FileRows' = FileRows /\ Accepted' = Accepted
  BY <1>1, SourceKept
<1>3. /\ InReader \in Nat /\ Capacity \in Nat /\ taken \in Nat /\ Len(FileRows) \in Nat
      /\ InReader = Len(FileRows) - taken
  BY Values DEF InReader
<1>4. taken' \in 0 .. Len(FileRows) /\ taken <= taken' /\ (leaf = "table" => taken' = taken)
  <2> DEFINE m == Min({Capacity, InReader})
  <2>1. m \in {Capacity, InReader} /\ m <= InReader
    <3>1. Capacity \in Int /\ InReader \in Int
      BY <1>3
    <3>2. QED BY <3>1, MinOfTwo
  <2>2. leaf = "file" => \E n \in 0 .. m : taken' = taken + n
    BY <1>1
  <2>3. leaf = "table" => taken' = taken
    BY <1>1
  <2>4. leaf \in {"table", "file"}
    BY <1>1
  <2> HIDE DEF m
  <2>5. QED BY <1>3, <2>1, <2>2, <2>3, <2>4
<1>5. Passed \subseteq Passed'
  <2>1. CASE leaf = "table"
    BY <1>1, <1>2, <2>1 DEF Passed
  <2>2. CASE leaf # "table"
    <3>1. 1 .. taken \subseteq 1 .. taken'
      BY <1>3, <1>4
    <3>2. QED BY <1>2, <2>2, <3>1 DEF Passed
  <2>3. QED BY <2>1, <2>2
<1>6. TypeOK'
  <2>1. unread' = 0 \/ unread' \in InReader' .. Len(FileRows)
    <3>1. InReader' = Len(FileRows) - taken' /\ InReader' <= InReader
      BY <1>2, <1>3, <1>4 DEF InReader
    <3>2. unread = 0 \/ unread \in InReader .. Len(FileRows)
      BY DEF TypeOK
    <3>3. unread' = unread /\ InReader' \in Int
      BY <1>1, <1>3, <1>4, <3>1
    <3>4. QED BY <1>3, <3>1, <3>2, <3>3
  <2>2. /\ again' \in Nat
        /\ \/ read' = read + 1 /\ again' = again + 1
           \/ read' = read /\ again' = again
    BY <1>1 DEF TypeOK
  <2>3. CountersExact'
    <3>1. CASE leaf = "table"
      <4>1. /\ read = Cardinality(Begun \ pruned) + again /\ again \in Nat
            /\ skipped = Cardinality(Begun \cap pruned)
        BY <3>1, TableCounts DEF TypeOK
      <4>2. Begun' = Begun /\ skipped' = skipped
        BY <1>1 DEF Begun
      <4>3. Cardinality(Begun \ pruned) \in Nat
        BY <3>1, BegunCounts
      <4>4. read' = Cardinality(Begun' \ pruned) + again' /\ skipped' = Cardinality(Begun' \cap pruned)
        BY <1>2, <2>2, <4>1, <4>2, <4>3
      <4>5. (leaf = "table" => (CountersExact <=> /\ read = Cardinality(Begun \ pruned) + again
                                                  /\ skipped = Cardinality(Begun \cap pruned)))'
        BY TableCounts, PTL
      <4>6. QED BY <1>2, <3>1, <4>4, <4>5
    <3>2. CASE leaf # "table"
      <4>1. read' = read /\ again' = again
        BY <1>1, <3>2
      <4>2. QED BY <1>1, <1>2, <4>1 DEF TypeOK, CountersExact
    <3>3. QED BY <3>1, <3>2
  <2>4. QED BY <1>1, <1>2, <1>4, <2>1, <2>2, <2>3 DEF TypeOK
<1>7. BatchInOrder' /\ SelectionInOrder' /\ DeliveredInOrder' /\ FileScan'
  BY <1>1, <1>2, <1>5 DEF BatchInOrder, SelectionInOrder, DeliveredInOrder, FileScan
<1>8. NothingLost' /\ EndTold'
  BY <1>1 DEF NothingLost, EndTold
<1>9. QED BY <1>6, <1>7, <1>8

-----------------------------------------------------------------------------
\* The filter and the rows that come out.

\* No row of the batch passes: the filter pulls the next one.
LEMMA FilterNoneIInv ==
  ASSUME IInv, FilterNone
  PROVE  IInv'
<1> USE DEF IInv
<1>1. /\ UNCHANGED frozen /\ UNCHANGED scan
      /\ UNCHANGED <<remaining, delivered, verdict>>
      /\ pc = "filter" /\ pc' = "scan" /\ Selected = << >>
      /\ batch' = << >> /\ selection' = << >>
  BY DEF FilterNone
<1>2. /\ table' = table /\ pruned' = pruned /\ limit' = limit /\ leaf' = leaf
      /\ Rows' = Rows /\ Groups' = Groups /\ FileRows' = FileRows /\ Accepted' = Accepted
  BY <1>1, SourceKept
<1>3. /\ Passed' = Passed /\ InReader' = InReader /\ CountersExact' = CountersExact
      /\ UNCHANGED <<group, row, read, skipped, again, taken, unread>>
  BY <1>1, ScanKept
<1>4. /\ \A S : << >> \in Seq(S)
      /\ Len(<< >>) = 0 /\ DOMAIN << >> = {} /\ Range(<< >>) = {} /\ InOrder(<< >>)
  BY NoRows
<1>5. Capacity \in Nat \ {0} /\ remaining \in Nat
  BY Values
<1>6. \A a \in Accepted : a \notin Range(batch)
  <2>1. batch \in Seq(Rows)
    BY Values
  <2>2. \A x : x \in Range(batch) <=> \E i \in 1 .. Len(batch) : batch[i] = x
    BY <2>1, SeqMembers
  <2> SUFFICES ASSUME NEW i \in 1 .. Len(batch), batch[i] \in Accepted PROVE FALSE
    BY <2>2
  <2>3. i \in DOMAIN batch /\ Selects(i) /\ Accepts(batch[i])
    BY <1>1, Values DEF SelectionInOrder, Accepted
  <2>4. \E k \in DOMAIN Selected : Selected[k] = i
    BY <2>3, SelectedRows
  <2>5. QED BY <1>1, <1>4, <2>4
<1>7. TypeOK'
  BY <1>1, <1>2, <1>3, <1>4, <1>5 DEF TypeOK
<1>8. BatchInOrder' /\ SelectionInOrder'
  BY <1>1, <1>4 DEF BatchInOrder, SelectionInOrder
<1>9. DeliveredInOrder' /\ FileScan'
  BY <1>1, <1>2, <1>3 DEF DeliveredInOrder, FileScan
<1>10. NothingLost'
  BY <1>1, <1>2, <1>3, <1>6 DEF NothingLost
<1>11. EndTold'
  BY <1>1 DEF EndTold
<1>12. QED BY <1>7, <1>8, <1>9, <1>10, <1>11

\* The rows that pass become the selection.
LEMMA FilterSomeIInv ==
  ASSUME IInv, FilterSome
  PROVE  IInv'
<1> USE DEF IInv
<1>1. /\ UNCHANGED frozen /\ UNCHANGED scan
      /\ UNCHANGED <<batch, remaining, delivered, verdict>>
      /\ pc = "filter" /\ pc' = "project" /\ Selected # << >> /\ selection' = Selected
  BY DEF FilterSome
<1>2. /\ table' = table /\ pruned' = pruned /\ limit' = limit /\ leaf' = leaf
      /\ Rows' = Rows /\ Groups' = Groups /\ FileRows' = FileRows /\ Accepted' = Accepted
  BY <1>1, SourceKept
<1>3. /\ Passed' = Passed /\ InReader' = InReader /\ CountersExact' = CountersExact
      /\ UNCHANGED <<group, row, read, skipped, again, taken, unread>>
  BY <1>1, ScanKept
<1>4. /\ Selected \in Seq(DOMAIN batch) /\ Len(Selected) <= Len(selection)
      /\ \A i, j \in DOMAIN Selected : i < j => Selected[i] < Selected[j]
      /\ \A i : (\E k \in DOMAIN Selected : Selected[k] = i) <=> Selects(i) /\ Accepts(batch[i])
  BY SelectedRows
<1>5. TypeOK'
  BY <1>1, <1>2, <1>3, <1>4 DEF TypeOK
<1>6. BatchInOrder' /\ DeliveredInOrder' /\ FileScan' /\ NothingLost'
  BY <1>1, <1>2, <1>3 DEF BatchInOrder, DeliveredInOrder, FileScan, NothingLost
<1>7. SelectionInOrder'
  <2>1. Len(selection') <= Len(batch')
    <3>1. Len(Selected) \in Nat /\ Len(selection) \in Nat /\ Len(batch) \in Nat
      BY <1>4, Values, LenProperties
    <3>2. Len(selection) <= Len(batch)
      BY DEF SelectionInOrder
    <3>3. QED BY <1>1, <1>4, <3>1, <3>2
  <2>2. ASSUME NEW i \in DOMAIN batch' PROVE Selects(i)' <=> Accepts(batch[i])'
    <3>1. Selects(i)' <=> \E k \in DOMAIN Selected : Selected[k] = i
      BY <1>1 DEF Selects
    <3>2. Selects(i)
      BY <1>1, <2>2 DEF SelectionInOrder
    <3>3. Accepts(batch[i])' <=> Accepts(batch[i])
      BY <1>1, <1>2 DEF Accepts
    <3>4. QED BY <1>4, <3>1, <3>2, <3>3
  <2>3. \A i, j \in DOMAIN selection' : i < j => selection'[i] < selection'[j]
    BY <1>1, <1>4
  <2>4. pc' = "project" /\ selection' # << >>
    BY <1>1
  <2>5. QED BY <2>1, <2>2, <2>3, <2>4 DEF SelectionInOrder
<1>8. EndTold'
  BY <1>1 DEF EndTold
<1>9. QED BY <1>5, <1>6, <1>7, <1>8

Shown == SubSeq(Projected, 1, Kept)

\* What a call hands over: the first of the selected rows, as many as Limit lets by.
LEMMA ShownRows ==
  ASSUME IInv, pc = "project"
  PROVE  /\ Kept \in Nat \ {0} /\ Kept <= remaining /\ Kept <= Len(selection) /\ Kept <= Capacity
         /\ Kept \in {remaining, Len(selection)}
         /\ Shown \in Seq(Rows) /\ Len(Shown) = Kept
         /\ \A k \in 1 .. Kept : Shown[k] = batch[selection[k]] /\ selection[k] \in DOMAIN batch
<1> USE DEF IInv
<1>1. /\ remaining \in Nat \ {0} /\ Len(selection) \in Nat /\ Len(batch) \in Nat
      /\ Capacity \in Nat /\ Len(batch) <= Capacity /\ Len(selection) <= Len(batch)
      /\ DOMAIN selection = 1 .. Len(selection) /\ DOMAIN batch = 1 .. Len(batch)
      /\ batch \in Seq(Rows) /\ selection \in Seq(DOMAIN batch)
  BY Values DEF DeliveredInOrder, SelectionInOrder
<1>2. Len(selection) # 0
  BY <1>1, EmptySeq DEF SelectionInOrder
<1>3. /\ Kept \in {remaining, Len(selection)} /\ Kept <= remaining /\ Kept <= Len(selection)
  <2>1. remaining \in Int /\ Len(selection) \in Int
    BY <1>1
  <2>2. QED BY <2>1, MinOfTwo DEF Kept
<1> DEFINE n == Len(selection)
           m == Len(batch)
           kept == Kept
<1>4. kept \in Nat \ {0} /\ kept <= Capacity /\ \A k \in 1 .. kept : k \in 1 .. n
  <2>1. /\ n \in Nat /\ n # 0 /\ m \in Nat /\ n <= m /\ m <= Capacity /\ Capacity \in Nat
        /\ remaining \in Nat \ {0}
    BY <1>1, <1>2
  <2>2. kept \in {remaining, n} /\ kept <= n
    BY <1>3
  <2> HIDE DEF n, m, kept
  <2>3. QED BY <2>1, <2>2
<1>5. \A k \in 1 .. Len(selection) : /\ Projected[k] = batch[selection[k]]
                                     /\ selection[k] \in DOMAIN batch
                                     /\ Projected[k] \in Rows
  <2> SUFFICES ASSUME NEW k \in 1 .. Len(selection)
               PROVE  /\ Projected[k] = batch[selection[k]]
                      /\ selection[k] \in DOMAIN batch /\ Projected[k] \in Rows
    OBVIOUS
  <2>1. selection[k] \in DOMAIN batch
    BY <1>1, ElementOfSeq
  <2>2. batch[selection[k]] \in Rows
    BY <1>1, <2>1, ElementOfSeq
  <2>3. Projected[k] = batch[selection[k]]
    BY <1>1 DEF Projected
  <2>4. QED BY <2>1, <2>2, <2>3
<1>6. \A k \in 1 .. Kept : k \in 1 .. Len(selection)
  BY <1>4
<1>7. /\ Shown \in Seq(Rows)
      /\ Len(Shown) = IF 1 <= Kept THEN Kept - 1 + 1 ELSE 0
      /\ \A k \in 1 .. Kept - 1 + 1 : Shown[k] = Projected[1 + k - 1]
  <2>1. 1 \in Int /\ Kept \in Int /\ \A k \in 1 .. Kept : Projected[k] \in Rows
    BY <1>4, <1>5, <1>6
  <2>2. QED BY <2>1, SubSeqProperties DEF Shown
<1>8. Len(Shown) = Kept
  BY <1>4, <1>7
<1>9. \A k \in 1 .. Kept : Shown[k] = Projected[k]
  <2>1. Kept - 1 + 1 = Kept /\ \A k \in 1 .. Kept : 1 + k - 1 = k
    BY <1>4
  <2>2. QED BY <1>7, <2>1
<1>10. QED BY <1>3, <1>4, <1>5, <1>6, <1>7, <1>8, <1>9

\* They are accepted, in order, later than what has been delivered, and none of the
\* batch before one of them is left out; all of them are shown unless the limit cuts.
LEMMA ShownInOrder ==
  ASSUME IInv, pc = "project"
  PROVE  /\ Range(Shown) \subseteq Accepted \cap Passed
         /\ InOrder(Shown)
         /\ \A r \in Range(delivered), q \in Range(Shown) : Earlier(r, q)
         /\ \A a \in Accepted, d \in Range(Shown) :
              a \in Range(batch) /\ Earlier(a, d) => a \in Range(Shown)
         /\ Kept = Len(selection) => \A a \in Accepted : a \in Range(batch) => a \in Range(Shown)
<1> USE DEF IInv
<1>1. /\ Kept \in Nat \ {0} /\ Kept <= Len(selection)
      /\ Shown \in Seq(Rows) /\ Len(Shown) = Kept
      /\ \A k \in 1 .. Kept : Shown[k] = batch[selection[k]] /\ selection[k] \in DOMAIN batch
  BY ShownRows
<1>2. /\ DOMAIN Shown = 1 .. Kept
      /\ \A x : x \in Range(Shown) <=> \E k \in 1 .. Kept : Shown[k] = x
  BY <1>1, SeqMembers
<1>3. /\ DOMAIN batch = 1 .. Len(batch) /\ DOMAIN batch \subseteq Nat
      /\ \A x : x \in Range(batch) <=> \E i \in DOMAIN batch : batch[i] = x
      /\ \A i \in DOMAIN batch : batch[i] \in Rows
      /\ Len(selection) \in Nat /\ DOMAIN selection = 1 .. Len(selection)
  <2>1. /\ batch \in Seq(Rows) /\ DOMAIN batch = 1 .. Len(batch) /\ Len(batch) \in Nat
        /\ Len(selection) \in Nat /\ DOMAIN selection = 1 .. Len(selection)
    BY Values
  <2>2. /\ \A x : x \in Range(batch) <=> \E i \in 1 .. Len(batch) : batch[i] = x
        /\ \A i \in 1 .. Len(batch) : batch[i] \in Rows
    BY <2>1, SeqMembers
  <2>3. QED BY <2>1, <2>2
<1>4. \A k \in 1 .. Kept : k \in DOMAIN selection
  BY <1>1, <1>3
<1>5. \A i \in DOMAIN batch : Selects(i) <=> Accepts(batch[i])
  BY DEF SelectionInOrder
<1>6. Range(Shown) \subseteq Accepted \cap Passed
  <2> SUFFICES ASSUME NEW k \in 1 .. Kept PROVE Shown[k] \in Accepted /\ Shown[k] \in Passed
    BY <1>2
  <2>1. Shown[k] = batch[selection[k]] /\ selection[k] \in DOMAIN batch /\ Selects(selection[k])
    BY <1>1, <1>4 DEF Selects
  <2>2. Accepts(Shown[k]) /\ Shown[k] \in Rows /\ Shown[k] \in Range(batch)
    BY <1>3, <1>5, <2>1
  <2>3. QED BY <2>2 DEF Accepted, BatchInOrder
<1>7. InOrder(Shown)
  <2>1. ASSUME NEW k \in 1 .. Kept, NEW l \in 1 .. Kept, k < l PROVE Earlier(Shown[k], Shown[l])
    <3>1. selection[k] < selection[l]
      BY <1>4, <2>1 DEF SelectionInOrder
    <3>2. Earlier(batch[selection[k]], batch[selection[l]])
      BY <1>1, <3>1 DEF BatchInOrder, InOrder
    <3>3. QED BY <1>1, <3>2
  <2>2. QED BY <1>2, <2>1 DEF InOrder
<1>8. \A r \in Range(delivered), q \in Range(Shown) : Earlier(r, q)
  <2>1. Range(Shown) \subseteq Range(batch)
    BY <1>1, <1>2, <1>3
  <2>2. QED BY <2>1 DEF BatchInOrder
<1>9. ASSUME NEW a \in Accepted, a \in Range(batch)
      PROVE  \E j \in DOMAIN selection : batch[selection[j]] = a /\ selection[j] \in DOMAIN batch
  <2>1. PICK i \in DOMAIN batch : batch[i] = a
    BY <1>3, <1>9
  <2>2. Selects(i)
    BY <1>5, <2>1 DEF Accepted
  <2>3. QED BY <2>1, <2>2 DEF Selects
<1>10. ASSUME NEW a \in Accepted, NEW d \in Range(Shown), a \in Range(batch), Earlier(a, d)
       PROVE  a \in Range(Shown)
  <2>1. PICK j \in DOMAIN selection : batch[selection[j]] = a /\ selection[j] \in DOMAIN batch
    BY <1>9, <1>10
  <2>2. PICK k \in 1 .. Kept : Shown[k] = d
    BY <1>2
  <2>3. /\ k \in DOMAIN selection /\ batch[selection[k]] = d /\ selection[k] \in DOMAIN batch
        /\ j \in Nat /\ k \in Nat /\ a \in Rows /\ d \in Rows
    BY <1>1, <1>3, <1>4, <2>1, <2>2
  <2>4. ASSUME k < j PROVE FALSE
    <3>1. selection[k] < selection[j]
      BY <2>3, <2>4 DEF SelectionInOrder
    <3>2. Earlier(d, a)
      BY <2>1, <2>3, <3>1 DEF BatchInOrder, InOrder
    <3>3. ~ Earlier(a, a) /\ (a # d => ~ Earlier(d, a))
      BY <1>10, <2>3, TypesOfSource, EarlierTotal
    <3>4. QED BY <1>10, <3>2, <3>3
  <2>5. j \in 1 .. Kept
    BY <1>1, <1>3, <2>3, <2>4
  <2>6. Shown[j] = a
    BY <1>1, <2>1, <2>5
  <2>7. QED BY <1>2, <2>5, <2>6
<1>11. ASSUME Kept = Len(selection), NEW a \in Accepted, a \in Range(batch)
       PROVE  a \in Range(Shown)
  <2>1. PICK j \in DOMAIN selection : batch[selection[j]] = a
    BY <1>9, <1>11
  <2>2. j \in 1 .. Kept
    BY <1>3, <1>11
  <2>3. QED BY <1>1, <1>2, <2>1, <2>2
<1>12. QED BY <1>6, <1>7, <1>8, <1>10, <1>11

\* The rows are handed over.
LEMMA ProjectAndLimitIInv ==
  ASSUME IInv, ProjectAndLimit
  PROVE  IInv'
<1> USE DEF IInv
<1>1. /\ UNCHANGED frozen /\ UNCHANGED scan
      /\ UNCHANGED <<batch, selection, verdict>>
      /\ pc = "project" /\ pc' = "idle"
      /\ delivered' = delivered \o Shown /\ remaining' = remaining - Kept
  BY DEF ProjectAndLimit, Shown
<1>2. /\ table' = table /\ pruned' = pruned /\ limit' = limit /\ leaf' = leaf
      /\ Rows' = Rows /\ Groups' = Groups /\ FileRows' = FileRows /\ Accepted' = Accepted
  BY <1>1, SourceKept
<1>3. /\ Passed' = Passed /\ InReader' = InReader /\ CountersExact' = CountersExact
      /\ UNCHANGED <<group, row, read, skipped, again, taken, unread>>
  BY <1>1, ScanKept
<1>4. /\ Kept \in Nat \ {0} /\ Kept <= remaining /\ Kept \in {remaining, Len(selection)}
      /\ Shown \in Seq(Rows) /\ Len(Shown) = Kept
  BY <1>1, ShownRows
<1>5. /\ Range(Shown) \subseteq Accepted \cap Passed
      /\ InOrder(Shown)
      /\ \A r \in Range(delivered), q \in Range(Shown) : Earlier(r, q)
      /\ \A a \in Accepted, d \in Range(Shown) :
           a \in Range(batch) /\ Earlier(a, d) => a \in Range(Shown)
      /\ Kept = Len(selection) => \A a \in Accepted : a \in Range(batch) => a \in Range(Shown)
  BY <1>1, ShownInOrder
<1>6. /\ delivered \in Seq(Rows) /\ Len(delivered) \in Nat /\ remaining \in Nat /\ limit \in Nat
      /\ Len(delivered) = limit - remaining /\ remaining <= limit /\ InOrder(delivered)
      /\ Range(delivered) \subseteq Accepted \cap Passed
  BY Values DEF DeliveredInOrder
<1>7. /\ delivered' \in Seq(Rows) /\ Len(delivered') = Len(delivered) + Kept
      /\ \A x : x \in Range(delivered') <=> x \in Range(delivered) \/ x \in Range(Shown)
      /\ InOrder(delivered')
  BY <1>1, <1>4, <1>5, <1>6, ConcatInOrder
<1>8. remaining' \in 0 .. limit /\ Len(delivered') = limit - remaining'
  BY <1>1, <1>4, <1>6, <1>7
<1>9. TypeOK'
  BY <1>1, <1>2, <1>3, <1>7, <1>8 DEF TypeOK
<1>10. BatchInOrder' /\ SelectionInOrder' /\ FileScan'
  BY <1>1, <1>2, <1>3 DEF BatchInOrder, SelectionInOrder, FileScan
<1>11. DeliveredInOrder'
  BY <1>1, <1>2, <1>3, <1>5, <1>6, <1>7, <1>8 DEF DeliveredInOrder
<1>12. NothingLost'
  <2> SUFFICES ASSUME verdict # "threw"
               PROVE  /\ leaf = "table" \/ unread = InReader
                      /\ \A a \in Accepted, d \in Range(delivered') :
                           Earlier(a, d) => a \in Range(delivered')
                      /\ remaining' = 0 \/ \A a \in Accepted \cap Passed : a \in Range(delivered')
    BY <1>1, <1>2, <1>3 DEF NothingLost
  <2>1. \A a \in Accepted \cap Passed : a \in Range(delivered) \/ a \in Range(batch)
    BY <1>4 DEF NothingLost
  <2>2. ASSUME NEW a \in Accepted, NEW d \in Range(delivered'), Earlier(a, d)
        PROVE  a \in Range(delivered')
    <3>1. CASE d \in Range(delivered)
      BY <1>7, <2>2, <3>1 DEF NothingLost
    <3>2. CASE d \in Range(Shown)
      <4>1. a \in Passed
        BY <1>5, <2>2, <3>2, TypesOfSource, AcceptedRows, PassedRows
      <4>2. QED BY <1>5, <1>7, <2>1, <2>2, <3>2, <4>1
    <3>3. QED BY <1>7, <2>2, <3>1, <3>2
  <2>3. remaining' = 0 \/ \A a \in Accepted \cap Passed : a \in Range(delivered')
    <3>1. CASE Kept = remaining
      BY <1>1, <1>6, <3>1
    <3>2. CASE Kept = Len(selection)
      BY <1>5, <1>7, <2>1, <3>2
    <3>3. QED BY <1>4, <3>1, <3>2
  <2>4. leaf = "table" \/ unread = InReader
    BY DEF NothingLost
  <2>5. QED BY <2>2, <2>3, <2>4
<1>13. EndTold'
  BY <1>1 DEF EndTold
<1>14. QED BY <1>9, <1>10, <1>11, <1>12, <1>13

\* Every step keeps the invariant.
LEMMA NextIInv ==
  ASSUME IInv, [Next]_vars
  PROVE  IInv'
<1>1. CASE Next
  BY <1>1, LimitReachedIInv, CallIInv, ScanSkipIInv, ScanCopyIInv, ScanFullIInv, EndIInv,
     FileReadIInv, ReaderEndIInv, ScanThrowIInv, FilterNoneIInv, FilterSomeIInv,
     ProjectAndLimitIInv
     DEF Next, Work
<1>2. CASE UNCHANGED vars
  <2>1. /\ UNCHANGED frozen /\ UNCHANGED scan
        /\ UNCHANGED <<batch, selection, remaining, pc, delivered, verdict>>
    BY <1>2 DEF vars, frozen, scan
  <2>2. /\ table' = table /\ pruned' = pruned /\ limit' = limit /\ leaf' = leaf
        /\ Rows' = Rows /\ Groups' = Groups /\ FileRows' = FileRows /\ Accepted' = Accepted
    BY <2>1, SourceKept
  <2>3. /\ Passed' = Passed /\ InReader' = InReader /\ CountersExact' = CountersExact
        /\ Exhausted' = Exhausted
        /\ UNCHANGED <<group, row, read, skipped, again, taken, unread>>
    BY <2>1, ScanKept
  <2>4. TypeOK'
    BY <2>1, <2>2, <2>3 DEF IInv, TypeOK
  <2>5. BatchInOrder' /\ SelectionInOrder' /\ DeliveredInOrder' /\ FileScan'
    BY <2>1, <2>2, <2>3
       DEF IInv, BatchInOrder, SelectionInOrder, Selects, Accepts, DeliveredInOrder, FileScan
  <2>6. NothingLost' /\ EndTold'
    BY <2>1, <2>2, <2>3 DEF IInv, NothingLost, EndTold
  <2>7. QED BY <2>4, <2>5, <2>6 DEF IInv
<1>3. QED BY <1>1, <1>2

\* The inductive invariant of the spine, for every table, pruning, limit and batch size.
THEOREM PipelineInvariance == Spec => []IInv
<1>1. Init => IInv
  BY InitIInv
<1>2. IInv /\ [Next]_vars => IInv'
  BY NextIInv
<1>3. QED BY <1>1, <1>2, PTL DEF Spec

\* Only accepted rows come, in the order of the source, none twice, no more than the
\* limit, exceptions of the scan or not.
THEOREM PipelineRowsInOrder == Spec => []RowsInOrderAndOnce
<1>1. IInv => RowsInOrderAndOnce
  <2> SUFFICES ASSUME IInv PROVE RowsInOrderAndOnce
    OBVIOUS
  <2>1. Len(delivered) <= limit
    BY Values DEF IInv, DeliveredInOrder
  <2>2. QED BY <2>1 DEF IInv, DeliveredInOrder, RowsInOrderAndOnce
<1>2. QED BY <1>1, PipelineInvariance, PTL

\* groups_read() and groups_skipped() count every group begun or passed over once,
\* between the batches that it takes too; an exception while the first rows of a group
\* are copied, and nothing else, has it counted again (operators.cpp).
THEOREM PipelineCounters == Spec => []CountersExact
<1>1. IInv => CountersExact
  BY DEF IInv, TypeOK
<1>2. QED BY <1>1, PipelineInvariance, PTL

-----------------------------------------------------------------------------
\* The pull contract.

\* A shorter sequence that agrees with another at each of its places begins it.
LEMMA PrefixByElement ==
  ASSUME NEW S, NEW s \in Seq(S), NEW t \in Seq(S), Len(s) <= Len(t),
         \A i \in 1 .. Len(s) : s[i] = t[i]
  PROVE  IsPrefix(s, t)
<1> DEFINE n == Len(s)
<1>1. n \in Nat /\ Len(t) \in Nat
  BY LenProperties
<1>2. \A i \in 1 .. n : s[i] \in S /\ t[i] \in S
  <2>1. \A i \in 1 .. n : i \in 1 .. Len(t)
    BY <1>1
  <2>2. QED BY <2>1, ElementOfSeq
<1> HIDE DEF n
<1>3. /\ SubSeq(s, 1, n) \in Seq(S) /\ Len(SubSeq(s, 1, n)) = IF 1 <= n THEN n - 1 + 1 ELSE 0
      /\ \A i \in 1 .. n - 1 + 1 : SubSeq(s, 1, n)[i] = s[1 + i - 1]
  BY <1>1, <1>2, SubSeqProperties
<1>4. /\ SubSeq(t, 1, n) \in Seq(S) /\ Len(SubSeq(t, 1, n)) = IF 1 <= n THEN n - 1 + 1 ELSE 0
      /\ \A i \in 1 .. n - 1 + 1 : SubSeq(t, 1, n)[i] = t[1 + i - 1]
  BY <1>1, <1>2, SubSeqProperties
<1>5. \A i \in 1 .. n : SubSeq(s, 1, n)[i] = SubSeq(t, 1, n)[i]
  <2> SUFFICES ASSUME NEW i \in 1 .. n PROVE SubSeq(s, 1, n)[i] = SubSeq(t, 1, n)[i]
    OBVIOUS
  <2>1. i \in 1 .. n - 1 + 1 /\ 1 + i - 1 = i
    BY <1>1
  <2>2. s[i] = t[i]
    BY DEF n
  <2>3. QED BY <1>3, <1>4, <2>1, <2>2
<1>6. Len(SubSeq(s, 1, n)) = n /\ Len(SubSeq(t, 1, n)) = n
  BY <1>1, <1>3, <1>4
<1>7. SubSeq(s, 1, n) = SubSeq(t, 1, n)
  BY <1>3, <1>4, <1>5, <1>6, SeqEqual
<1>8. QED BY <1>7 DEF IsPrefix, n

\* The answer is a sequence of rows.
LEMMA AnswerIsSeq ==
  ASSUME TypeOK
  PROVE  /\ Answer \in Seq(Rows) /\ Len(Answer) \in Nat
         /\ Len(Answer) \in {limit, Cardinality(Accepted)}
         /\ Len(Answer) <= limit /\ Len(Answer) <= Cardinality(Accepted)
         /\ \A i \in 1 .. Len(Answer) : Answer[i] = Arranged(Accepted, Earlier)[i]
         /\ Cardinality(Accepted) \in Nat
<1> DEFINE arranged == Arranged(Accepted, Earlier)
           c == Cardinality(Accepted)
           n == Min({limit, c})
<1>1. Accepted \in SUBSET Rows
  BY TypesOfSource, AcceptedRows
<1>2. arranged \in Seq(Accepted) /\ Len(arranged) = c /\ c \in Nat
  BY <1>1, TypesOfSource, ArrangedRows
<1>3. limit \in Nat
  BY Values
<1>4. n \in {limit, c} /\ n <= limit /\ n <= c
  <2>1. limit \in Int /\ c \in Int
    BY <1>2, <1>3
  <2> HIDE DEF c
  <2>2. QED BY <2>1, MinOfTwo
<1>5. Answer = [i \in 1 .. n |-> arranged[i]]
  BY DEF Answer
<1> HIDE DEF arranged, c, n
<1>6. n \in Nat /\ \A i \in 1 .. n : i \in 1 .. c
  BY <1>2, <1>3, <1>4
<1>7. \A i \in 1 .. n : arranged[i] \in Rows
  BY <1>1, <1>2, <1>6, ElementOfSeq
<1>8. Answer \in [1 .. n -> Rows]
  BY <1>5, <1>7
<1>9. Answer \in Seq(Rows) /\ Len(Answer) = n
  BY <1>6, <1>8
<1>10. QED BY <1>2, <1>4, <1>5, <1>6, <1>9 DEF arranged, c

\* Unless something threw, what has been delivered are the first accepted rows.
LEMMA DeliveredIsFront ==
  ASSUME IInv, verdict # "threw"
  PROVE  /\ Len(delivered) <= Cardinality(Accepted)
         /\ \A i \in 1 .. Len(delivered) : delivered[i] = Arranged(Accepted, Earlier)[i]
         /\ Accepted \subseteq Range(delivered) => Len(delivered) = Cardinality(Accepted)
<1>1. /\ delivered \in Seq(Rows) /\ Len(delivered) \in Nat /\ DOMAIN delivered = 1 .. Len(delivered)
      /\ \A i \in 1 .. Len(delivered) : delivered[i] \in Rows
      /\ \A x : x \in Range(delivered) <=> \E i \in 1 .. Len(delivered) : delivered[i] = x
  <2>1. delivered \in Seq(Rows)
    BY DEF IInv, TypeOK
  <2>2. QED BY <2>1, SeqMembers
<1>2. Accepted \in SUBSET Rows /\ IsFiniteSet(Accepted) /\ TotalOn(RowOrder, Accepted)
  <2>1. Accepted \in SUBSET Rows
    BY TypesOfSource, AcceptedRows DEF IInv
  <2>2. QED BY <2>1, TypesOfSource, RowOrderTotal DEF IInv
<1>3. \A i \in 1 .. Len(delivered) : delivered[i] \in Accepted
  BY <1>1 DEF IInv, DeliveredInOrder
<1>4. delivered \in Seq(Accepted)
  <2>1. delivered \in [1 .. Len(delivered) -> Rows]
    BY <1>1, LenProperties
  <2>2. delivered \in [1 .. Len(delivered) -> Accepted]
    BY <1>3, <2>1
  <2>3. QED BY <1>1, <2>2
<1>5. Increasing(RowOrder, delivered)
  <2>1. \A i, j \in 1 .. Len(delivered) : i < j => Earlier(delivered[i], delivered[j])
    BY <1>1 DEF IInv, DeliveredInOrder, InOrder
  <2>2. QED BY <1>1, <2>1, PairInRowOrder DEF Increasing
<1>6. \A x : x \in Members(delivered) <=> x \in Range(delivered)
  BY <1>1 DEF Members
<1>7. FromTheFront(RowOrder, Accepted, delivered)
  <2>1. \A a \in Accepted, d \in Range(delivered) : Earlier(a, d) => a \in Range(delivered)
    BY DEF IInv, NothingLost
  <2>2. ASSUME NEW x \in Accepted, NEW i \in 1 .. Len(delivered), <<x, delivered[i]>> \in RowOrder
        PROVE  x \in Members(delivered)
    <3>1. Earlier(x, delivered[i])
      BY <1>1, <1>2, <2>2, PairInRowOrder
    <3>2. QED BY <1>1, <1>6, <2>1, <3>1
  <2>3. QED BY <2>2 DEF FromTheFront
<1>8. /\ Len(delivered) <= Cardinality(Accepted)
      /\ \A i \in 1 .. Len(delivered) : delivered[i] = InPlace(RowOrder, Accepted)[i]
      /\ Accepted \subseteq Members(delivered) => Len(delivered) = Cardinality(Accepted)
  BY <1>2, <1>4, <1>5, <1>7, FrontOfArrangement
<1>9. Arranged(Accepted, Earlier) = InPlace(RowOrder, Accepted)
  BY <1>2, TypesOfSource, ArrangedRows DEF IInv
<1>10. QED BY <1>6, <1>8, <1>9

\* So it begins the answer.
LEMMA DeliveredBeginsAnswer ==
  ASSUME IInv, verdict # "threw"
  PROVE  /\ Len(delivered) <= Len(Answer)
         /\ \A i \in 1 .. Len(delivered) : delivered[i] = Answer[i]
         /\ IsPrefix(delivered, Answer)
<1>1. /\ delivered \in Seq(Rows) /\ Len(delivered) \in Nat /\ limit \in Nat
      /\ remaining \in Nat /\ remaining <= limit
  BY Values DEF IInv
<1>2. Len(delivered) = limit - remaining
  BY DEF IInv, DeliveredInOrder
<1>3. /\ Answer \in Seq(Rows) /\ Len(Answer) \in {limit, Cardinality(Accepted)}
      /\ Len(Answer) \in Nat
      /\ \A i \in 1 .. Len(Answer) : Answer[i] = Arranged(Accepted, Earlier)[i]
  BY AnswerIsSeq DEF IInv
<1>4. /\ Len(delivered) <= Cardinality(Accepted)
      /\ \A i \in 1 .. Len(delivered) : delivered[i] = Arranged(Accepted, Earlier)[i]
  BY DeliveredIsFront
<1>5. Len(delivered) <= limit
  BY <1>1, <1>2
<1>6. Len(delivered) <= Len(Answer)
  BY <1>3, <1>4, <1>5
<1>7. \A i \in 1 .. Len(delivered) : i \in 1 .. Len(Answer)
  BY <1>1, <1>3, <1>6
<1>8. \A i \in 1 .. Len(delivered) : delivered[i] = Answer[i]
  BY <1>3, <1>4, <1>7
<1>9. QED BY <1>1, <1>3, <1>6, <1>8, PrefixByElement

\* A scan at its end has come past every accepted row.
LEMMA ExhaustedPassed ==
  ASSUME IInv, verdict # "threw", Exhausted
  PROVE  Accepted \subseteq Passed
<1> SUFFICES ASSUME NEW a \in Accepted PROVE a \in Passed
  OBVIOUS
<1>1. SourceOK
  BY TypesOfSource DEF IInv
<1>2. a \in Rows /\ a[1] \notin pruned
  BY <1>1, AcceptedRows
<1>3. CASE leaf = "table"
  <2>1. a[1] \in 1 .. Len(table) /\ Len(table) \in Nat
    BY <1>1, <1>2, RowIsPair, TableRows DEF Groups
  <2>2. group \in 1 .. Len(table) + 1 /\ group \notin 1 .. Len(table)
    BY <1>3 DEF Exhausted, Groups, IInv, TypeOK
  <2>3. a[1] < group
    BY <2>1, <2>2
  <2>4. QED BY <1>2, <1>3, <2>3 DEF Passed
<1>4. CASE leaf # "table"
  <2>1. /\ taken \in Nat /\ Len(FileRows) \in Nat
        /\ unread = 0 /\ unread = Len(FileRows) - taken
    BY <1>4, Values DEF IInv, Exhausted, NothingLost, InReader
  <2>2. taken = Len(FileRows)
    BY <2>1
  <2>3. PICK n \in 1 .. Len(FileRows) : FileRows[n] = a
    BY <1>1, <1>2, FileRowsInOrder
  <2>4. QED BY <1>4, <2>2, <2>3 DEF Passed
<1>5. QED BY <1>3, <1>4

\* Where the end is told for the first time, the whole answer has been delivered.
LEMMA WholeAtEnd ==
  ASSUME IInv, verdict # "threw", remaining = 0 \/ (Exhausted /\ batch = << >>)
  PROVE  delivered = Answer
<1>1. /\ delivered \in Seq(Rows) /\ Len(delivered) \in Nat /\ limit \in Nat
      /\ remaining \in Nat
  BY Values DEF IInv
<1>2. Len(delivered) = limit - remaining
  BY DEF IInv, DeliveredInOrder
<1>3. /\ Answer \in Seq(Rows) /\ Len(Answer) \in Nat /\ Cardinality(Accepted) \in Nat
      /\ Len(Answer) <= limit /\ Len(Answer) <= Cardinality(Accepted)
  BY AnswerIsSeq DEF IInv
<1>4. /\ Len(delivered) <= Len(Answer)
      /\ \A i \in 1 .. Len(delivered) : delivered[i] = Answer[i]
  BY DeliveredBeginsAnswer
<1>5. Len(Answer) <= Len(delivered)
  <2>1. CASE remaining = 0
    BY <1>1, <1>2, <1>3, <2>1
  <2>2. CASE remaining # 0
    <3>1. Exhausted /\ batch = << >>
      BY <2>2
    <3>2. Accepted \subseteq Passed
      BY <3>1, ExhaustedPassed
    <3>3. \A a \in Accepted \cap Passed : a \in Range(delivered) \/ a \in Range(batch)
      BY <2>2 DEF IInv, NothingLost
    <3>4. Range(batch) = {}
      BY <3>1, NoRows
    <3>5. Accepted \subseteq Range(delivered)
      BY <3>2, <3>3, <3>4
    <3>6. Len(delivered) = Cardinality(Accepted)
      BY <3>5, DeliveredIsFront
    <3>7. QED BY <1>3, <3>6
  <2>3. QED BY <2>1, <2>2
<1>6. Len(delivered) = Len(Answer)
  BY <1>1, <1>3, <1>4, <1>5
<1>7. QED BY <1>1, <1>3, <1>4, <1>6, SeqEqual

\* Nothing has been given at first.
LEMMA InitContract ==
  ASSUME Init
  PROVE  Contract!Init
  BY DEF Init, Contract!Init

\* A batch that Limit lets by is the next piece of the answer; after an exception
\* no row is taken back.
LEMMA DeliverContract ==
  ASSUME IInv, ProjectAndLimit, IInv'
  PROVE  [Contract!Next]_<<Answer, delivered, verdict>>
<1>1. /\ UNCHANGED frozen /\ verdict' = verdict /\ pc = "project"
      /\ delivered' = delivered \o Shown
  BY DEF ProjectAndLimit, Shown
<1>2. Answer' = Answer
  BY <1>1, SourceKept
<1>3. /\ Kept \in Nat \ {0} /\ Kept <= Capacity /\ Shown \in Seq(Rows) /\ Len(Shown) = Kept
  BY <1>1, ShownRows
<1>4. /\ delivered \in Seq(Rows) /\ Len(delivered) \in Nat /\ Capacity \in Nat
  BY Values DEF IInv
<1>5. /\ delivered' \in Seq(Rows) /\ Len(delivered') = Len(delivered) + Kept
      /\ \A i \in 1 .. Len(delivered) : delivered'[i] = delivered[i]
  <2> DEFINE k == Kept
  <2>1. k \in Nat /\ Len(Shown) = k
    BY <1>3
  <2> HIDE DEF k
  <2>2. \A i \in 1 .. Len(delivered) : i \in 1 .. Len(delivered) + k /\ i <= Len(delivered)
    BY <1>4, <2>1
  <2>3. /\ delivered' \in Seq(Rows) /\ Len(delivered') = Len(delivered) + k
        /\ \A i \in 1 .. Len(delivered) + k :
             delivered'[i] = IF i <= Len(delivered) THEN delivered[i] ELSE Shown[i - Len(delivered)]
    BY <1>1, <1>3, <1>4, <2>1, ConcatProperties
  <2>4. QED BY <2>2, <2>3 DEF k
<1>6. Len(delivered) <= Len(delivered') /\ Len(delivered') - Len(delivered) \in 1 .. Capacity
  <2> DEFINE k == Kept
             m == Len(delivered)
  <2>1. /\ k \in Nat \ {0} /\ k <= Capacity /\ Capacity \in Nat /\ m \in Nat
        /\ Len(delivered') = m + k
    BY <1>3, <1>4, <1>5
  <2> HIDE DEF k, m
  <2>2. m <= m + k /\ m + k - m \in 1 .. Capacity
    BY <2>1
  <2>3. QED BY <2>1, <2>2 DEF m
<1>7. IsPrefix(delivered, delivered')
  BY <1>4, <1>5, <1>6, PrefixByElement
<1>8. verdict \in {"more", "threw"}
  BY <1>1 DEF IInv, TypeOK, EndTold
<1>9. CASE verdict = "more"
  <2>1. (IInv /\ verdict # "threw" => IsPrefix(delivered, Answer))'
    BY DeliveredBeginsAnswer, PTL
  <2>2. IsPrefix(delivered', Answer)
    BY <1>1, <1>2, <1>9, <2>1
  <2>3. QED BY <1>1, <1>2, <1>6, <1>7, <1>9, <2>2
            DEF Contract!Next, Contract!Deliver, Contract!IsPrefix, IsPrefix
<1>10. CASE verdict = "threw"
  BY <1>1, <1>2, <1>7, <1>10 DEF Contract!Next, Contract!Salvage, Contract!IsPrefix, IsPrefix
<1>11. QED BY <1>8, <1>9, <1>10

\* false is told when, and only when, the answer has been delivered.
LEMMA FinishContract ==
  ASSUME IInv, LimitReached \/ ScanEnd \/ FileEnd \/ ReaderEnd
  PROVE  [Contract!Next]_<<Answer, delivered, verdict>>
<1>1. /\ UNCHANGED frozen /\ delivered' = delivered
      /\ verdict' = IF verdict = "threw" THEN "threw" ELSE "end"
  BY DEF LimitReached, ScanEnd, FileEnd, ReaderEnd, Told
<1>2. Answer' = Answer
  BY <1>1, SourceKept
<1>3. verdict \in {"more", "end", "threw"}
  BY DEF IInv, TypeOK
<1>4. CASE verdict = "more"
  <2>1. ~ ReaderEnd
    <3> SUFFICES ASSUME ReaderEnd PROVE FALSE
      OBVIOUS
    <3>1. leaf = "file" /\ unread > 0 /\ InReader = 0
      BY DEF ReaderEnd
    <3>2. unread = InReader
      BY <1>4, <3>1 DEF IInv, NothingLost
    <3>3. QED BY <3>1, <3>2
  <2>2. remaining = 0 \/ (Exhausted /\ batch = << >>)
    <3>1. CASE LimitReached
      BY <3>1 DEF LimitReached
    <3>2. CASE ScanEnd
      BY <3>2 DEF ScanEnd, Exhausted
    <3>3. CASE FileEnd
      BY <3>3 DEF FileEnd, Exhausted, IInv, FileScan
    <3>4. QED BY <2>1, <3>1, <3>2, <3>3
  <2>3. delivered = Answer
    BY <1>4, <2>2, WholeAtEnd
  <2>4. QED BY <1>1, <1>2, <1>4, <2>3 DEF Contract!Next, Contract!Finish
<1>5. CASE verdict # "more"
  BY <1>1, <1>2, <1>3, <1>5
<1>6. QED BY <1>4, <1>5

\* An exception is told, and never once the end has been.
LEMMA ThrowContract ==
  ASSUME IInv, ScanThrow
  PROVE  [Contract!Next]_<<Answer, delivered, verdict>>
<1>1. /\ UNCHANGED frozen /\ delivered' = delivered /\ verdict' = "threw" /\ pc = "scan"
      /\ (leaf = "file" /\ unread > 0) \/ (leaf = "table" /\ group \in Groups)
  BY DEF ScanThrow, CopiesNow
<1>2. Answer' = Answer
  BY <1>1, SourceKept
<1>3. verdict \in {"more", "threw"}
  <2>1. ~ Exhausted
    BY <1>1 DEF Exhausted
  <2>2. remaining # 0
    BY <1>1, Values DEF IInv, DeliveredInOrder
  <2>3. QED BY <2>1, <2>2 DEF IInv, TypeOK, EndTold
<1>4. QED BY <1>1, <1>2, <1>3 DEF Contract!Next, Contract!Throw

\* Every other step hands over and tells nothing.
LEMMA StepContract ==
  ASSUME IInv, [Next]_vars, IInv'
  PROVE  [Contract!Next]_<<Answer, delivered, verdict>>
<1>1. CASE Call \/ ScanSkip \/ ScanCopy \/ ScanFull \/ FileRead \/ FilterNone \/ FilterSome
  <2>1. UNCHANGED frozen /\ UNCHANGED <<delivered, verdict>>
    BY <1>1 DEF Call, ScanSkip, ScanCopy, ScanFull, FileRead, FilterNone, FilterSome
  <2>2. QED BY <2>1, SourceKept
<1>2. CASE UNCHANGED vars
  <2>1. UNCHANGED frozen /\ UNCHANGED <<delivered, verdict>>
    BY <1>2 DEF vars, frozen
  <2>2. QED BY <2>1, SourceKept
<1>3. QED BY <1>1, <1>2, DeliverContract, FinishContract, ThrowContract DEF Next, Work

\* Limit over projection over filter over a scan gives the first accepted rows of the
\* source, in nonempty batches of at most Capacity, tells the end when it has given the
\* last of them, and after an exception takes none back.
THEOREM PipelineKeepsContract == Spec => Contract!Safety
<1>1. Init => Contract!Init
  BY InitContract
<1>2. IInv /\ [Next]_vars /\ IInv' => [Contract!Next]_<<Answer, delivered, verdict>>
  BY StepContract
<1>3. QED BY <1>1, <1>2, PipelineInvariance, PTL DEF Spec, Contract!Safety

=============================================================================
