------------------------ MODULE HashAggregateProofs ------------------------
(***************************************************************************)
(* Proofs about HashAggregate for every input, every mix of aggregates,    *)
(* every width of the integers and every batch size: the accumulators show *)
(* what SQL says of the values of their group, the groups come in the      *)
(* order of their first rows, COUNT throws exactly when it has no room,    *)
(* and the operator keeps the pull contract but for the promise that the   *)
(* end comes, which is a matter of fairness.                               *)
(***************************************************************************)
EXTENDS HashAggregate, SequenceTheorems, FiniteSetTheorems, WellFoundedInduction, TLAPS

-----------------------------------------------------------------------------
\* Numbers.

Below == {p \in Nat \X Nat : p[1] < p[2]}

\* The naturals are well founded.
LEMMA BelowWellFounded == IsWellFoundedOn(Below, Nat)
  BY NatLessThanWellFounded, Zenon DEF OpToRel, Below

\* A nonempty set of naturals has a least member.
LEMMA LeastNumber ==
  ASSUME NEW T \in SUBSET Nat, T # {}
  PROVE  \E x \in T : \A y \in T : x <= y
<1>1. PICK x \in T : \A y \in T : ~ (<<y, x>> \in Below)
  BY BelowWellFounded, WFMin
<1>2. ASSUME NEW y \in T PROVE x <= y
  <2>1. ~ (y < x)
    BY <1>1 DEF Below
  <2>2. QED BY <2>1
<1>3. QED BY <1>2

\* Integers of the accumulator stay themselves, and others become one.
LEMMA WrapInRange ==
  ASSUME NEW x \in Int
  PROVE  InRange(Wrap(x)) /\ Wrap(x) \in Int /\ (InRange(x) => Wrap(x) = x)
<1> DEFINE m == 2 * (MaxInt + 1)
           y == x - MinInt
<1>1. MaxInt \in Nat /\ m \in Nat \ {0} /\ MinInt \in Int /\ m = MaxInt - MinInt + 1 /\ y \in Int
  BY HashAggregateAssumption DEF MinInt
<1>2. Wrap(x) = (y % m) + MinInt
  BY DEF Wrap
<1> HIDE DEF m, y
<1>3. y % m \in 0 .. m - 1
  BY <1>1
<1>4. y \in 0 .. m - 1 => y % m = y
  BY <1>1
<1>5. InRange(x) => y \in 0 .. m - 1
  BY <1>1 DEF InRange, y
<1>6. QED BY <1>1, <1>2, <1>3, <1>4, <1>5 DEF InRange, y

-----------------------------------------------------------------------------
\* Running totals: what a function defined by recursion over the numbers is.

IsTotal(N, d, f) == f = [n \in 0 .. N |-> IF n = 0 THEN 0 ELSE f[n - 1] + d[n]]

\* There is a function that adds up any numbers.
LEMMA TotalExists ==
  ASSUME NEW N \in Nat, NEW d \in [1 .. N -> Int]
  PROVE  \E f \in [0 .. N -> Int] : IsTotal(N, d, f)
<1> DEFINE G(m) == \E f \in [0 .. m -> Int] : f[0] = 0 /\ \A n \in 1 .. m : f[n] = f[n - 1] + d[n]
           T == {m \in 0 .. N : ~ G(m)}
<1>1. T = {}
  <2> SUFFICES ASSUME T # {} PROVE FALSE
    OBVIOUS
  <2>1. PICK m \in T : \A y \in T : m <= y
    <3>1. T \in SUBSET Nat
      OBVIOUS
    <3> HIDE DEF T
    <3>2. QED BY <3>1, LeastNumber
  <2>2. m \in 0 .. N /\ ~ G(m)
    OBVIOUS
  <2>3. CASE m = 0
    <3> DEFINE f == [n \in 0 .. 0 |-> 0]
    <3>1. f \in [0 .. 0 -> Int] /\ f[0] = 0 /\ \A n \in 1 .. 0 : f[n] = f[n - 1] + d[n]
      OBVIOUS
    <3>2. G(0)
      <4> HIDE DEF f
      <4> QED BY <3>1
    <3>3. QED BY <2>2, <2>3, <3>2
  <2>4. CASE m # 0
    <3>1. m - 1 \in 0 .. N /\ m \in Int /\ m - 1 \in Int /\ m - 1 < m
      BY <2>2, <2>4
    <3>2. m - 1 \notin T
      <4> HIDE DEF T
      <4>1. QED BY <2>1, <3>1
    <3>3. G(m - 1)
      BY <3>1, <3>2
    <3>4. PICK f \in [0 .. m - 1 -> Int] : f[0] = 0 /\ \A n \in 1 .. m - 1 : f[n] = f[n - 1] + d[n]
      BY <3>3
    <3> DEFINE g == [n \in 0 .. m |-> IF n = m THEN f[m - 1] + d[m] ELSE f[n]]
    <3>5. d[m] \in Int /\ f[m - 1] \in Int
      BY <2>2, <2>4, <3>4
    <3>6. g \in [0 .. m -> Int] /\ g[0] = 0 /\ g[m] = f[m - 1] + d[m]
          /\ \A n \in 0 .. m - 1 : g[n] = f[n]
      BY <2>2, <2>4, <3>4, <3>5
    <3> HIDE DEF g
    <3>7. ASSUME NEW n \in 1 .. m PROVE g[n] = g[n - 1] + d[n]
      <4>1. n - 1 \in 0 .. m - 1
        BY <2>2
      <4>2. g[n - 1] = f[n - 1]
        BY <3>6, <4>1
      <4>3. CASE n = m
        BY <3>6, <4>2, <4>3
      <4>4. CASE n # m
        <5>1. n \in 1 .. m - 1 /\ n \in 0 .. m - 1
          BY <2>2, <4>4
        <5>2. QED BY <3>4, <3>6, <4>2, <5>1
      <4>5. QED BY <4>3, <4>4
    <3>8. G(m)
      BY <3>6, <3>7
    <3>9. QED BY <2>2, <3>8
  <2>5. QED BY <2>3, <2>4
<1>2. G(N)
  <2>1. N \in 0 .. N
    OBVIOUS
  <2>2. N \notin T
    BY <1>1
  <2> HIDE DEF G
  <2>3. QED BY <2>1, <2>2
<1>3. PICK f \in [0 .. N -> Int] : f[0] = 0 /\ \A n \in 1 .. N : f[n] = f[n - 1] + d[n]
  BY <1>2
<1>4. \A n \in 0 .. N : f[n] = IF n = 0 THEN 0 ELSE f[n - 1] + d[n]
  BY <1>3
<1>5. QED BY <1>3, <1>4 DEF IsTotal

-----------------------------------------------------------------------------
\* What the input is made of.

Kind == {"rows", "count", "sum", "min", "max"}

InputOK == input \in Input /\ grouped \in BOOLEAN

\* Rows with keys and values, kinds of aggregates.
LEMMA InputFacts ==
  ASSUME InputOK
  PROVE  /\ Len(Rows) \in Nat /\ DOMAIN Rows = 1 .. Len(Rows)
         /\ \A i \in 1 .. Len(Rows) : /\ Rows[i].key \in Keys
                                      /\ Rows[i].value \in Int \cup {NaN, Null}
                                      /\ KeyOf(Rows[i]) \in Keys \cup {GlobalKey}
                                      /\ IsInt /\ Rows[i].value # Null => InRange(Rows[i].value)
         /\ \A a \in DOMAIN Kinds : Kinds[a] \in Kind
         /\ MaxInt \in Nat /\ MinInt \in Int /\ InRange(0) /\ NaN \notin Int
         /\ Null \notin Int /\ Null # NaN /\ MinInt .. MaxInt \subseteq Int
<1>1. /\ MaxInt \in Nat /\ MinInt \in Int /\ InRange(0) /\ NaN \notin Int
      /\ Null \notin Int /\ Null # NaN /\ MinInt .. MaxInt \subseteq Int
  BY HashAggregateAssumption DEF MinInt, InRange
<1>2. PICK type \in {"int", "double"}, values \in {MinInt .. MaxInt, Int \cup {NaN}} :
        /\ input \in InputsOver(type, values)
        /\ type = "int" => values = MinInt .. MaxInt
  BY DEF InputOK, Input
<1>3. /\ input.type = type /\ Kinds \in Seq(Kind)
      /\ Rows \in Seq([key : Keys, value : values \cup {Null}])
  BY <1>2 DEF InputsOver, Kind, Kinds, Rows
<1>4. \A a \in DOMAIN Kinds : Kinds[a] \in Kind
  BY <1>3, ElementOfSeq, LenProperties
<1>5. Len(Rows) \in Nat /\ DOMAIN Rows = 1 .. Len(Rows)
  BY <1>3, LenProperties
<1>6. ASSUME NEW i \in 1 .. Len(Rows)
      PROVE  /\ Rows[i].key \in Keys /\ Rows[i].value \in Int \cup {NaN, Null}
             /\ KeyOf(Rows[i]) \in Keys \cup {GlobalKey}
             /\ IsInt /\ Rows[i].value # Null => InRange(Rows[i].value)
  <2>1. Rows[i] \in [key : Keys, value : values \cup {Null}]
    BY <1>3, ElementOfSeq
  <2>2. Rows[i].key \in Keys /\ Rows[i].value \in values \cup {Null}
    BY <2>1
  <2>3. values \subseteq Int \cup {NaN}
    BY <1>1
  <2>4. IsInt => values = MinInt .. MaxInt
    BY <1>2, <1>3 DEF IsInt
  <2>5. QED BY <2>2, <2>3, <2>4 DEF KeyOf, InRange
<1>7. QED BY <1>1, <1>4, <1>5, <1>6

\* The running total of a group.
LEMMA TotalOfGroup ==
  ASSUME InputOK, NEW k
  PROVE  /\ Total(k) \in [0 .. Len(Rows) -> Int] /\ Total(k)[0] = 0
         /\ \A n \in 1 .. Len(Rows) : /\ Total(k)[n] = Total(k)[n - 1] + Addend(k, n)
                                      /\ Addend(k, n) \in Int
<1> DEFINE N == Len(Rows)
           d == [i \in 1 .. N |-> Addend(k, i)]
           total == Total(k)
<1>1. N \in Nat
  BY InputFacts
<1>2. d \in [1 .. N -> Int] /\ \A i \in 1 .. N : d[i] = Addend(k, i)
  <2>1. \A i \in 1 .. N : Addend(k, i) \in Int
    BY InputFacts DEF Addend
  <2>2. QED BY <2>1
<1>3. total = CHOOSE f : f = [n \in 0 .. N |-> IF n = 0 THEN 0 ELSE f[n - 1] + Addend(k, n)]
  BY DEF Total
<1> HIDE DEF N, d, total
<1>4. ASSUME NEW f
      PROVE  IsTotal(N, d, f) <=> f = [n \in 0 .. N |-> IF n = 0 THEN 0 ELSE f[n - 1] + Addend(k, n)]
  <2>1. \A n \in 0 .. N : n # 0 => d[n] = Addend(k, n)
    BY <1>1, <1>2
  <2>2. QED BY <2>1 DEF IsTotal
<1>5. PICK f \in [0 .. N -> Int] : IsTotal(N, d, f)
  BY <1>1, <1>2, TotalExists
<1>6. IsTotal(N, d, total)
  BY <1>3, <1>4, <1>5
<1>7. total = [n \in 0 .. N |-> IF n = 0 THEN 0 ELSE total[n - 1] + d[n]]
  BY <1>6 DEF IsTotal
<1>8. total[0] = 0 /\ \A n \in 1 .. N : total[n] = total[n - 1] + d[n]
  BY <1>1, <1>7
<1>9. total = f
  <2>1. /\ f[0] = 0 /\ \A n \in 1 .. N : f[n] = f[n - 1] + d[n]
    <3>1. f = [n \in 0 .. N |-> IF n = 0 THEN 0 ELSE f[n - 1] + d[n]]
      BY <1>5 DEF IsTotal
    <3>2. QED BY <1>1, <3>1
  <2> DEFINE T == {n \in 0 .. N : total[n] # f[n]}
  <2>2. T = {}
    <3> SUFFICES ASSUME T # {} PROVE FALSE
      OBVIOUS
    <3>1. T \in SUBSET Nat
      OBVIOUS
    <3>2. PICK n \in T : \A m \in T : n <= m
      <4> HIDE DEF T
      <4>1. QED BY <3>1, LeastNumber
    <3>3. n \in 0 .. N /\ total[n] # f[n]
      OBVIOUS
    <3>4. n # 0
      BY <1>8, <2>1, <3>3
    <3>5. n - 1 \in 0 .. N /\ n \in 1 .. N /\ n - 1 < n /\ n \in Int /\ n - 1 \in Int
      BY <1>1, <3>3, <3>4
    <3>6. n - 1 \notin T
      <4> HIDE DEF T
      <4>1. QED BY <3>2, <3>5
    <3>7. total[n - 1] = f[n - 1]
      BY <3>5, <3>6
    <3>8. QED BY <1>8, <2>1, <3>3, <3>5, <3>7
  <2>3. \A n \in 0 .. N : total[n] = f[n]
    BY <2>2
  <2>4. QED BY <1>5, <1>7, <2>3
<1>10. QED BY <1>2, <1>5, <1>8, <1>9 DEF N, total

-----------------------------------------------------------------------------
\* One more row.

\* Numbers up to n are finitely many.
LEMMA SomeUpTo ==
  ASSUME NEW n \in Nat, NEW S \in SUBSET (1 .. n)
  PROVE  IsFiniteSet(S) /\ Cardinality(S) \in Nat
<1>1. IsFiniteSet(1 .. n)
  <2>1. 1 \in Int /\ n \in Int
    OBVIOUS
  <2>2. QED BY <2>1, FS_Interval
<1>2. IsFiniteSet(S)
  BY <1>1, FS_Subset
<1>3. QED BY <1>2, FS_CardinalityType

\* The rows of a group and those with a value are finitely many.
LEMMA GroupFinite ==
  ASSUME NEW n \in Nat, NEW k
  PROVE  /\ Members(k, n) \in SUBSET (1 .. n) /\ Valued(k, n) \in SUBSET (1 .. n)
         /\ IsFiniteSet(Members(k, n)) /\ Cardinality(Members(k, n)) \in Nat
         /\ IsFiniteSet(Valued(k, n)) /\ Cardinality(Valued(k, n)) \in Nat
<1>1. Members(k, n) \in SUBSET (1 .. n) /\ Valued(k, n) \in SUBSET (1 .. n)
  BY DEF Members, Valued
<1>2. QED BY <1>1, SomeUpTo

\* What a row changes in the rows and values of a group.
LEMMA GroupStep ==
  ASSUME NEW n \in Nat, NEW k
  PROVE  /\ KeyOf(Rows[n + 1]) # k => /\ Members(k, n + 1) = Members(k, n)
                                      /\ Valued(k, n + 1) = Valued(k, n)
                                      /\ Values(k, n + 1) = Values(k, n)
         /\ KeyOf(Rows[n + 1]) = k =>
              /\ Members(k, n + 1) = Members(k, n) \cup {n + 1}
              /\ Rows[n + 1].value = Null => /\ Valued(k, n + 1) = Valued(k, n)
                                             /\ Values(k, n + 1) = Values(k, n)
              /\ Rows[n + 1].value # Null =>
                   /\ Valued(k, n + 1) = Valued(k, n) \cup {n + 1}
                   /\ Values(k, n + 1) = Values(k, n) \cup {Rows[n + 1].value}
<1>1. 1 .. n + 1 = (1 .. n) \cup {n + 1}
  OBVIOUS
<1> DEFINE i == n + 1
<1> HIDE DEF i
<1>2. 1 .. i = (1 .. n) \cup {i}
  BY <1>1 DEF i
<1>3. KeyOf(Rows[i]) # k => /\ Members(k, i) = Members(k, n)
                            /\ Valued(k, i) = Valued(k, n)
  BY <1>2 DEF Members, Valued
<1>4. KeyOf(Rows[i]) # k => Values(k, i) = Values(k, n)
  BY <1>3 DEF Values
<1>5. KeyOf(Rows[i]) = k => Members(k, i) = Members(k, n) \cup {i}
  BY <1>2 DEF Members
<1>6. KeyOf(Rows[i]) = k /\ Rows[i].value = Null => Valued(k, i) = Valued(k, n)
  BY <1>5 DEF Valued
<1>7. KeyOf(Rows[i]) = k /\ Rows[i].value = Null => Values(k, i) = Values(k, n)
  BY <1>6 DEF Values
<1>8. KeyOf(Rows[i]) = k /\ Rows[i].value # Null => Valued(k, i) = Valued(k, n) \cup {i}
  BY <1>5 DEF Valued
<1>9. KeyOf(Rows[i]) = k /\ Rows[i].value # Null =>
        Values(k, i) = Values(k, n) \cup {Rows[i].value}
  BY <1>8 DEF Values
<1>10. QED BY <1>3, <1>4, <1>5, <1>6, <1>7, <1>8, <1>9 DEF i

\* What it adds to their numbers.
LEMMA CountStep ==
  ASSUME NEW n \in Nat, NEW k, KeyOf(Rows[n + 1]) = k
  PROVE  /\ Cardinality(Members(k, n + 1)) = Cardinality(Members(k, n)) + 1
         /\ Rows[n + 1].value # Null => Cardinality(Valued(k, n + 1)) = Cardinality(Valued(k, n)) + 1
<1>1. n + 1 \notin 1 .. n
  OBVIOUS
<1>2. n + 1 \notin Members(k, n) /\ n + 1 \notin Valued(k, n)
  BY <1>1, GroupFinite
<1>3. IsFiniteSet(Members(k, n)) /\ IsFiniteSet(Valued(k, n))
  BY GroupFinite
<1>4. Cardinality(Members(k, n) \cup {n + 1}) = Cardinality(Members(k, n)) + 1
  BY <1>2, <1>3, FS_AddElement
<1>5. Cardinality(Valued(k, n) \cup {n + 1}) = Cardinality(Valued(k, n)) + 1
  BY <1>2, <1>3, FS_AddElement
<1>6. QED BY <1>4, <1>5, GroupStep

\* Counts are numbers of rows.
LEMMA CountReference ==
  ASSUME NEW n, NEW k
  PROVE  /\ Reference("rows", k, n) = Cardinality(Members(k, n))
         /\ Reference("count", k, n) = Cardinality(Valued(k, n))
         /\ Counts("rows") /\ Counts("count")
         /\ ~ Counts("sum") /\ ~ Counts("min") /\ ~ Counts("max")
<1>1. /\ Counts("rows") /\ Counts("count")
      /\ ~ Counts("sum") /\ ~ Counts("min") /\ ~ Counts("max")
  BY DEF Counts
<1>2. Reference("rows", k, n) = Cardinality(Members(k, n))
  BY <1>1, Zenon DEF Reference
<1>3. Reference("count", k, n) = Cardinality(Valued(k, n))
  BY <1>1 DEF Reference
<1>4. QED BY <1>1, <1>2, <1>3

\* The values of a group are values of its column.
LEMMA ValuesOfGroup ==
  ASSUME InputOK, NEW n \in 0 .. Len(Rows), NEW k
  PROVE  /\ Values(k, n) \subseteq Int \cup {NaN}
         /\ IsInt => Values(k, n) \subseteq MinInt .. MaxInt /\ NaN \notin Values(k, n)
         /\ Values(k, n) = {} <=> Valued(k, n) = {}
<1>1. ASSUME NEW v \in Values(k, n)
      PROVE  v \in Int \cup {NaN} /\ (IsInt => v \in MinInt .. MaxInt /\ v # NaN)
  <2>1. PICK i \in Valued(k, n) : v = Rows[i].value
    BY DEF Values
  <2>2. i \in 1 .. Len(Rows) /\ Rows[i].value # Null
    <3>1. Len(Rows) \in Nat
      BY InputFacts
    <3>2. QED BY <3>1 DEF Valued, Members
  <2>3. IsInt => InRange(v)
    BY <2>1, <2>2, InputFacts
  <2>4. QED BY <2>1, <2>2, <2>3, InputFacts DEF InRange
<1>2. Values(k, n) = {} <=> Valued(k, n) = {}
  BY DEF Values
<1>3. QED BY <1>1, <1>2

\* The running total of a group without rows is zero.
LEMMA TotalOfNone ==
  ASSUME InputOK, NEW n \in 0 .. Len(Rows), NEW k, Members(k, n) = {}
  PROVE  \A m \in 0 .. n : Total(k)[m] = 0
<1> DEFINE T == {m \in 0 .. n : Total(k)[m] # 0}
<1>1. T = {}
  <2> SUFFICES ASSUME T # {} PROVE FALSE
    OBVIOUS
  <2>1. T \in SUBSET Nat
    OBVIOUS
  <2>2. PICK m \in T : \A y \in T : m <= y
    <3> HIDE DEF T
    <3>1. QED BY <2>1, LeastNumber
  <2>3. m \in 0 .. n /\ Total(k)[m] # 0
    OBVIOUS
  <2>4. Len(Rows) \in Nat /\ n \in Nat /\ n <= Len(Rows)
    BY InputFacts
  <2>5. m # 0
    BY <2>3, TotalOfGroup
  <2>6. m \in 1 .. n /\ m \in 1 .. Len(Rows) /\ m - 1 \in 0 .. n /\ m \in Int /\ m - 1 \in Int
        /\ m - 1 < m
    BY <2>3, <2>4, <2>5
  <2>7. Total(k)[m - 1] = 0
    <3>1. m - 1 \notin T
      <4> HIDE DEF T
      <4>1. QED BY <2>2, <2>6
    <3>2. QED BY <2>6, <3>1
  <2>8. Addend(k, m) = 0
    <3>1. KeyOf(Rows[m]) # k
      BY <2>6 DEF Members
    <3>2. QED BY <3>1 DEF Addend
  <2>9. Total(k)[m] = Total(k)[m - 1] + Addend(k, m)
    BY <2>6, TotalOfGroup
  <2>10. QED BY <2>3, <2>7, <2>8, <2>9
<1>2. QED BY <1>1

-----------------------------------------------------------------------------
\* An accumulator takes one value.

\* What the state of an accumulator can be.
StateOK(kind, s) == s \in State /\ (IsInt \/ Counts(kind) => InRange(s.number))

\* What it is to have taken the values of a group, for each kind.
LEMMA TookIs ==
  ASSUME NEW s, NEW k, NEW n
  PROVE  /\ Took("sum", s, k, n) <=>
              /\ s.seen <=> Valued(k, n) # {}
              /\ s.overflow <=> IsInt /\ \E m \in 0 .. n : ~ InRange(Total(k)[m])
              /\ ~ s.overflow => s.number = IF NaN \in Values(k, n) THEN NaN ELSE Total(k)[n]
         /\ Took("min", s, k, n) <=>
              /\ s.seen <=> Valued(k, n) # {}
              /\ s.overflow <=> FALSE
              /\ s.seen => /\ s.number \in Values(k, n)
                           /\ \A v \in Values(k, n) : ~ Smaller(v, s.number)
         /\ Took("max", s, k, n) <=>
              /\ s.seen <=> Valued(k, n) # {}
              /\ s.overflow <=> FALSE
              /\ s.seen => /\ s.number \in Values(k, n)
                           /\ \A v \in Values(k, n) : ~ Larger(v, s.number)
  <1> DEFINE bad == \E m \in 0 .. n : ~ InRange(Total(k)[m])
             num == s.number = IF NaN \in Values(k, n) THEN NaN ELSE Total(k)[n]
             low == s.number \in Values(k, n) /\ \A v \in Values(k, n) : ~ Smaller(v, s.number)
             high == s.number \in Values(k, n) /\ \A v \in Values(k, n) : ~ Larger(v, s.number)
             counted(kind) == s.number = Reference(kind, k, n)
  <1>1. ASSUME NEW kind
        PROVE  Took(kind, s, k, n) <=>
                 /\ Counts(kind) => counted(kind)
                 /\ ~ Counts(kind) => (s.seen <=> Valued(k, n) # {})
                 /\ s.overflow <=> kind = "sum" /\ IsInt /\ bad
                 /\ kind = "sum" /\ ~ s.overflow => num
                 /\ kind = "min" /\ s.seen => low
                 /\ kind = "max" /\ s.seen => high
    BY DEF Took
  <1> HIDE DEF bad, num, low, high, counted
  <1>2. ~ Counts("sum") /\ ~ Counts("min") /\ ~ Counts("max")
    BY DEF Counts
  <1>3. Took("sum", s, k, n) <=> /\ s.seen <=> Valued(k, n) # {}
                                 /\ s.overflow <=> IsInt /\ bad
                                 /\ ~ s.overflow => num
    BY <1>1, <1>2
  <1>4. Took("min", s, k, n) <=> /\ s.seen <=> Valued(k, n) # {}
                                 /\ s.overflow <=> FALSE
                                 /\ s.seen => low
    BY <1>1, <1>2
  <1>5. Took("max", s, k, n) <=> /\ s.seen <=> Valued(k, n) # {}
                                 /\ s.overflow <=> FALSE
                                 /\ s.seen => high
    BY <1>1, <1>2
  <1>6. QED BY <1>3, <1>4, <1>5 DEF bad, num, low, high

\* A total in the range after every row up to n, and the next one.
LEMMA TotalsInRange ==
  ASSUME InputOK, NEW n \in 0 .. Len(Rows) - 1, NEW k
  PROVE  /\ n \in Nat /\ n + 1 \in 0 .. Len(Rows) /\ n \in 0 .. Len(Rows)
         /\ Total(k)[n] \in Int /\ Addend(k, n + 1) \in Int
         /\ Total(k)[n + 1] = Total(k)[n] + Addend(k, n + 1)
         /\ (\E m \in 0 .. n + 1 : ~ InRange(Total(k)[m])) <=>
              (\E m \in 0 .. n : ~ InRange(Total(k)[m])) \/ ~ InRange(Total(k)[n + 1])
<1>1. Len(Rows) \in Nat
  BY InputFacts
<1>2. n \in Nat /\ n + 1 \in 1 .. Len(Rows) /\ n \in 0 .. Len(Rows) /\ n + 1 \in 0 .. Len(Rows)
  BY <1>1
<1>3. (n + 1) - 1 = n
  BY <1>2
<1>4. Total(k)[n] \in Int /\ Addend(k, n + 1) \in Int
      /\ Total(k)[n + 1] = Total(k)[n] + Addend(k, n + 1)
  BY <1>2, <1>3, TotalOfGroup
<1>5. 0 .. n + 1 = (0 .. n) \cup {n + 1}
  BY <1>2
<1>6. QED BY <1>2, <1>4, <1>5

\* A fresh accumulator has taken the values of a group without rows.
LEMMA TookFresh ==
  ASSUME InputOK, NEW n \in 0 .. Len(Rows), NEW k, NEW kind \in Kind, Members(k, n) = {}
  PROVE  Took(kind, Fresh, k, n) /\ StateOK(kind, Fresh)
<1>1. Valued(k, n) = {} /\ Values(k, n) = {}
  BY DEF Valued, Values
<1>2. Fresh.number = 0 /\ Fresh.seen = FALSE /\ Fresh.overflow = FALSE /\ Fresh \in State
  BY DEF Fresh, State
<1>3. Counts(kind) => Reference(kind, k, n) = 0
  BY <1>1, CountReference, FS_EmptySet DEF Counts
<1>4. \A m \in 0 .. n : Total(k)[m] = 0
  BY TotalOfNone
<1>5. InRange(0) /\ n \in 0 .. n
  BY InputFacts
<1>6. QED BY <1>1, <1>2, <1>3, <1>4, <1>5 DEF Took, StateOK

\* The row of another group changes nothing.
LEMMA TookOther ==
  ASSUME InputOK, NEW n \in 0 .. Len(Rows) - 1, NEW k, NEW kind \in Kind, NEW s,
         Took(kind, s, k, n), KeyOf(Rows[n + 1]) # k
  PROVE  Took(kind, s, k, n + 1)
<1>1. n \in Nat
  BY TotalsInRange
<1>2. /\ Members(k, n + 1) = Members(k, n) /\ Valued(k, n + 1) = Valued(k, n)
      /\ Values(k, n + 1) = Values(k, n)
  BY <1>1, GroupStep
<1>3. Addend(k, n + 1) = 0
  BY DEF Addend
<1>4. Total(k)[n + 1] = Total(k)[n]
  BY <1>3, TotalsInRange
<1>5. (\E m \in 0 .. n + 1 : ~ InRange(Total(k)[m])) <=> (\E m \in 0 .. n : ~ InRange(Total(k)[m]))
  BY <1>1, <1>4, TotalsInRange
<1>6. Counts(kind) => Reference(kind, k, n + 1) = Reference(kind, k, n)
  BY <1>2, CountReference DEF Counts
<1> DEFINE N == n + 1
<1> HIDE DEF N
<1>7. QED BY <1>2, <1>4, <1>5, <1>6 DEF Took, N

\* A NULL value changes nothing either, but for COUNT(*).
LEMMA TookNull ==
  ASSUME InputOK, NEW n \in 0 .. Len(Rows) - 1, NEW k, NEW kind \in Kind, NEW s,
         Took(kind, s, k, n), KeyOf(Rows[n + 1]) = k, Rows[n + 1].value = Null, kind # "rows"
  PROVE  Took(kind, s, k, n + 1)
<1>1. n \in Nat
  BY TotalsInRange
<1>2. /\ Valued(k, n + 1) = Valued(k, n)
      /\ Values(k, n + 1) = Values(k, n)
  BY <1>1, GroupStep
<1>3. Addend(k, n + 1) = 0
  BY DEF Addend
<1>4. Total(k)[n + 1] = Total(k)[n]
  BY <1>3, TotalsInRange
<1>5. (\E m \in 0 .. n + 1 : ~ InRange(Total(k)[m])) <=> (\E m \in 0 .. n : ~ InRange(Total(k)[m]))
  BY <1>1, <1>4, TotalsInRange
<1>6. Counts(kind) => Reference(kind, k, n + 1) = Reference(kind, k, n)
  BY <1>2, CountReference DEF Counts
<1>7. QED BY <1>2, <1>4, <1>5, <1>6 DEF Took

\* A count that is not full counts one more.
LEMMA TookCount ==
  ASSUME InputOK, NEW n \in 0 .. Len(Rows) - 1, NEW k, NEW kind \in {"rows", "count"}, NEW s,
         StateOK(kind, s), Took(kind, s, k, n), KeyOf(Rows[n + 1]) = k,
         Rows[n + 1].value # Null \/ kind = "rows", s.number # MaxInt
  PROVE  Took(kind, Accumulate(kind, s, Rows[n + 1].value), k, n + 1)
<1> DEFINE v == Rows[n + 1].value
           t == Accumulate(kind, s, v)
<1>1. n \in Nat
  BY TotalsInRange
<1>2. Counts(kind) /\ kind # "sum" /\ kind # "min" /\ kind # "max"
  BY DEF Counts
<1>3. s.number = Reference(kind, k, n) /\ s.overflow = FALSE
  <2>1. s.overflow \in BOOLEAN
    BY DEF StateOK, State
  <2>2. QED BY <1>2, <2>1 DEF Took
<1>4. s.number \in Nat /\ s.number + 1 \in Int /\ InRange(s.number + 1)
  <2>1. s.number \in Nat
    BY <1>1, <1>3, CountReference, GroupFinite
  <2>2. InRange(s.number)
    BY <1>2 DEF StateOK
  <2>3. QED BY <2>1, <2>2, InputFacts DEF InRange
<1>5. t.number = s.number + 1
  <2>1. t.number = Wrap(s.number + 1)
    BY DEF Accumulate
  <2>2. QED BY <1>4, <2>1, WrapInRange
<1>6. t.overflow = FALSE
  <2>1. t.overflow = Overflows(kind, s, v)
    BY DEF Accumulate
  <2>2. QED BY <1>2, <1>3, <2>1 DEF Overflows, SumLeaves
<1>7. Reference(kind, k, n + 1) = Reference(kind, k, n) + 1
  <2>1. CASE kind = "rows"
    BY <1>1, <2>1, CountReference, CountStep
  <2>2. CASE kind = "count"
    <3>1. Rows[n + 1].value # Null
      BY <2>2
    <3>2. Cardinality(Valued(k, n + 1)) = Cardinality(Valued(k, n)) + 1
      BY <1>1, <3>1, CountStep
    <3>3. QED BY <2>2, <3>2, CountReference
  <2>3. QED BY <2>1, <2>2
<1> HIDE DEF t
<1>8. Took(kind, t, k, n + 1)
  BY <1>2, <1>3, <1>5, <1>6, <1>7 DEF Took
<1>9. QED BY <1>8 DEF t

\* A sum adds a number, notes that it left the integers and keeps NaN.
LEMMA TookSum ==
  ASSUME InputOK, NEW n \in 0 .. Len(Rows) - 1, NEW k, NEW s,
         StateOK("sum", s), Took("sum", s, k, n), KeyOf(Rows[n + 1]) = k, Rows[n + 1].value # Null
  PROVE  Took("sum", Accumulate("sum", s, Rows[n + 1].value), k, n + 1)
<1> DEFINE v == Rows[n + 1].value
           t == Accumulate("sum", s, v)
<1>1. n \in Nat /\ n \in 0 .. Len(Rows) /\ n + 1 \in 0 .. Len(Rows)
  BY TotalsInRange
<1>2. Valued(k, n + 1) # {} /\ Values(k, n + 1) = Values(k, n) \cup {v}
  BY <1>1, GroupStep
<1>3. v \in Int \cup {NaN} /\ (IsInt => v \in Int /\ InRange(v))
  <2>1. n + 1 \in 1 .. Len(Rows)
    BY <1>1
  <2>2. QED BY <2>1, InputFacts DEF InRange
<1>4. /\ t.number = Add(s.number, v) /\ t.seen = TRUE
      /\ t.overflow <=> s.overflow \/ (IsInt /\ ~ InRange(s.number + v))
  <2>1. t = [number |-> Add(s.number, v), seen |-> TRUE, overflow |-> Overflows("sum", s, v)]
    BY DEF Accumulate
  <2>2. Overflows("sum", s, v) <=> s.overflow \/ (IsInt /\ ~ InRange(s.number + v))
    BY DEF Overflows, SumLeaves
  <2> HIDE DEF t
  <2>3. QED BY <2>1, <2>2
<1>5. Addend(k, n + 1) = IF v = NaN THEN 0 ELSE v
  BY <1>3 DEF Addend
<1>6. /\ s.number \in Int \cup {NaN} /\ s.overflow \in BOOLEAN
      /\ IsInt => s.number \in Int
  BY InputFacts DEF StateOK, State, InRange
<1>7. /\ s.overflow <=> IsInt /\ \E m \in 0 .. n : ~ InRange(Total(k)[m])
      /\ ~ s.overflow => s.number = IF NaN \in Values(k, n) THEN NaN ELSE Total(k)[n]
  BY DEF Took
<1>8. CASE IsInt
  <2>1. NaN \notin Values(k, n) /\ NaN \notin Values(k, n + 1) /\ v # NaN /\ v \in Int
    BY <1>1, <1>3, <1>8, ValuesOfGroup, InputFacts
  <2>2. Total(k)[n + 1] = Total(k)[n] + v
    BY <1>5, <2>1, TotalsInRange
  <2>3. ~ s.overflow => s.number + v = Total(k)[n + 1]
    BY <1>7, <2>1, <2>2
  <2>4. t.overflow <=> \E m \in 0 .. n + 1 : ~ InRange(Total(k)[m])
    <3> DEFINE bad == \E m \in 0 .. n : ~ InRange(Total(k)[m])
    <3>1. (\E m \in 0 .. n + 1 : ~ InRange(Total(k)[m])) <=> bad \/ ~ InRange(Total(k)[n + 1])
      BY TotalsInRange
    <3>2. s.overflow <=> bad
      BY <1>7, <1>8
    <3> HIDE DEF bad, t
    <3>3. QED BY <1>4, <1>8, <2>3, <3>1, <3>2
  <2>5. ~ t.overflow => t.number = Total(k)[n + 1]
    <3>1. SUFFICES ASSUME ~ t.overflow PROVE t.number = Total(k)[n + 1]
      OBVIOUS
    <3>2. ~ s.overflow /\ InRange(s.number + v) /\ s.number + v \in Int
      <4> HIDE DEF t, v
      <4>1. ~ s.overflow /\ InRange(s.number + v)
        BY <1>4, <1>8, <3>1
      <4>2. QED BY <1>6, <1>8, <2>1, <4>1
    <3>3. t.number = Wrap(s.number + v)
      BY <1>4, <1>8 DEF Add
    <3>4. QED BY <2>3, <3>2, <3>3, WrapInRange
  <2> HIDE DEF t
  <2>6. t.seen <=> Valued(k, n + 1) # {}
    BY <1>2, <1>4
  <2>7. QED BY <1>8, <2>1, <2>4, <2>5, <2>6, TookIs DEF t
<1>9. CASE ~ IsInt
  <2>1. t.overflow <=> FALSE
    BY <1>4, <1>7, <1>9
  <2>2. t.number = AddDouble(s.number, v)
    BY <1>4, <1>9 DEF Add
  <2>3. ~ s.overflow
    BY <1>7, <1>9
  <2>4. t.number = IF NaN \in Values(k, n + 1) THEN NaN ELSE Total(k)[n + 1]
    <3>1. NaN \in Values(k, n + 1) <=> NaN \in Values(k, n) \/ v = NaN
      BY <1>2
    <3>2. CASE v = NaN
      BY <2>2, <3>1, <3>2 DEF AddDouble
    <3>3. CASE v # NaN /\ NaN \in Values(k, n)
      BY <1>7, <2>2, <2>3, <3>1, <3>3 DEF AddDouble
    <3>4. CASE v # NaN /\ NaN \notin Values(k, n)
      <4>1. s.number = Total(k)[n] /\ s.number # NaN
        BY <1>7, <2>3, <3>4, TotalsInRange, InputFacts
      <4>2. t.number = s.number + v
        BY <2>2, <3>4, <4>1 DEF AddDouble
      <4>3. Total(k)[n + 1] = Total(k)[n] + v
        BY <1>5, <3>4, TotalsInRange
      <4>4. QED BY <3>1, <3>4, <4>1, <4>2, <4>3
    <3>5. QED BY <3>2, <3>3, <3>4
  <2> HIDE DEF t
  <2>5. t.seen <=> Valued(k, n + 1) # {}
    BY <1>2, <1>4
  <2>6. QED BY <1>9, <2>1, <2>4, <2>5, TookIs DEF t
<1>10. QED BY <1>8, <1>9

\* A minimum keeps the smallest value, with NaN last; a maximum the largest.
LEMMA TookExtreme ==
  ASSUME InputOK, NEW n \in 0 .. Len(Rows) - 1, NEW k, NEW kind \in {"min", "max"}, NEW s,
         StateOK(kind, s), Took(kind, s, k, n), KeyOf(Rows[n + 1]) = k, Rows[n + 1].value # Null
  PROVE  Took(kind, Accumulate(kind, s, Rows[n + 1].value), k, n + 1)
<1> DEFINE v == Rows[n + 1].value
           t == Accumulate(kind, s, v)
<1>1. n \in Nat /\ n \in 0 .. Len(Rows) /\ n + 1 \in 1 .. Len(Rows)
  BY TotalsInRange
<1>2. Valued(k, n + 1) # {} /\ Values(k, n + 1) = Values(k, n) \cup {v}
  BY <1>1, GroupStep
<1>3. v \in Int \cup {NaN} /\ Values(k, n) \subseteq Int \cup {NaN} /\ NaN \notin Int
      /\ (Values(k, n) = {} <=> Valued(k, n) = {})
  BY <1>1, InputFacts, ValuesOfGroup
<1>4. s.overflow = FALSE /\ s.seen \in BOOLEAN /\ s.number \in Int \cup {NaN}
  BY DEF Took, StateOK, State
<1>5. t.seen = TRUE /\ t.overflow = FALSE
  BY <1>4 DEF Accumulate, Overflows, SumLeaves
<1>6. s.seen <=> Values(k, n) # {}
  BY <1>3, CountReference DEF Took
<1>7. CASE kind = "min"
  <2>1. t.number = IF ~ s.seen \/ Smaller(v, s.number) THEN v ELSE s.number
    BY <1>7 DEF Accumulate
  <2>2. s.seen => s.number \in Values(k, n) /\ \A w \in Values(k, n) : ~ Smaller(w, s.number)
    BY <1>7 DEF Took
  <2>3. t.number \in Values(k, n + 1) /\ \A w \in Values(k, n + 1) : ~ Smaller(w, t.number)
    BY <1>2, <1>3, <1>4, <1>6, <2>1, <2>2 DEF Smaller, Less
  <2> HIDE DEF t
  <2>4. Took("min", t, k, n + 1)
    BY <1>2, <1>5, <2>3, TookIs
  <2>5. QED BY <1>7, <2>4 DEF t
<1>8. CASE kind = "max"
  <2>1. t.number = IF ~ s.seen \/ Larger(v, s.number) THEN v ELSE s.number
    BY <1>8 DEF Accumulate
  <2>2. s.seen => s.number \in Values(k, n) /\ \A w \in Values(k, n) : ~ Larger(w, s.number)
    BY <1>8 DEF Took
  <2>3. t.number \in Values(k, n + 1) /\ \A w \in Values(k, n + 1) : ~ Larger(w, t.number)
    BY <1>2, <1>3, <1>4, <1>6, <2>1, <2>2 DEF Larger, Less
  <2> HIDE DEF t
  <2>4. Took("max", t, k, n + 1)
    BY <1>2, <1>5, <2>3, TookIs
  <2>5. QED BY <1>8, <2>4 DEF t
<1>9. QED BY <1>7, <1>8

\* Whether a row leaves a COUNT without room.
LEMMA TookNext ==
  ASSUME InputOK, NEW n \in 0 .. Len(Rows) - 1, NEW k, NEW kind \in Kind, NEW s,
         StateOK(kind, s), Took(kind, s, k, n), KeyOf(Rows[n + 1]) = k,
         kind = "rows" \/ (kind = "count" /\ Rows[n + 1].value # Null) => s.number # MaxInt
  PROVE  Took(kind, Accumulate(kind, s, Rows[n + 1].value), k, n + 1)
<1>1. CASE Rows[n + 1].value = Null /\ kind # "rows"
  <2>1. Accumulate(kind, s, Rows[n + 1].value) = s
    BY <1>1 DEF Accumulate
  <2>2. QED BY <1>1, <2>1, TookNull
<1>2. CASE kind = "rows" \/ (kind = "count" /\ Rows[n + 1].value # Null)
  BY <1>2, TookCount
<1>3. CASE kind = "sum" /\ Rows[n + 1].value # Null
  BY <1>3, TookSum
<1>4. CASE kind \in {"min", "max"} /\ Rows[n + 1].value # Null
  BY <1>4, TookExtreme
<1>5. kind \in {"rows", "count", "sum", "min", "max"}
  BY DEF Kind
<1>6. QED BY <1>1, <1>2, <1>3, <1>4, <1>5

\* An accumulator stays one, whatever it takes.
LEMMA AccumulateKeepsType ==
  ASSUME InputOK, NEW i \in 1 .. Len(Rows), NEW kind \in Kind, NEW s, StateOK(kind, s)
  PROVE  StateOK(kind, Accumulate(kind, s, Rows[i].value))
<1> DEFINE v == Rows[i].value
           t == Accumulate(kind, s, v)
<1>1. CASE v = Null /\ kind # "rows"
  BY <1>1 DEF Accumulate
<1>2. CASE v # Null \/ kind = "rows"
  <2>1. /\ s.number \in Int \cup {NaN} /\ s.seen \in BOOLEAN /\ s.overflow \in BOOLEAN
        /\ IsInt \/ Counts(kind) => InRange(s.number) /\ s.number \in Int
    BY InputFacts DEF StateOK, State, InRange
  <2>2. v # Null => v \in Int \cup {NaN} /\ (IsInt => InRange(v) /\ v \in Int)
    BY InputFacts DEF InRange
  <2>3. NaN \notin Int /\ \A x \in Int : Wrap(x) \in Int /\ InRange(Wrap(x))
    BY InputFacts, WrapInRange
  <2>4. kind \in {"rows", "count", "sum", "min", "max"} /\ (Counts(kind) <=> kind \in {"rows", "count"})
    BY DEF Kind, Counts
  <2> DEFINE number == CASE kind \in {"rows", "count"} -> Wrap(s.number + 1)
                         [] kind = "sum" -> Add(s.number, v)
                         [] kind = "min" -> IF ~ s.seen \/ Smaller(v, s.number) THEN v ELSE s.number
                         [] kind = "max" -> IF ~ s.seen \/ Larger(v, s.number) THEN v ELSE s.number
  <2>5. t = [number |-> number, seen |-> TRUE, overflow |-> Overflows(kind, s, v)]
    BY <1>2 DEF Accumulate
  <2>6. Overflows(kind, s, v) \in BOOLEAN
    BY <2>1 DEF Overflows, SumLeaves
  <2>7. number \in Int \cup {NaN} /\ (IsInt \/ Counts(kind) => InRange(number))
    <3> HIDE DEF v
    <3>1. CASE Counts(kind)
      <4>1. number = Wrap(s.number + 1)
        BY <2>4, <3>1
      <4>2. s.number + 1 \in Int
        BY <2>1, <3>1
      <4> HIDE DEF number
      <4>3. QED BY <2>3, <4>1, <4>2
    <3>2. CASE kind = "sum"
      <4>1. number = Add(s.number, v)
        BY <3>2
      <4>2. ~ Counts(kind)
        BY <3>2 DEF Counts
      <4>3. v # Null
        BY <1>2, <3>2
      <4> HIDE DEF number
      <4>4. CASE IsInt
        <5>1. s.number + v \in Int /\ number = Wrap(s.number + v)
          BY <2>1, <2>2, <4>1, <4>3, <4>4 DEF Add
        <5>2. QED BY <2>3, <5>1
      <4>5. CASE ~ IsInt
        <5>1. number = AddDouble(s.number, v)
          BY <4>1, <4>5 DEF Add
        <5>2. number \in Int \cup {NaN}
          BY <2>1, <2>2, <4>3, <5>1 DEF AddDouble
        <5>3. QED BY <4>2, <4>5, <5>2
      <4>6. QED BY <4>4, <4>5
    <3>3. CASE kind \in {"min", "max"}
      <4>1. number = v \/ number = s.number
        BY <3>3
      <4>2. v # Null /\ ~ Counts(kind)
        BY <1>2, <3>3 DEF Counts
      <4> HIDE DEF number
      <4>3. QED BY <2>1, <2>2, <4>1, <4>2
    <3>4. QED BY <2>4, <3>1, <3>2, <3>3
  <2> HIDE DEF number, t
  <2>8. QED BY <2>5, <2>6, <2>7 DEF StateOK, State, t
<1>3. QED BY <1>1, <1>2

\* The minimum and the maximum of a set of numbers, and what a set with none
\* smaller than x has.
LEMMA ExtremeIs ==
  ASSUME NEW S \in SUBSET (Int \cup {NaN}), NEW x \in S, NaN \notin Int
  PROVE  /\ (\A v \in S : ~ Smaller(v, x)) => Least(S) = x
         /\ (\A v \in S : ~ Larger(v, x)) => Greatest(S) = x
<1>1. ASSUME \A v \in S : ~ Smaller(v, x) PROVE Least(S) = x
  <2>1. CASE x = NaN
    <3>1. S = {NaN}
      BY <1>1, <2>1 DEF Smaller
    <3>2. QED BY <2>1, <3>1 DEF Least
  <2>2. CASE x # NaN
    <3> DEFINE R == S \ {NaN}
    <3>1. x \in R /\ R \subseteq Int /\ S # {NaN}
      <4>1. x \in R /\ R \subseteq Int
        BY <2>2
      <4>2. S # {NaN}
        <5>1. x \in S
          OBVIOUS
        <5>2. QED BY <2>2, <5>1
      <4>3. QED BY <4>1, <4>2
    <3>2. \A y \in R : x <= y
      BY <1>1, <2>2, <3>1 DEF Smaller, Less
    <3>3. Least(S) = CHOOSE m \in R : \A y \in R : m <= y
      BY <3>1 DEF Least, Min
    <3> HIDE DEF R
    <3>4. \A m \in R : (\A y \in R : m <= y) => m = x
      BY <3>1, <3>2
    <3>5. QED BY <3>1, <3>2, <3>3, <3>4
  <2>3. QED BY <2>1, <2>2
<1>2. ASSUME \A v \in S : ~ Larger(v, x) PROVE Greatest(S) = x
  <2>1. CASE x = NaN
    BY <2>1 DEF Greatest
  <2>2. CASE x # NaN
    <3>1. NaN \notin S
      BY <1>2, <2>2 DEF Larger
    <3>2. x \in Int /\ S \subseteq Int
      BY <2>2, <3>1
    <3>3. \A y \in S : x >= y
      BY <1>2, <3>1, <3>2 DEF Larger, Less
    <3>4. Greatest(S) = CHOOSE m \in S : \A y \in S : m >= y
      BY <3>1 DEF Greatest, Max
    <3>5. \A m \in S : (\A y \in S : m >= y) => m = x
      BY <3>2, <3>3
    <3>6. QED BY <3>3, <3>4, <3>5
  <2>3. QED BY <2>1, <2>2
<1>3. QED BY <1>1, <1>2

\* An accumulator that has taken the values of its group shows what SQL says.
LEMMA ShownIsReference ==
  ASSUME InputOK, NEW n \in 0 .. Len(Rows), NEW k, NEW kind \in Kind, NEW s,
         StateOK(kind, s), Took(kind, s, k, n)
  PROVE  Shown(kind, s) = Reference(kind, k, n)
<1>1. /\ s.number \in Int \cup {NaN} /\ s.seen \in BOOLEAN /\ s.overflow \in BOOLEAN
      /\ kind \in {"rows", "count", "sum", "min", "max"}
  BY DEF StateOK, State, Kind
<1>2. CASE Counts(kind)
  <2>1. kind \in {"rows", "count"}
    BY <1>2 DEF Counts
  <2>2. QED BY <1>2, <2>1 DEF Shown, Took
<1>3. CASE ~ Counts(kind)
  <2>1. kind \in {"sum", "min", "max"}
    BY <1>1, <1>3 DEF Counts
  <2>2. Shown(kind, s) = IF ~ s.seen \/ s.overflow THEN Null ELSE s.number
    BY <2>1 DEF Shown
  <2>3. s.seen <=> Valued(k, n) # {}
    BY <2>1, TookIs
  <2>4. CASE Valued(k, n) = {}
    <3>1. Reference(kind, k, n) = Null
      BY <1>3, <2>1, <2>4 DEF Reference
    <3>2. QED BY <2>2, <2>3, <2>4, <3>1
  <2>5. CASE Valued(k, n) # {} /\ kind = "sum"
    <3>1. Reference(kind, k, n) = SumOf(k, n)
      BY <1>3, <2>5 DEF Reference
    <3>2. /\ s.overflow <=> IsInt /\ \E m \in 0 .. n : ~ InRange(Total(k)[m])
          /\ ~ s.overflow => s.number = IF NaN \in Values(k, n) THEN NaN ELSE Total(k)[n]
      BY <2>5, TookIs
    <3>3. IsInt => NaN \notin Values(k, n)
      BY ValuesOfGroup
    <3>4. CASE s.overflow
      <4>1. SumOf(k, n) = Null
        BY <3>2, <3>4 DEF SumOf
      <4>2. QED BY <2>2, <3>1, <3>4, <4>1
    <3>5. CASE ~ s.overflow
      <4>1. SumOf(k, n) = s.number
        BY <3>2, <3>3, <3>5 DEF SumOf
      <4>2. QED BY <2>2, <2>3, <2>5, <3>1, <3>5, <4>1
    <3>6. QED BY <1>1, <3>4, <3>5
  <2>6. CASE Valued(k, n) # {} /\ kind = "min"
    <3>1. Reference(kind, k, n) = Least(Values(k, n))
      BY <1>3, <2>6 DEF Reference
    <3>2. /\ ~ s.overflow /\ s.number \in Values(k, n)
          /\ \A v \in Values(k, n) : ~ Smaller(v, s.number)
      BY <2>3, <2>6, TookIs
    <3>3. Least(Values(k, n)) = s.number
      BY <3>2, ExtremeIs, ValuesOfGroup, InputFacts
    <3>4. QED BY <2>2, <2>3, <2>6, <3>1, <3>2, <3>3
  <2>7. CASE Valued(k, n) # {} /\ kind = "max"
    <3>1. Reference(kind, k, n) = Greatest(Values(k, n))
      BY <1>3, <2>7 DEF Reference
    <3>2. /\ ~ s.overflow /\ s.number \in Values(k, n)
          /\ \A v \in Values(k, n) : ~ Larger(v, s.number)
      BY <2>3, <2>7, TookIs
    <3>3. Greatest(Values(k, n)) = s.number
      BY <3>2, ExtremeIs, ValuesOfGroup, InputFacts
    <3>4. QED BY <2>2, <2>3, <2>7, <3>1, <3>2, <3>3
  <2>8. QED BY <2>1, <2>4, <2>5, <2>6, <2>7
<1>4. QED BY <1>2, <1>3

-----------------------------------------------------------------------------
\* The order of the groups.

\* Keys in the order of the first rows that hold them.
PlacedIn(gs, n) ==
  /\ ~ grouped => gs = <<GlobalKey>>
  /\ grouped => /\ Len(gs) = Cardinality(FirstRows(n))
                /\ \A i \in FirstRows(n) : gs[Cardinality(FirstRows(i))] = Rows[i].key
                /\ \A g \in DOMAIN gs : \E i \in FirstRows(n) : Cardinality(FirstRows(i)) = g

LEMMA GroupsPlaced ==
  ASSUME NEW n
  PROVE  GroupsInOrder(n) <=> PlacedIn(groups, n)
  BY DEF GroupsInOrder, PlacedIn

\* First rows are finitely many, and what a row adds to them.
LEMMA FirstRowsStep ==
  ASSUME NEW n \in Nat
  PROVE  /\ FirstRows(n) \in SUBSET (1 .. n)
         /\ IsFiniteSet(FirstRows(n)) /\ Cardinality(FirstRows(n)) \in Nat
         /\ (\E j \in 1 .. n : Rows[j].key = Rows[n + 1].key) => FirstRows(n + 1) = FirstRows(n)
         /\ (\A j \in 1 .. n : Rows[j].key # Rows[n + 1].key) =>
              /\ FirstRows(n + 1) = FirstRows(n) \cup {n + 1}
              /\ Cardinality(FirstRows(n + 1)) = Cardinality(FirstRows(n)) + 1
<1>1. FirstRows(n) \in SUBSET (1 .. n)
  BY DEF FirstRows
<1>2. IsFiniteSet(FirstRows(n)) /\ Cardinality(FirstRows(n)) \in Nat
  BY <1>1, SomeUpTo
<1>3. 1 .. n + 1 = (1 .. n) \cup {n + 1} /\ (n + 1) - 1 = n /\ n + 1 \notin 1 .. n
  OBVIOUS
<1> DEFINE m == n + 1
           first(i) == \A j \in 1 .. i - 1 : Rows[j].key # Rows[i].key
<1>4. first(m) <=> \A j \in 1 .. n : Rows[j].key # Rows[m].key
  BY <1>3
<1>5. FirstRows(m) = {i \in 1 .. m : first(i)} /\ FirstRows(n) = {i \in 1 .. n : first(i)}
  BY DEF FirstRows
<1> HIDE DEF m, first
<1>6. 1 .. m = (1 .. n) \cup {m} /\ m \notin 1 .. n
  BY <1>3 DEF m
<1>7. FirstRows(m) = FirstRows(n) \cup (IF first(m) THEN {m} ELSE {}) /\ m \notin FirstRows(n)
  BY <1>5, <1>6
<1>8. first(m) => FirstRows(m) = FirstRows(n) \cup {m}
                  /\ Cardinality(FirstRows(m)) = Cardinality(FirstRows(n)) + 1
  BY <1>2, <1>7, FS_AddElement
<1>9. ~ first(m) => FirstRows(m) = FirstRows(n)
  BY <1>7
<1>10. QED BY <1>1, <1>2, <1>4, <1>8, <1>9 DEF m

\* A first row is the last of the first rows up to it.
LEMMA FirstRowsBelow ==
  ASSUME NEW n \in Nat, NEW i \in FirstRows(n)
  PROVE  /\ i \in 1 .. n /\ i \in FirstRows(i) /\ FirstRows(i) \subseteq FirstRows(n)
         /\ Cardinality(FirstRows(i)) \in 1 .. Cardinality(FirstRows(n))
<1>1. i \in 1 .. n /\ i \in Nat
  BY DEF FirstRows
<1>2. i \in FirstRows(i) /\ FirstRows(i) \subseteq FirstRows(n)
  BY <1>1 DEF FirstRows
<1>3. /\ IsFiniteSet(FirstRows(n)) /\ Cardinality(FirstRows(n)) \in Nat
      /\ IsFiniteSet(FirstRows(i)) /\ Cardinality(FirstRows(i)) \in Nat
  BY <1>1, FirstRowsStep
<1>4. Cardinality(FirstRows(i)) <= Cardinality(FirstRows(n))
  BY <1>2, <1>3, FS_Subset
<1>5. Cardinality(FirstRows(i)) # 0
  <2>1. FirstRows(i) # {}
    BY <1>2
  <2>2. QED BY <1>3, <2>1, FS_EmptySet
<1>6. QED BY <1>1, <1>2, <1>3, <1>4, <1>5

\* Every row has the key of one first row, and of one only.
LEMMA FirstRowOfKey ==
  ASSUME NEW n \in Nat
  PROVE  /\ \A j \in 1 .. n : \E i \in FirstRows(n) : Rows[i].key = Rows[j].key
         /\ \A i, j \in FirstRows(n) : Rows[i].key = Rows[j].key => i = j
<1>1. ASSUME NEW j \in 1 .. n PROVE \E i \in FirstRows(n) : Rows[i].key = Rows[j].key
  <2> DEFINE T == {i \in 1 .. n : Rows[i].key = Rows[j].key}
  <2>1. T \in SUBSET Nat /\ T # {}
    OBVIOUS
  <2>2. PICK i \in T : \A y \in T : i <= y
    <3> HIDE DEF T
    <3>1. QED BY <2>1, LeastNumber
  <2>3. i \in 1 .. n /\ Rows[i].key = Rows[j].key
    OBVIOUS
  <2>4. \A x \in 1 .. i - 1 : Rows[x].key # Rows[i].key
    <3> SUFFICES ASSUME NEW x \in 1 .. i - 1, Rows[x].key = Rows[i].key PROVE FALSE
      OBVIOUS
    <3>1. x \in T /\ x \in Int /\ i \in Int /\ x < i
      BY <2>3
    <3> HIDE DEF T
    <3>2. QED BY <2>2, <3>1
  <2>5. i \in FirstRows(n)
    BY <2>3, <2>4 DEF FirstRows
  <2>6. QED BY <2>3, <2>5
<1>2. ASSUME NEW i \in FirstRows(n), NEW j \in FirstRows(n), Rows[i].key = Rows[j].key PROVE i = j
  <2>1. i \in 1 .. n /\ j \in 1 .. n
    BY DEF FirstRows
  <2>2. ~ (j \in 1 .. i - 1) /\ ~ (i \in 1 .. j - 1)
    BY <1>2 DEF FirstRows
  <2>3. QED BY <2>1, <2>2
<1>3. QED BY <1>1, <1>2

\* Keys in that order are the keys of the rows, once each.
LEMMA PlacedKeys ==
  ASSUME InputOK, NEW n \in 0 .. Len(Rows), NEW gs \in Seq(Keys \cup {GlobalKey}), PlacedIn(gs, n)
  PROVE  /\ Range(gs) = KeysUpTo(n)
         /\ \A g, h \in DOMAIN gs : gs[g] = gs[h] => g = h
<1>1. n \in Nat /\ DOMAIN gs = 1 .. Len(gs) /\ Len(gs) \in Nat
  BY InputFacts, LenProperties
<1>2. CASE ~ grouped
  <2>1. gs = <<GlobalKey>>
    BY <1>2 DEF PlacedIn
  <2>2. DOMAIN gs = {1} /\ gs[1] = GlobalKey
    BY <2>1
  <2>3. Range(gs) = {GlobalKey}
    BY <2>2 DEF Range
  <2>4. QED BY <1>2, <2>2, <2>3 DEF KeysUpTo
<1>3. CASE grouped
  <2>1. /\ Len(gs) = Cardinality(FirstRows(n))
        /\ \A i \in FirstRows(n) : gs[Cardinality(FirstRows(i))] = Rows[i].key
        /\ \A g \in DOMAIN gs : \E i \in FirstRows(n) : Cardinality(FirstRows(i)) = g
    BY <1>3 DEF PlacedIn
  <2>2. ASSUME NEW g \in DOMAIN gs
        PROVE  \E i \in FirstRows(n) : Cardinality(FirstRows(i)) = g /\ gs[g] = Rows[i].key
    BY <2>1
  <2>3. KeysUpTo(n) = {Rows[i].key : i \in 1 .. n}
    BY <1>3 DEF KeysUpTo
  <2>4. Range(gs) \subseteq KeysUpTo(n)
    <3>1. \A i \in FirstRows(n) : i \in 1 .. n
      BY DEF FirstRows
    <3>2. QED BY <2>2, <2>3, <3>1 DEF Range
  <2>5. ASSUME NEW j \in 1 .. n PROVE Rows[j].key \in Range(gs)
    <3>1. PICK i \in FirstRows(n) : Rows[i].key = Rows[j].key
      BY <1>1, FirstRowOfKey
    <3>2. Cardinality(FirstRows(i)) \in DOMAIN gs
      BY <1>1, <2>1, FirstRowsBelow
    <3>3. gs[Cardinality(FirstRows(i))] = Rows[j].key
      BY <2>1, <3>1
    <3>4. QED BY <3>2, <3>3 DEF Range
  <2>6. ASSUME NEW g \in DOMAIN gs, NEW h \in DOMAIN gs, gs[g] = gs[h] PROVE g = h
    <3>1. PICK i \in FirstRows(n) : Cardinality(FirstRows(i)) = g /\ gs[g] = Rows[i].key
      BY <2>2
    <3>2. PICK j \in FirstRows(n) : Cardinality(FirstRows(j)) = h /\ gs[h] = Rows[j].key
      BY <2>2
    <3>3. i = j
      BY <1>1, <2>6, <3>1, <3>2, FirstRowOfKey
    <3>4. QED BY <3>1, <3>2, <3>3
  <2>7. QED BY <2>3, <2>4, <2>5, <2>6
<1>4. QED BY <1>2, <1>3 DEF InputOK

\* A group has rows, and a key without a group has none.
LEMMA KeyWithoutGroup ==
  ASSUME InputOK, NEW n \in 0 .. Len(Rows) - 1, NEW gs \in Seq(Keys \cup {GlobalKey}),
         PlacedIn(gs, n), KeyOf(Rows[n + 1]) \notin Range(gs)
  PROVE  /\ grouped /\ Members(KeyOf(Rows[n + 1]), n) = {}
         /\ \A j \in 1 .. n : Rows[j].key # Rows[n + 1].key
<1>1. n \in 0 .. Len(Rows) /\ n \in Nat
  BY InputFacts
<1>2. Range(gs) = KeysUpTo(n)
  BY <1>1, PlacedKeys
<1>3. grouped
  BY <1>2 DEF KeysUpTo, KeyOf
<1>4. \A i : KeyOf(Rows[i]) = Rows[i].key
  BY <1>3 DEF KeyOf
<1>5. \A j \in 1 .. n : Rows[j].key # Rows[n + 1].key
  BY <1>2, <1>3, <1>4 DEF KeysUpTo
<1>6. QED BY <1>3, <1>4, <1>5 DEF Members

\* The order after one more row.
LEMMA PlacedNext ==
  ASSUME InputOK, NEW n \in 0 .. Len(Rows) - 1, NEW gs \in Seq(Keys \cup {GlobalKey}), PlacedIn(gs, n)
  PROVE  PlacedIn(IF KeyOf(Rows[n + 1]) \in Range(gs) THEN gs ELSE Append(gs, KeyOf(Rows[n + 1])), n + 1)
<1>1. n \in Nat /\ n \in 0 .. Len(Rows) /\ DOMAIN gs = 1 .. Len(gs) /\ Len(gs) \in Nat
  BY InputFacts, LenProperties
<1>2. Range(gs) = KeysUpTo(n)
  BY <1>1, PlacedKeys
<1>3. CASE ~ grouped
  <2>1. gs = <<GlobalKey>> /\ KeyOf(Rows[n + 1]) \in Range(gs)
    BY <1>2, <1>3 DEF PlacedIn, KeysUpTo, KeyOf
  <2>2. QED BY <1>3, <2>1 DEF PlacedIn
<1>4. CASE grouped /\ KeyOf(Rows[n + 1]) \in Range(gs)
  <2>1. \E j \in 1 .. n : Rows[j].key = Rows[n + 1].key
    BY <1>2, <1>4 DEF KeysUpTo, KeyOf
  <2>2. FirstRows(n + 1) = FirstRows(n)
    BY <1>1, <2>1, FirstRowsStep
  <2>3. PlacedIn(gs, n + 1)
    BY <2>2 DEF PlacedIn
  <2>4. QED BY <1>4, <2>3
<1>5. CASE KeyOf(Rows[n + 1]) \notin Range(gs)
  <2> DEFINE k == KeyOf(Rows[n + 1])
             m == n + 1
             hs == Append(gs, k)
  <2>1. grouped /\ \A j \in 1 .. n : Rows[j].key # Rows[m].key
    BY <1>5, KeyWithoutGroup
  <2>2. FirstRows(m) = FirstRows(n) \cup {m}
        /\ Cardinality(FirstRows(m)) = Cardinality(FirstRows(n)) + 1
    BY <1>1, <2>1, FirstRowsStep
  <2>3. k = Rows[m].key /\ k \in Keys \cup {GlobalKey}
    <3>1. m \in 1 .. Len(Rows)
      BY InputFacts
    <3>2. QED BY <2>1, <3>1, InputFacts DEF KeyOf
  <2>4. /\ Len(hs) = Len(gs) + 1 /\ DOMAIN hs = 1 .. Len(gs) + 1 /\ hs[Len(gs) + 1] = k
        /\ \A g \in 1 .. Len(gs) : hs[g] = gs[g]
    <3> HIDE DEF k
    <3>1. QED BY <1>1, <2>3, AppendProperties, LenProperties
  <2>5. /\ Len(gs) = Cardinality(FirstRows(n))
        /\ \A i \in FirstRows(n) : gs[Cardinality(FirstRows(i))] = Rows[i].key
        /\ \A g \in DOMAIN gs : \E i \in FirstRows(n) : Cardinality(FirstRows(i)) = g
    BY <2>1 DEF PlacedIn
  <2> HIDE DEF k, m, hs
  <2>6. Len(hs) = Cardinality(FirstRows(m))
    BY <2>2, <2>4, <2>5
  <2>7. ASSUME NEW i \in FirstRows(m) PROVE hs[Cardinality(FirstRows(i))] = Rows[i].key
    <3>1. CASE i = m
      BY <2>2, <2>3, <2>4, <2>5, <3>1
    <3>2. CASE i \in FirstRows(n)
      <4>1. Cardinality(FirstRows(i)) \in 1 .. Len(gs)
        BY <1>1, <2>5, <3>2, FirstRowsBelow
      <4>2. QED BY <2>4, <2>5, <3>2, <4>1
    <3>3. QED BY <2>2, <3>1, <3>2
  <2>8. ASSUME NEW g \in DOMAIN hs PROVE \E i \in FirstRows(m) : Cardinality(FirstRows(i)) = g
    <3>1. CASE g = Len(gs) + 1
      BY <2>2, <2>5, <3>1
    <3>2. CASE g \in DOMAIN gs
      BY <2>2, <2>5, <3>2
    <3>3. g = Len(gs) + 1 \/ g \in DOMAIN gs
      BY <1>1, <2>4
    <3>4. QED BY <3>1, <3>2, <3>3
  <2>9. PlacedIn(hs, m)
    BY <2>1, <2>6, <2>7, <2>8 DEF PlacedIn
  <2>10. QED BY <1>5, <2>9 DEF k, m, hs
<1>6. QED BY <1>3, <1>4, <1>5 DEF InputOK

-----------------------------------------------------------------------------
\* The invariant is inductive.

\* What is defined from the input depends on nothing else.
LEMMA FrozenKept ==
  ASSUME UNCHANGED frozen
  PROVE  /\ input' = input /\ grouped' = grouped /\ Rows' = Rows /\ Kinds' = Kinds
         /\ \A kind, s, k, n : Took(kind, s, k, n)' <=> Took(kind, s, k, n)
         /\ \A gs, n : PlacedIn(gs, n)' <=> PlacedIn(gs, n)
         /\ \A kind, s : StateOK(kind, s)' <=> StateOK(kind, s)
         /\ Answer' = Answer
<1>1. input' = input /\ grouped' = grouped
  BY DEF frozen
<1>2. /\ Rows' = Rows /\ Kinds' = Kinds
      /\ IsInt' <=> IsInt
  BY <1>1 DEF Rows, Kinds, IsInt
<1>3. \A r : KeyOf(r)' = KeyOf(r)
  BY <1>1 DEF KeyOf
<1>4. \A k, n : Members(k, n)' = Members(k, n)
  BY <1>2, <1>3 DEF Members
<1>5. \A k, n : Valued(k, n)' = Valued(k, n)
  BY <1>2, <1>4 DEF Valued
<1>6. \A k, n : Values(k, n)' = Values(k, n)
  BY <1>2, <1>5 DEF Values
<1>7. \A k : Total(k)' = Total(k)
  <2> DEFINE of(in, by, k) == LET total[n \in 0 .. Len(in.rows)] ==
                                    IF n = 0 THEN 0
                                    ELSE total[n - 1]
                                           + (IF (IF by THEN in.rows[n].key ELSE GlobalKey) = k
                                                 /\ in.rows[n].value \notin {Null, NaN}
                                              THEN in.rows[n].value ELSE 0)
                              IN  total
  <2>1. \A k : Total(k) = of(input, grouped, k)
    BY DEF Total, Addend, KeyOf, Rows
  <2>2. \A k : Total(k)' = of(input', grouped', k)
    BY DEF Total, Addend, KeyOf, Rows
  <2> HIDE DEF of
  <2>3. QED BY <1>1, <2>1, <2>2
<1>8. \A k, n : SumOf(k, n)' = SumOf(k, n)
  BY <1>1, <1>2, <1>6, <1>7 DEF SumOf
<1>9. \A kind, k, n : Reference(kind, k, n)' = Reference(kind, k, n)
  <2> DEFINE of(kind, members, valued, values, sum) ==
               CASE kind = "rows" -> Cardinality(members)
                 [] kind = "count" -> Cardinality(valued)
                 [] ~ Counts(kind) /\ valued = {} -> Null
                 [] kind = "sum" /\ valued # {} -> sum
                 [] kind = "min" /\ valued # {} -> Least(values)
                 [] kind = "max" /\ valued # {} -> Greatest(values)
  <2>1. \A kind, k, n : Reference(kind, k, n) =
                          of(kind, Members(k, n), Valued(k, n), Values(k, n), SumOf(k, n))
    BY DEF Reference
  <2>2. \A kind, k, n : Reference(kind, k, n)' =
                          of(kind, Members(k, n)', Valued(k, n)', Values(k, n)', SumOf(k, n)')
    BY DEF Reference
  <2> HIDE DEF of
  <2>3. QED BY <1>4, <1>5, <1>6, <1>8, <2>1, <2>2
<1>10. \A kind, s, k, n : Took(kind, s, k, n)' <=> Took(kind, s, k, n)
  BY <1>2, <1>5, <1>6, <1>7, <1>9 DEF Took
<1>11. \A n : FirstRows(n)' = FirstRows(n)
  BY <1>2 DEF FirstRows
<1>12. \A gs, n : PlacedIn(gs, n)' <=> PlacedIn(gs, n)
  BY <1>1, <1>2, <1>11 DEF PlacedIn
<1>13. \A kind, s : StateOK(kind, s)' <=> StateOK(kind, s)
  BY <1>2 DEF StateOK
<1>14. GroupKeys' = GroupKeys
  BY <1>1 DEF GroupKeys, FirstRows, Rows
<1>15. Answer' = Answer
  BY <1>2, <1>9, <1>14 DEF Answer
<1>16. QED BY <1>1, <1>2, <1>10, <1>12, <1>13, <1>15

\* The values of the variables, as sequences and numbers.
LEMMA VariableFacts ==
  ASSUME TypeOK
  PROVE  /\ InputOK /\ Len(Rows) \in Nat /\ taken \in Nat /\ taken <= Len(Rows) /\ taken \in 0 .. Len(Rows)
         /\ groups \in Seq(Keys \cup {GlobalKey}) /\ states \in Seq([DOMAIN Kinds -> State])
         /\ Len(groups) \in Nat /\ Len(states) = Len(groups)
         /\ DOMAIN groups = 1 .. Len(groups) /\ DOMAIN states = 1 .. Len(groups)
         /\ \A g \in 1 .. Len(groups) : /\ groups[g] \in Keys \cup {GlobalKey}
                                        /\ states[g] \in [DOMAIN Kinds -> State]
                                        /\ \A a \in DOMAIN Kinds : StateOK(Kinds[a], states[g][a])
         /\ cursor \in Nat /\ 1 <= cursor /\ cursor <= Len(groups) + 1
         /\ Len(out) \in Nat /\ Len(out) <= Capacity /\ Len(delivered) \in Nat
         /\ Capacity \in Nat /\ Capacity >= 1
<1>1. InputOK
  BY DEF TypeOK, InputOK
<1>2. Len(Rows) \in Nat /\ taken \in 0 .. Len(Rows)
  BY <1>1, InputFacts DEF TypeOK
<1>3. /\ groups \in Seq(Keys \cup {GlobalKey}) /\ states \in Seq([DOMAIN Kinds -> State])
      /\ Len(states) = Len(groups) /\ out \in Seq(ResultRow) /\ delivered \in Seq(ResultRow)
  BY DEF TypeOK
<1>4. /\ Len(groups) \in Nat /\ Len(out) \in Nat /\ Len(delivered) \in Nat
      /\ DOMAIN groups = 1 .. Len(groups) /\ DOMAIN states = 1 .. Len(groups)
  BY <1>3, LenProperties
<1>5. ASSUME NEW g \in 1 .. Len(groups)
      PROVE  /\ groups[g] \in Keys \cup {GlobalKey} /\ states[g] \in [DOMAIN Kinds -> State]
             /\ \A a \in DOMAIN Kinds : StateOK(Kinds[a], states[g][a])
  <2>1. groups[g] \in Keys \cup {GlobalKey}
    BY <1>3, ElementOfSeq
  <2>2. states[g] \in [DOMAIN Kinds -> State]
    BY <1>3, ElementOfSeq
  <2>3. \A a \in DOMAIN Kinds : IsInt \/ Counts(Kinds[a]) => InRange(states[g][a].number)
    BY <1>4 DEF TypeOK
  <2>4. QED BY <2>1, <2>2, <2>3 DEF StateOK
<1>6. cursor \in 1 .. Len(groups) + 1 /\ Len(out) <= Capacity
  BY DEF TypeOK
<1>7. cursor \in Nat /\ 1 <= cursor /\ cursor <= Len(groups) + 1
  BY <1>4, <1>6
<1>8. Capacity \in Nat /\ Capacity >= 1
  BY HashAggregateAssumption
<1>9. taken \in Nat /\ taken <= Len(Rows)
  BY <1>2
<1>10. QED BY <1>1, <1>2, <1>3, <1>4, <1>5, <1>6, <1>7, <1>8, <1>9

\* No rows have no first rows and no groups.
LEMMA NothingTaken ==
  /\ FirstRows(0) = {} /\ Cardinality(FirstRows(0)) = 0
  /\ \A k : Members(k, 0) = {}
<1>1. FirstRows(0) = {} /\ \A k : Members(k, 0) = {}
  BY DEF FirstRows, Members
<1>2. QED BY <1>1, FS_EmptySet

\* Nothing has been consumed at first.
LEMMA InitIInv ==
  ASSUME Init
  PROVE  IInv
<1>1. input \in Input /\ InputOK
  BY HashAggregateAssumption DEF Init, InputOK
<1>2. Len(Rows) \in Nat /\ Capacity \in Nat
  BY <1>1, InputFacts, HashAggregateAssumption
<1>3. TypeOK
  <2>1. groups = << >> /\ states = << >> /\ out = << >> /\ delivered = << >>
    BY DEF Init
  <2>2. /\ groups \in Seq(Keys \cup {GlobalKey}) /\ states \in Seq([DOMAIN Kinds -> State])
        /\ out \in Seq(ResultRow) /\ delivered \in Seq(ResultRow)
        /\ Len(groups) = 0 /\ Len(states) = 0 /\ Len(out) = 0 /\ DOMAIN states = {}
    BY <2>1
  <2>3. taken = 0 /\ cursor = 1 /\ consumed = FALSE /\ grouped \in BOOLEAN /\ pc = "idle" /\ verdict = "more"
    BY DEF Init
  <2>4. taken \in 0 .. Len(Rows) /\ cursor \in 1 .. Len(groups) + 1 /\ Len(out) <= Capacity
    BY <1>2, <2>2, <2>3
  <2>5. QED BY <1>1, <2>2, <2>3, <2>4 DEF TypeOK
<1>4. Described /\ EndTold
  BY DEF Init, Described, EndTold
<1>5. DrainedOnce
  BY <1>2 DEF Init, DrainedOnce
<1>6. GivenSoFar
  BY DEF Init, GivenSoFar
<1>7. QED BY <1>3, <1>4, <1>5, <1>6 DEF IInv

\* The first call begins to drain the child, with the group of a global aggregation
\* made; the others go on giving groups.
LEMMA CallIInv ==
  ASSUME IInv, Call
  PROVE  IInv'
<1>1. /\ pc = "idle" /\ out' = << >> /\ consumed' = TRUE
      /\ pc' = (IF consumed THEN "emit" ELSE "consume")
      /\ UNCHANGED <<input, grouped, taken, cursor, delivered, verdict>> /\ UNCHANGED frozen
  BY DEF Call, frozen
<1>2. /\ TypeOK /\ Described /\ DrainedOnce /\ GivenSoFar /\ EndTold
  BY DEF IInv
<1>3. /\ consumed \/ grouped => groups' = groups /\ states' = states
      /\ ~ consumed /\ ~ grouped => groups' = <<GlobalKey>> /\ states' = <<FreshRow>>
  <2>1. consumed \in BOOLEAN /\ grouped \in BOOLEAN
    BY <1>2 DEF TypeOK
  <2>2. QED BY <2>1 DEF Call
<1>4. ~ consumed => groups = << >> /\ taken = 0 /\ cursor = 1 /\ delivered = << >> /\ verdict = "more"
  BY <1>2 DEF DrainedOnce
<1>5. ASSUME ~ consumed, ~ grouped
      PROVE  /\ FreshRow \in [DOMAIN Kinds -> State]
             /\ \A a \in DOMAIN Kinds : /\ FreshRow[a] = Fresh
                                        /\ StateOK(Kinds[a], Fresh) /\ Took(Kinds[a], Fresh, GlobalKey, 0)
  <2>1. \A a \in DOMAIN Kinds : Kinds[a] \in Kind
    BY <1>2, VariableFacts, InputFacts
  <2>2. 0 \in 0 .. Len(Rows)
    BY <1>2, VariableFacts
  <2>3. \A a \in DOMAIN Kinds : StateOK(Kinds[a], Fresh) /\ Took(Kinds[a], Fresh, GlobalKey, 0)
    BY <1>2, <2>1, <2>2, VariableFacts, NothingTaken, TookFresh
  <2>4. Fresh \in State
    BY DEF Fresh, State
  <2>5. QED BY <2>3, <2>4 DEF FreshRow
<1>6. TypeOK'
  <2>1. /\ groups' \in Seq(Keys \cup {GlobalKey}) /\ states' \in Seq([DOMAIN Kinds -> State])
        /\ Len(states') = Len(groups')
        /\ \A g \in DOMAIN states' : \A a \in DOMAIN Kinds :
             IsInt \/ Counts(Kinds[a]) => InRange(states'[g][a].number)
        /\ Len(groups) <= Len(groups')
    <3>1. CASE consumed \/ grouped
      BY <1>2, <1>3, <3>1, VariableFacts DEF TypeOK
    <3>2. CASE ~ consumed /\ ~ grouped
      <4>1. groups' = <<GlobalKey>> /\ states' = <<FreshRow>> /\ groups = << >>
        BY <1>3, <1>4, <3>2
      <4>2. FreshRow \in [DOMAIN Kinds -> State]
        BY <1>5, <3>2
      <4>3. DOMAIN states' = {1} /\ states'[1] = FreshRow /\ Len(states') = 1 /\ Len(groups') = 1
            /\ Len(groups) = 0
        BY <4>1
      <4>4. groups' \in Seq(Keys \cup {GlobalKey}) /\ states' \in Seq([DOMAIN Kinds -> State])
        BY <4>1, <4>2
      <4>5. \A a \in DOMAIN Kinds : IsInt \/ Counts(Kinds[a]) => InRange(FreshRow[a].number)
        BY <1>5, <3>2 DEF StateOK
      <4>6. QED BY <4>3, <4>4, <4>5
    <3>3. QED BY <3>1, <3>2
  <2>2. cursor' \in 1 .. Len(groups') + 1
    <3>1. Len(groups') \in Nat
      BY <2>1, LenProperties
    <3>2. QED BY <1>1, <1>2, <2>1, <3>1, VariableFacts
  <2>3. out' \in Seq(ResultRow) /\ Len(out') <= Capacity
    BY <1>1, HashAggregateAssumption
  <2>4. /\ input \in Input /\ grouped \in BOOLEAN /\ taken \in 0 .. Len(Rows)
        /\ delivered \in Seq(ResultRow) /\ verdict \in {"more", "end", "threw"}
        /\ pc' \in {"idle", "consume", "emit"}
    BY <1>1, <1>2 DEF TypeOK
  <2>5. QED BY <1>1, <2>1, <2>2, <2>3, <2>4
            DEF TypeOK, Rows, Kinds, IsInt, Counts, InRange, ResultRow, State
<1>7. Described'
  <2>1. SUFFICES ASSUME verdict # "threw"
                 PROVE  /\ PlacedIn(groups', taken)
                        /\ \A g \in DOMAIN groups' : \A a \in DOMAIN Kinds :
                             Took(Kinds[a], states'[g][a], groups'[g], taken)
    BY <1>1, FrozenKept DEF Described, GroupsInOrder, PlacedIn
  <2>2. CASE consumed
    BY <1>2, <1>3, <2>1, <2>2, GroupsPlaced DEF Described
  <2>3. CASE ~ consumed /\ grouped
    <3>1. groups' = << >> /\ taken = 0 /\ Len(groups') = 0 /\ DOMAIN groups' = {}
      BY <1>3, <1>4, <2>3
    <3>2. QED BY <2>3, <3>1, NothingTaken DEF PlacedIn
  <2>4. CASE ~ consumed /\ ~ grouped
    <3>1. groups' = <<GlobalKey>> /\ states' = <<FreshRow>> /\ taken = 0
      BY <1>3, <1>4, <2>4
    <3>2. DOMAIN groups' = {1} /\ groups'[1] = GlobalKey /\ states'[1] = FreshRow
      BY <3>1
    <3>3. QED BY <1>5, <2>4, <3>1, <3>2 DEF PlacedIn
  <2>5. QED BY <1>2, <2>2, <2>3, <2>4 DEF TypeOK
<1>8. DrainedOnce'
  <2>1. ~ consumed => taken <= Len(Rows) /\ pc' = "consume"
    BY <1>1, <1>2 DEF DrainedOnce
  <2>2. consumed => pc' = "emit" /\ (verdict # "threw" => taken = Len(Rows))
    BY <1>1, <1>2 DEF DrainedOnce
  <2>3. QED BY <1>1, <1>4, <2>1, <2>2 DEF DrainedOnce, Rows
<1>9. GivenSoFar'
  <2>1. delivered' = delivered /\ cursor' = cursor /\ delivered \o << >> = delivered
    BY <1>1, <1>2, ConcatEmptySeq DEF TypeOK
  <2>2. CASE consumed
    <3>1. delivered = [g \in 1 .. cursor - 1 |-> GroupRow(g)]
      BY <1>1, <1>2 DEF GivenSoFar
    <3>2. \A g : GroupRow(g)' = GroupRow(g)
      BY <1>1, <1>3, <2>2 DEF GroupRow, Kinds, Shown
    <3>3. QED BY <1>1, <2>1, <2>2, <3>1, <3>2 DEF GivenSoFar
  <2>3. CASE ~ consumed
    <3>1. delivered' = << >> /\ cursor' = 1 /\ pc' # "emit"
      BY <1>1, <1>4, <2>3
    <3>2. QED BY <3>1 DEF GivenSoFar
  <2>4. QED BY <2>2, <2>3
<1>10. EndTold'
  BY <1>1, <1>2, <1>3, <1>4 DEF EndTold
<1>11. QED BY <1>6, <1>7, <1>8, <1>9, <1>10 DEF IInv

\* The groups with the one of the next row, which is new when no row had its key,
\* and their accumulators, which have taken the rows so far.
LEMMA GroupOfNextRow ==
  ASSUME TypeOK, Described, consumed, verdict # "threw", taken < Len(Rows),
         NEW k, k = KeyOf(Rows[taken + 1])
  PROVE  /\ GroupsWith(k) \in Seq(Keys \cup {GlobalKey})
         /\ StatesWith(k) \in Seq([DOMAIN Kinds -> State])
         /\ Len(StatesWith(k)) = Len(GroupsWith(k)) /\ Len(groups) <= Len(GroupsWith(k))
         /\ GroupOf(k) \in 1 .. Len(GroupsWith(k)) /\ GroupsWith(k)[GroupOf(k)] = k
         /\ PlacedIn(GroupsWith(k), taken + 1)
         /\ \A h \in 1 .. Len(GroupsWith(k)) :
              /\ h # GroupOf(k) => GroupsWith(k)[h] # k
              /\ \A a \in DOMAIN Kinds :
                   /\ StateOK(Kinds[a], StatesWith(k)[h][a])
                   /\ Took(Kinds[a], StatesWith(k)[h][a], GroupsWith(k)[h], taken)
<1> DEFINE gs == GroupsWith(k)
           ss == StatesWith(k)
           g == GroupOf(k)
           Good(h) == \A a \in DOMAIN Kinds : /\ StateOK(Kinds[a], ss[h][a])
                                              /\ Took(Kinds[a], ss[h][a], gs[h], taken)
<1>1. /\ InputOK /\ taken \in 0 .. Len(Rows) - 1 /\ taken + 1 \in 1 .. Len(Rows)
      /\ taken \in 0 .. Len(Rows) /\ taken + 1 \in 0 .. Len(Rows)
  BY VariableFacts
<1>2. k \in Keys \cup {GlobalKey}
  BY <1>1, InputFacts
<1>3. PlacedIn(groups, taken)
  BY GroupsPlaced DEF Described
<1>4. \A h \in 1 .. Len(groups) : \A a \in DOMAIN Kinds :
        /\ StateOK(Kinds[a], states[h][a]) /\ Took(Kinds[a], states[h][a], groups[h], taken)
  BY VariableFacts DEF Described
<1>5. PlacedIn(gs, taken + 1)
  BY <1>1, <1>3, VariableFacts, PlacedNext DEF GroupsWith
<1>6. /\ gs \in Seq(Keys \cup {GlobalKey}) /\ ss \in Seq([DOMAIN Kinds -> State])
      /\ Len(ss) = Len(gs) /\ Len(groups) <= Len(gs)
      /\ g \in 1 .. Len(gs) /\ gs[g] = k
      /\ \A h \in 1 .. Len(gs) : Good(h)
  <2>1. CASE k \in Range(groups)
    <3>1. gs = groups /\ ss = states /\ g = CHOOSE h \in DOMAIN groups : groups[h] = k
      BY <2>1 DEF GroupsWith, StatesWith, GroupOf
    <3>2. \E h \in DOMAIN groups : groups[h] = k
      BY <2>1 DEF Range
    <3>3. g \in DOMAIN groups /\ groups[g] = k
      BY <3>1, <3>2
    <3> HIDE DEF gs, ss, g
    <3>4. \A h \in 1 .. Len(gs) : Good(h)
      BY <1>4, <3>1
    <3> HIDE DEF Good
    <3>5. QED BY <3>1, <3>3, <3>4, VariableFacts
  <2>2. CASE k \notin Range(groups)
    <3>1. gs = Append(groups, k) /\ ss = Append(states, FreshRow) /\ g = Len(groups) + 1
      BY <2>2 DEF GroupsWith, StatesWith, GroupOf
    <3>2. Members(k, taken) = {}
      BY <1>1, <1>3, <2>2, VariableFacts, KeyWithoutGroup
    <3>3. \A a \in DOMAIN Kinds : /\ Kinds[a] \in Kind
                                  /\ StateOK(Kinds[a], Fresh) /\ Took(Kinds[a], Fresh, k, taken)
      <4>1. \A a \in DOMAIN Kinds : Kinds[a] \in Kind
        BY <1>1, InputFacts
      <4>2. QED BY <1>1, <3>2, <4>1, TookFresh
    <3>4. FreshRow \in [DOMAIN Kinds -> State] /\ \A a \in DOMAIN Kinds : FreshRow[a] = Fresh
      BY DEF FreshRow, Fresh, State
    <3> DEFINE N == Len(groups)
    <3>5. N \in Nat /\ Len(states) = N
      BY VariableFacts
    <3>6. /\ gs \in Seq(Keys \cup {GlobalKey}) /\ Len(gs) = N + 1
          /\ gs[N + 1] = k /\ \A h \in 1 .. N : gs[h] = groups[h]
      <4>1. groups \in Seq(Keys \cup {GlobalKey})
        BY VariableFacts
      <4>2. QED BY <1>2, <3>1, <4>1, AppendProperties
    <3>7. /\ ss \in Seq([DOMAIN Kinds -> State]) /\ Len(ss) = N + 1
          /\ ss[N + 1] = FreshRow /\ \A h \in 1 .. N : ss[h] = states[h]
      <4>1. states \in Seq([DOMAIN Kinds -> State])
        BY VariableFacts
      <4>2. QED BY <3>1, <3>4, <3>5, <4>1, AppendProperties
    <3> HIDE DEF gs, ss, g
    <3>8. \A h \in 1 .. N : Good(h)
      BY <1>4, <3>6, <3>7
    <3>9. Good(N + 1)
      BY <3>3, <3>4, <3>6, <3>7
    <3> HIDE DEF Good, N
    <3>10. \A h \in 1 .. N + 1 : h \in 1 .. N \/ h = N + 1
      BY <3>5
    <3>11. \A h \in 1 .. N + 1 : Good(h)
      BY <3>8, <3>9, <3>10
    <3>12. N + 1 \in 1 .. N + 1 /\ N <= N + 1
      BY <3>5
    <3>13. QED BY <3>1, <3>6, <3>7, <3>11, <3>12 DEF N
  <2>3. QED BY <2>1, <2>2
<1>7. \A h \in 1 .. Len(gs) : h # g => gs[h] # k
  <2>1. \A x, y \in DOMAIN gs : gs[x] = gs[y] => x = y
    BY <1>1, <1>5, <1>6, PlacedKeys
  <2>2. DOMAIN gs = 1 .. Len(gs)
    BY <1>6, LenProperties
  <2>3. QED BY <1>6, <2>1, <2>2
<1>8. QED BY <1>5, <1>6, <1>7

\* The accumulators of a group after a row: all of them, unless a COUNT is full.
LEMMA RowAccumulated ==
  ASSUME InputOK, NEW i \in 1 .. Len(Rows), NEW row, \A a \in DOMAIN Kinds : StateOK(Kinds[a], row[a])
  PROVE  /\ AccumulateRow(row, Rows[i].value) \in [DOMAIN Kinds -> State]
         /\ \A a \in DOMAIN Kinds :
              /\ StateOK(Kinds[a], AccumulateRow(row, Rows[i].value)[a])
              /\ Overflowing(row, Rows[i].value) = {} =>
                   AccumulateRow(row, Rows[i].value)[a] = Accumulate(Kinds[a], row[a], Rows[i].value)
<1> DEFINE v == Rows[i].value
           after == AccumulateRow(row, v)
<1>1. \A a \in DOMAIN Kinds :
        after[a] = IF \E f \in Overflowing(row, v) : f < a THEN row[a] ELSE Accumulate(Kinds[a], row[a], v)
  BY DEF AccumulateRow
<1>2. after = [a \in DOMAIN Kinds |-> after[a]]
  BY DEF AccumulateRow
<1> HIDE DEF after
<1>3. \A a \in DOMAIN Kinds : StateOK(Kinds[a], Accumulate(Kinds[a], row[a], v))
  <2>1. \A a \in DOMAIN Kinds : Kinds[a] \in Kind
    BY InputFacts
  <2>2. QED BY <2>1, AccumulateKeepsType
<1>4. \A a \in DOMAIN Kinds : StateOK(Kinds[a], after[a])
  BY <1>1, <1>3
<1>5. \A a \in DOMAIN Kinds : after[a] \in State
  BY <1>4 DEF StateOK
<1>6. after \in [DOMAIN Kinds -> State]
  BY <1>2, <1>5
<1>7. Overflowing(row, v) = {} =>
        \A a \in DOMAIN Kinds : after[a] = Accumulate(Kinds[a], row[a], v)
  BY <1>1
<1>8. QED BY <1>4, <1>6, <1>7 DEF after

\* While the child is drained nothing has been given, and nothing threw.
LEMMA WhileDraining ==
  ASSUME IInv, pc = "consume"
  PROVE  /\ TypeOK /\ Described /\ DrainedOnce
         /\ consumed /\ verdict = "more" /\ cursor = 1 /\ delivered = << >> /\ out = << >>
  BY DEF IInv, DrainedOnce

\* What is given stays given when the groups change before the first is.
LEMMA NothingGiven ==
  ASSUME cursor' = 1, delivered' = << >>, pc' # "emit" \/ out' = << >>
  PROVE  GivenSoFar'
<1>1. (IF pc' = "emit" THEN delivered' \o out' ELSE delivered') = << >>
  <2>1. << >> \o << >> = << >>
    OBVIOUS
  <2>2. QED BY <2>1
<1>2. [g \in 1 .. cursor' - 1 |-> GroupRow(g)'] = << >>
  OBVIOUS
<1>3. QED BY <1>1, <1>2 DEF GivenSoFar

\* The groups and accumulators after a row.
LEMMA ConsumeRowEffect ==
  ASSUME IInv, ConsumeRow, NEW k, k = KeyOf(Rows[taken + 1])
  PROVE  /\ groups' = GroupsWith(k) /\ Len(states') = Len(groups')
         /\ states' \in Seq([DOMAIN Kinds -> State])
         /\ \A h \in 1 .. Len(groups') : \A a \in DOMAIN Kinds :
              /\ StateOK(Kinds[a], states'[h][a])
              /\ Overflowing(StatesWith(k)[GroupOf(k)], Rows[taken + 1].value) = {} =>
                   Took(Kinds[a], states'[h][a], groups'[h], taken + 1)
<1> DEFINE gs == GroupsWith(k)
           ss == StatesWith(k)
           g == GroupOf(k)
           v == Rows[taken + 1].value
           after == AccumulateRow(ss[g], v)
           none == Overflowing(ss[g], v) = {}
<1>1. /\ pc = "consume" /\ taken < Len(Rows) /\ groups' = gs
      /\ states' = [ss EXCEPT ![g] = after]
  BY DEF ConsumeRow
<1>2. TypeOK /\ Described /\ consumed /\ verdict # "threw" /\ InputOK
      /\ taken \in 0 .. Len(Rows) - 1 /\ taken + 1 \in 1 .. Len(Rows)
  BY <1>1, WhileDraining, VariableFacts
<1>3. /\ gs \in Seq(Keys \cup {GlobalKey}) /\ ss \in Seq([DOMAIN Kinds -> State])
      /\ Len(ss) = Len(gs) /\ g \in 1 .. Len(gs) /\ gs[g] = k
      /\ \A h \in 1 .. Len(gs) :
              /\ h # g => gs[h] # k
              /\ \A a \in DOMAIN Kinds :
                   StateOK(Kinds[a], ss[h][a]) /\ Took(Kinds[a], ss[h][a], gs[h], taken)
  BY <1>1, <1>2, GroupOfNextRow
<1>4. /\ after \in [DOMAIN Kinds -> State]
      /\ \A a \in DOMAIN Kinds : /\ StateOK(Kinds[a], after[a])
                                 /\ none => after[a] = Accumulate(Kinds[a], ss[g][a], v)
  BY <1>2, <1>3, RowAccumulated
<1>5. \A a \in DOMAIN Kinds : Kinds[a] \in Kind
  BY <1>2, InputFacts
<1>6. ASSUME none, NEW a \in DOMAIN Kinds PROVE Took(Kinds[a], after[a], k, taken + 1)
  <2>1. Kinds[a] = "rows" \/ (Kinds[a] = "count" /\ v # Null) => ss[g][a].number # MaxInt
    BY <1>6 DEF Overflowing, CountFull
  <2>2. StateOK(Kinds[a], ss[g][a]) /\ Took(Kinds[a], ss[g][a], k, taken)
    BY <1>3
  <2> DEFINE kind == Kinds[a]
             s == ss[g][a]
             n == taken
  <2>3. kind \in Kind /\ n \in 0 .. Len(Rows) - 1 /\ KeyOf(Rows[n + 1]) = k
    BY <1>2, <1>5
  <2>4. kind = "rows" \/ (kind = "count" /\ Rows[n + 1].value # Null) => s.number # MaxInt
    BY <2>1
  <2>5. StateOK(kind, s) /\ Took(kind, s, k, n)
    BY <2>2
  <2>6. after[a] = Accumulate(kind, s, Rows[n + 1].value)
    BY <1>4, <1>6
  <2> HIDE DEF kind, s, n, after, none, ss, g
  <2>7. Took(kind, Accumulate(kind, s, Rows[n + 1].value), k, n + 1)
    BY <1>2, <2>3, <2>4, <2>5, TookNext
  <2>8. QED BY <2>6, <2>7 DEF kind, n
<1>7. ASSUME NEW h \in 1 .. Len(gs), h # g, NEW a \in DOMAIN Kinds
      PROVE  Took(Kinds[a], ss[h][a], gs[h], taken + 1)
  <2>1. Took(Kinds[a], ss[h][a], gs[h], taken) /\ gs[h] # k
    BY <1>3, <1>7
  <2>2. Kinds[a] \in Kind
    BY <1>5
  <2>3. QED BY <1>2, <2>1, <2>2, TookOther
<1>8. DOMAIN ss = 1 .. Len(gs) /\ Len(gs) \in Nat
  BY <1>3, LenProperties
<1> HIDE DEF gs, ss, g, v, after, none
<1>9. /\ states' \in Seq([DOMAIN Kinds -> State]) /\ Len(states') = Len(gs)
      /\ states'[g] = after /\ \A h \in 1 .. Len(gs) : h # g => states'[h] = ss[h]
  <2>1. g \in 1 .. Len(ss)
    BY <1>3
  <2>2. states' \in Seq([DOMAIN Kinds -> State]) /\ Len(states') = Len(ss)
    BY <1>1, <1>3, <1>4, <2>1, ExceptSeq
  <2>3. QED BY <1>1, <1>3, <1>8, <2>2
<1>10. \A h \in 1 .. Len(gs) : \A a \in DOMAIN Kinds : StateOK(Kinds[a], states'[h][a])
  BY <1>3, <1>4, <1>9
<1>11. none => \A h \in 1 .. Len(gs) : \A a \in DOMAIN Kinds :
                 Took(Kinds[a], states'[h][a], gs[h], taken + 1)
  BY <1>3, <1>6, <1>7, <1>9
<1>12. QED BY <1>1, <1>9, <1>10, <1>11 DEF gs, ss, g, v, none

\* A row goes to its group; a COUNT without room throws.
LEMMA ConsumeRowIInv ==
  ASSUME IInv, ConsumeRow
  PROVE  IInv'
<1> DEFINE k == KeyOf(Rows[taken + 1])
           none == Overflowing(StatesWith(k)[GroupOf(k)], Rows[taken + 1].value) = {}
<1>1. /\ pc = "consume" /\ taken < Len(Rows) /\ taken' = taken + 1
      /\ UNCHANGED <<input, grouped, consumed, cursor, out, delivered>> /\ UNCHANGED frozen
      /\ none => pc' = pc /\ verdict' = verdict
      /\ ~ none => pc' = "idle" /\ verdict' = "threw"
  BY DEF ConsumeRow, frozen
<1>2. TypeOK /\ Described /\ consumed /\ verdict = "more" /\ cursor = 1 /\ delivered = << >>
      /\ out = << >>
  BY <1>1, WhileDraining
<1>3. /\ groups' = GroupsWith(k) /\ Len(states') = Len(groups')
      /\ states' \in Seq([DOMAIN Kinds -> State])
      /\ \A h \in 1 .. Len(groups') : \A a \in DOMAIN Kinds :
           /\ StateOK(Kinds[a], states'[h][a])
           /\ none => Took(Kinds[a], states'[h][a], groups'[h], taken + 1)
  BY ConsumeRowEffect
<1>4. /\ GroupsWith(k) \in Seq(Keys \cup {GlobalKey}) /\ PlacedIn(GroupsWith(k), taken + 1)
      /\ Len(groups) <= Len(GroupsWith(k))
  BY <1>1, <1>2, GroupOfNextRow
<1> HIDE DEF k, none
<1>5. Len(groups') \in Nat /\ DOMAIN groups' = 1 .. Len(groups') /\ DOMAIN states' = 1 .. Len(groups')
  BY <1>3, <1>4, LenProperties
<1>6. TypeOK'
  <2>1. \A h \in DOMAIN states' : \A a \in DOMAIN Kinds :
          IsInt \/ Counts(Kinds[a]) => InRange(states'[h][a].number)
    BY <1>3, <1>5 DEF StateOK
  <2>2. cursor' \in 1 .. Len(groups') + 1 /\ taken' \in 0 .. Len(Rows)
    BY <1>1, <1>2, <1>5, VariableFacts
  <2>3. /\ input \in Input /\ grouped \in BOOLEAN /\ consumed \in BOOLEAN
        /\ out \in Seq(ResultRow) /\ Len(out) <= Capacity /\ delivered \in Seq(ResultRow)
    BY <1>2 DEF TypeOK
  <2>4. pc' \in {"idle", "consume", "emit"} /\ verdict' \in {"more", "end", "threw"}
    BY <1>1, <1>2
  <2>5. groups' \in Seq(Keys \cup {GlobalKey})
    BY <1>3, <1>4
  <2>6. QED BY <1>1, <1>3, <2>1, <2>2, <2>3, <2>4, <2>5
            DEF TypeOK, Rows, Kinds, IsInt, Counts, InRange, ResultRow, State
<1>7. Described'
  <2>1. SUFFICES ASSUME verdict' # "threw"
                 PROVE  /\ PlacedIn(groups', taken')
                        /\ \A g \in DOMAIN groups' : \A a \in DOMAIN Kinds :
                             Took(Kinds[a], states'[g][a], groups'[g], taken')
    BY <1>1, FrozenKept DEF Described, GroupsInOrder, PlacedIn
  <2>2. none
    BY <1>1, <2>1
  <2>3. QED BY <1>1, <1>3, <1>4, <1>5, <2>2
<1>8. DrainedOnce'
  <2>1. pc' = "idle" \/ pc' = "consume"
    BY <1>1
  <2>2. taken' <= Len(Rows)
    BY <1>1, <1>2, VariableFacts
  <2>3. verdict' = "threw" \/ (pc' = "consume" /\ verdict' = "more")
    BY <1>1, <1>2
  <2>4. QED BY <1>1, <1>2, <2>1, <2>2, <2>3 DEF DrainedOnce, Rows
<1>9. GivenSoFar'
  BY <1>1, <1>2, NothingGiven
<1>10. EndTold'
  BY <1>1, <1>2 DEF EndTold
<1>11. QED BY <1>6, <1>7, <1>8, <1>9, <1>10 DEF IInv

\* The child is drained.
LEMMA ConsumeDoneIInv ==
  ASSUME IInv, ConsumeDone
  PROVE  IInv'
<1>1. /\ pc = "consume" /\ taken = Len(Rows) /\ pc' = "emit"
      /\ UNCHANGED <<input, grouped, consumed, taken, groups, states, cursor, out, delivered, verdict>>
      /\ UNCHANGED frozen
  BY DEF ConsumeDone, frozen
<1>2. TypeOK /\ Described /\ consumed /\ verdict = "more" /\ cursor = 1 /\ delivered = << >>
      /\ DrainedOnce /\ out = << >>
  BY <1>1, WhileDraining
<1>3. TypeOK'
  BY <1>1, <1>2 DEF TypeOK, Rows, Kinds, IsInt, Counts, InRange, ResultRow, State
<1>4. Described'
  BY <1>1, <1>2, FrozenKept, GroupsPlaced DEF Described, GroupsInOrder, PlacedIn
<1>5. DrainedOnce'
  BY <1>1, <1>2 DEF DrainedOnce, Rows
<1>6. GivenSoFar'
  BY <1>1, <1>2, NothingGiven
<1>7. EndTold'
  BY <1>1, <1>2 DEF EndTold
<1>8. QED BY <1>3, <1>4, <1>5, <1>6, <1>7 DEF IInv

\* The keys or the child throw.
LEMMA ThrowIInv ==
  ASSUME IInv, KeyThrow \/ ChildThrow
  PROVE  IInv'
<1>1. /\ pc = "consume" /\ pc' = "idle" /\ verdict' = "threw"
      /\ UNCHANGED <<input, grouped, consumed, groups, states, cursor, out, delivered>>
      /\ taken' = taken \/ (taken < Len(Rows) /\ taken' = taken + 1)
  BY DEF KeyThrow, ChildThrow, frozen
<1>2. TypeOK /\ consumed /\ cursor = 1 /\ delivered = << >>
  BY <1>1, WhileDraining
<1>3. taken' \in 0 .. Len(Rows)
  BY <1>1, <1>2, VariableFacts
<1>4. TypeOK'
  BY <1>1, <1>2, <1>3 DEF TypeOK, Rows, Kinds, IsInt, Counts, InRange, ResultRow, State
<1>5. Described' /\ EndTold'
  BY <1>1 DEF Described, EndTold
<1>6. DrainedOnce'
  BY <1>1, <1>2 DEF DrainedOnce, Rows
<1>7. GivenSoFar'
  BY <1>1, <1>2, NothingGiven
<1>8. QED BY <1>4, <1>5, <1>6, <1>7 DEF IInv

\* What a group gives is a row of the result.
LEMMA GroupRowType ==
  ASSUME TypeOK, NEW g \in 1 .. Len(groups)
  PROVE  GroupRow(g) \in ResultRow
<1>1. groups[g] \in Keys \cup {GlobalKey} /\ \A a \in DOMAIN Kinds : StateOK(Kinds[a], states[g][a])
  BY VariableFacts
<1>2. \A a \in DOMAIN Kinds : Shown(Kinds[a], states[g][a]) \in Int \cup {NaN, Null}
  BY <1>1 DEF Shown, StateOK, State
<1> DEFINE values == [a \in DOMAIN Kinds |-> Shown(Kinds[a], states[g][a])]
<1>3. values \in [DOMAIN Kinds -> Int \cup {NaN, Null}]
  BY <1>2
<1>4. GroupRow(g) = [key |-> groups[g], values |-> values]
  BY DEF GroupRow
<1> HIDE DEF values
<1>5. QED BY <1>1, <1>3, <1>4 DEF ResultRow

\* The rows given so far are as many as the cursor has passed.
LEMMA GivenGroups ==
  ASSUME IInv
  PROVE  /\ Len(delivered) + (IF pc = "emit" THEN Len(out) ELSE 0) = cursor - 1
         /\ Len(delivered) <= cursor - 1
         /\ \A i \in 1 .. Len(delivered) : delivered[i] = GroupRow(i)
<1> DEFINE rest == IF pc = "emit" THEN out ELSE << >>
           more == IF pc = "emit" THEN Len(out) ELSE 0
           given == delivered \o rest
           row(g) == GroupRow(g)
<1>1. /\ delivered \in Seq(ResultRow) /\ rest \in Seq(ResultRow) /\ Len(rest) = more /\ more \in Nat
      /\ Len(delivered) \in Nat /\ cursor \in Nat /\ 1 <= cursor
  <2>1. << >> \in Seq(ResultRow) /\ Len(<< >>) = 0
    BY EmptySeq
  <2>2. delivered \in Seq(ResultRow) /\ out \in Seq(ResultRow)
    BY DEF IInv, TypeOK
  <2>3. QED BY <2>1, <2>2, VariableFacts DEF IInv
<1>2. given = [g \in 1 .. cursor - 1 |-> row(g)]
  <2>1. delivered \o << >> = delivered
    BY <1>1, ConcatEmptySeq
  <2>2. QED BY <2>1 DEF IInv, GivenSoFar
<1> HIDE DEF rest, more, row
<1>3. /\ given \in Seq(ResultRow) /\ Len(given) = Len(delivered) + more
      /\ \A i \in 1 .. Len(delivered) + more :
           given[i] = IF i <= Len(delivered) THEN delivered[i] ELSE rest[i - Len(delivered)]
  BY <1>1, ConcatProperties
<1>4. DOMAIN given = 1 .. Len(delivered) + more
  BY <1>3, LenProperties
<1>5. DOMAIN given = 1 .. cursor - 1 /\ \A i \in 1 .. cursor - 1 : given[i] = row(i)
  BY <1>2
<1>6. Len(delivered) + more = cursor - 1
  <2> DEFINE x == Len(delivered) + more
             y == cursor - 1
  <2>1. x \in Nat /\ y \in Nat /\ 1 .. x = 1 .. y
    BY <1>1, <1>4, <1>5
  <2> HIDE DEF x, y
  <2>2. x <= y
    <3>1. x = 0 \/ x \in 1 .. y
      BY <2>1
    <3>2. QED BY <2>1, <3>1
  <2>3. y <= x
    <3>1. y = 0 \/ y \in 1 .. x
      BY <2>1
    <3>2. QED BY <2>1, <3>1
  <2>4. x = y
    BY <2>1, <2>2, <2>3
  <2>5. QED BY <2>4 DEF x, y
<1>7. Len(delivered) <= cursor - 1
  BY <1>1, <1>6
<1>8. \A i \in 1 .. Len(delivered) : delivered[i] = row(i)
  <2> SUFFICES ASSUME NEW i \in 1 .. Len(delivered) PROVE delivered[i] = row(i)
    OBVIOUS
  <2>1. i \in 1 .. cursor - 1 /\ i \in 1 .. Len(delivered) + more /\ i <= Len(delivered)
    BY <1>1, <1>6, <1>7
  <2>2. QED BY <1>3, <1>5, <2>1
<1>9. QED BY <1>6, <1>7, <1>8 DEF more, row

\* The next group goes into the batch.
LEMMA EmitGroupIInv ==
  ASSUME IInv, EmitGroup
  PROVE  IInv'
<1>1. /\ pc = "emit" /\ cursor <= Len(groups) /\ Len(out) < Capacity
      /\ out' = Append(out, GroupRow(cursor)) /\ cursor' = cursor + 1
      /\ UNCHANGED <<input, grouped, consumed, taken, groups, states, pc, delivered, verdict>>
      /\ UNCHANGED frozen
  BY DEF EmitGroup, frozen
<1>2. TypeOK /\ Described /\ DrainedOnce /\ GivenSoFar /\ EndTold
  BY DEF IInv
<1>3. cursor \in 1 .. Len(groups) /\ GroupRow(cursor) \in ResultRow
  <2>1. cursor \in 1 .. Len(groups)
    BY <1>1, <1>2, VariableFacts
  <2>2. QED BY <1>2, <2>1, GroupRowType
<1>4. /\ delivered \in Seq(ResultRow) /\ out \in Seq(ResultRow)
      /\ out' \in Seq(ResultRow) /\ Len(out') = Len(out) + 1
  <2>1. delivered \in Seq(ResultRow) /\ out \in Seq(ResultRow)
    BY <1>2 DEF TypeOK
  <2>2. QED BY <1>1, <1>3, <2>1, AppendProperties
<1>5. TypeOK'
  <2>1. cursor' \in 1 .. Len(groups) + 1 /\ Len(out') <= Capacity
    BY <1>1, <1>2, <1>3, <1>4, VariableFacts
  <2>2. QED BY <1>1, <1>2, <1>4, <2>1
            DEF TypeOK, Rows, Kinds, IsInt, Counts, InRange, ResultRow, State
<1>6. Described'
  BY <1>1, <1>2, FrozenKept, GroupsPlaced DEF Described, GroupsInOrder, PlacedIn
<1>7. DrainedOnce'
  BY <1>1, <1>2 DEF DrainedOnce, Rows
<1>8. GivenSoFar'
  <2> DEFINE row(g) == GroupRow(g)
             given == delivered \o out
             c == cursor
             next == Append(given, row(c))
  <2>1. given = [g \in 1 .. c - 1 |-> row(g)]
    BY <1>1, <1>2 DEF GivenSoFar
  <2>2. given \in Seq(ResultRow) /\ Len(given) = c - 1
    <3>1. Len(given) = Len(delivered) + Len(out)
      BY <1>4, ConcatProperties
    <3>2. QED BY <1>1, <1>4, <3>1, ConcatProperties, GivenGroups
  <2>3. c \in Nat /\ 1 <= c /\ row(c) \in ResultRow
    BY <1>2, <1>3, VariableFacts
  <2>4. delivered \o out' = next
    <3>1. <<row(c)>> \in Seq(ResultRow)
      BY <1>3
    <3>2. out' = out \o <<row(c)>>
      BY <1>1, <1>3, <1>4, AppendIsConcat
    <3>3. next = given \o <<row(c)>>
      BY <2>2, <2>3, AppendIsConcat
    <3>4. QED BY <1>4, <3>1, <3>2, <3>3, ConcatAssociative
  <2>5. \A g : GroupRow(g)' = GroupRow(g)
    BY <1>1 DEF GroupRow, Kinds, Shown
  <2> HIDE DEF row, given, c
  <2>6. /\ next \in Seq(ResultRow) /\ Len(next) = (c - 1) + 1
        /\ next[(c - 1) + 1] = row(c) /\ \A i \in 1 .. c - 1 : next[i] = given[i]
    BY <2>2, <2>3, AppendProperties
  <2>7. DOMAIN next = 1 .. c /\ next = [i \in DOMAIN next |-> next[i]]
    <3>1. Len(next) = c
      BY <2>3, <2>6
    <3>2. next \in [1 .. Len(next) -> ResultRow]
      BY <2>6, LenProperties
    <3> HIDE DEF next
    <3>3. QED BY <3>1, <3>2
  <2> HIDE DEF next
  <2>8. \A i \in 1 .. c : next[i] = row(i)
    <3>1. \A i \in 1 .. c : i \in 1 .. c - 1 \/ i = c
      BY <2>3
    <3>2. (c - 1) + 1 = c
      BY <2>3
    <3>3. QED BY <2>1, <2>6, <3>1, <3>2
  <2>9. next = [g \in 1 .. c |-> row(g)]
    BY <2>7, <2>8
  <2>10. cursor' - 1 = c
    BY <1>1, <2>3 DEF c
  <2>11. QED BY <1>1, <2>4, <2>5, <2>9, <2>10 DEF GivenSoFar, row
<1>9. EndTold'
  <2>1. verdict # "end"
    BY <1>1, <1>2, VariableFacts DEF EndTold
  <2>2. QED BY <1>1, <2>1 DEF EndTold
<1>10. QED BY <1>5, <1>6, <1>7, <1>8, <1>9 DEF IInv

\* The batch is handed over, or the end is told.
LEMMA ReturnIInv ==
  ASSUME IInv, Return
  PROVE  IInv'
<1>1. /\ pc = "emit" /\ (Len(out) = Capacity \/ cursor > Len(groups)) /\ pc' = "idle"
      /\ delivered' = delivered \o out
      /\ verdict' = IF out = << >> /\ verdict = "more" THEN "end" ELSE verdict
      /\ UNCHANGED <<input, grouped, consumed, taken, groups, states, cursor, out>>
      /\ UNCHANGED frozen
  BY DEF Return, frozen, Told, Stops
<1>2. TypeOK /\ Described /\ DrainedOnce /\ GivenSoFar /\ EndTold
  BY DEF IInv
<1>3. consumed
  BY <1>1, <1>2 DEF DrainedOnce
<1>4. delivered \o out \in Seq(ResultRow)
  <2>1. delivered \in Seq(ResultRow) /\ out \in Seq(ResultRow)
    BY <1>2 DEF TypeOK
  <2>2. QED BY <2>1, ConcatProperties
<1>5. verdict' \in {"more", "end", "threw"} /\ (verdict' = "threw" <=> verdict = "threw")
      /\ (verdict' = "end" => verdict = "end" \/ out = << >>)
  BY <1>1, <1>2 DEF TypeOK
<1>6. TypeOK'
  BY <1>1, <1>2, <1>4, <1>5 DEF TypeOK, Rows, Kinds, IsInt, Counts, InRange, ResultRow, State
<1>7. Described'
  <2>1. SUFFICES ASSUME verdict' # "threw"
                 PROVE  /\ PlacedIn(groups', taken')
                        /\ \A g \in DOMAIN groups' : \A a \in DOMAIN Kinds :
                             Took(Kinds[a], states'[g][a], groups'[g], taken')
    <3>1. UNCHANGED frozen /\ consumed' = consumed
      BY <1>1
    <3>2. QED BY <3>1, FrozenKept DEF Described, GroupsInOrder, PlacedIn
  <2>2. verdict # "threw"
    BY <1>5, <2>1
  <2>3. QED BY <1>1, <1>2, <1>3, <2>2, GroupsPlaced DEF Described
<1>8. DrainedOnce'
  BY <1>1, <1>2, <1>3, <1>5 DEF DrainedOnce, Rows
<1>9. GivenSoFar'
  <2>1. \A g : GroupRow(g)' = GroupRow(g)
    BY <1>1 DEF GroupRow, Kinds, Shown
  <2>2. QED BY <1>1, <1>2, <2>1 DEF GivenSoFar
<1>10. EndTold'
  <2>1. ASSUME out = << >> PROVE cursor = Len(groups) + 1
    <3>1. Len(out) = 0
      BY <2>1
    <3>2. QED BY <1>1, <1>2, <3>1, VariableFacts
  <2>2. QED BY <1>1, <1>2, <1>3, <1>5, <2>1 DEF EndTold
<1>11. QED BY <1>6, <1>7, <1>8, <1>9, <1>10 DEF IInv

\* Every step keeps it.
LEMMA NextIInv ==
  ASSUME IInv, [Next]_vars
  PROVE  IInv'
<1>1. CASE Next
  BY <1>1, CallIInv, ConsumeRowIInv, ConsumeDoneIInv, ThrowIInv, EmitGroupIInv, ReturnIInv
     DEF Next, Work
<1>2. CASE UNCHANGED vars
  <2>1. /\ UNCHANGED <<input, grouped, consumed, taken, groups, states, cursor, pc, out, delivered, verdict>>
        /\ UNCHANGED frozen
    BY <1>2 DEF vars, frozen
  <2>2. TypeOK'
    BY <2>1 DEF IInv, TypeOK, Rows, Kinds, IsInt, Counts, InRange, ResultRow, State
  <2>3. Described'
    <3>1. Described
      BY DEF IInv
    <3>2. QED BY <2>1, <3>1, FrozenKept, GroupsPlaced DEF Described, GroupsInOrder, PlacedIn
  <2>4. DrainedOnce' /\ EndTold'
    BY <2>1 DEF IInv, DrainedOnce, EndTold, Rows
  <2>5. GivenSoFar'
    <3>1. \A g : GroupRow(g)' = GroupRow(g)
      BY <2>1 DEF GroupRow, Kinds, Shown
    <3>2. QED BY <2>1, <3>1 DEF IInv, GivenSoFar
  <2>6. QED BY <2>2, <2>3, <2>4, <2>5 DEF IInv
<1>3. QED BY <1>1, <1>2

-----------------------------------------------------------------------------
\* What the runs check.

\* The accumulators show what SQL says.
LEMMA ExactStates ==
  ASSUME IInv
  PROVE  StatesExact
<1> SUFFICES ASSUME pc = "consume"
             PROVE  /\ Range(groups) = KeysUpTo(taken)
                    /\ \A g, h \in DOMAIN groups : groups[g] = groups[h] => g = h
                    /\ \A g \in DOMAIN groups : \A a \in DOMAIN Kinds :
                         Shown(Kinds[a], states[g][a]) = Reference(Kinds[a], groups[g], taken)
  BY DEF StatesExact
<1>1. TypeOK /\ Described /\ consumed /\ verdict # "threw" /\ InputOK /\ taken \in 0 .. Len(Rows)
      /\ groups \in Seq(Keys \cup {GlobalKey})
  BY WhileDraining, VariableFacts
<1>2. PlacedIn(groups, taken)
  BY <1>1, GroupsPlaced DEF Described
<1>3. ASSUME NEW g \in DOMAIN groups, NEW a \in DOMAIN Kinds
      PROVE  Shown(Kinds[a], states[g][a]) = Reference(Kinds[a], groups[g], taken)
  <2>1. Took(Kinds[a], states[g][a], groups[g], taken)
    BY <1>1 DEF Described
  <2>2. StateOK(Kinds[a], states[g][a])
    BY <1>1, VariableFacts
  <2>3. Kinds[a] \in Kind
    BY <1>1, InputFacts
  <2>4. QED BY <1>1, <2>1, <2>2, <2>3, ShownIsReference
<1>4. QED BY <1>1, <1>2, <1>3, PlacedKeys

\* A COUNT throws exactly when it would pass the largest integer.
LEMMA CountThrows ==
  ASSUME IInv, ConsumeRow
  PROVE  verdict' = "threw" <=>
           \E a \in DOMAIN Kinds : /\ Counts(Kinds[a])
                                   /\ Reference(Kinds[a], KeyOf(Rows[taken']), taken') > MaxInt
<1> DEFINE k == KeyOf(Rows[taken + 1])
           row == StatesWith(k)[GroupOf(k)]
           v == Rows[taken + 1].value
           full == Overflowing(row, v)
<1>1. /\ pc = "consume" /\ taken < Len(Rows) /\ taken' = taken + 1
      /\ full = {} => verdict' = verdict
      /\ full # {} => verdict' = "threw"
  BY DEF ConsumeRow
<1>2. TypeOK /\ Described /\ consumed /\ verdict = "more" /\ InputOK /\ taken \in Nat
  BY <1>1, WhileDraining, VariableFacts
<1>3. \A a \in DOMAIN Kinds : StateOK(Kinds[a], row[a]) /\ Took(Kinds[a], row[a], k, taken)
  BY <1>1, <1>2, GroupOfNextRow
<1>4. ASSUME NEW a \in DOMAIN Kinds
      PROVE  a \in full <=> Counts(Kinds[a]) /\ Reference(Kinds[a], k, taken + 1) > MaxInt
  <2> DEFINE x == row[a].number
             members == Cardinality(Members(k, taken))
             valued == Cardinality(Valued(k, taken))
  <2>1. a \in full <=> /\ \/ Kinds[a] = "rows"
                          \/ Kinds[a] = "count" /\ v # Null
                       /\ x = MaxInt
    BY DEF Overflowing, CountFull
  <2>2. Counts(Kinds[a]) => x = Reference(Kinds[a], k, taken) /\ InRange(x)
    BY <1>3 DEF Took, StateOK
  <2>3. members \in Nat /\ valued \in Nat /\ MaxInt \in Nat
    BY <1>2, GroupFinite, HashAggregateAssumption
  <2>4. /\ Cardinality(Members(k, taken + 1)) = members + 1
        /\ v # Null => Cardinality(Valued(k, taken + 1)) = valued + 1
        /\ v = Null => Cardinality(Valued(k, taken + 1)) = valued
    BY <1>2, CountStep, GroupStep
  <2>5. Counts(Kinds[a]) <=> Kinds[a] \in {"rows", "count"}
    BY DEF Counts
  <2> HIDE DEF row, full, v, k
  <2>6. CASE Kinds[a] = "rows"
    <3>1. x = members /\ Reference(Kinds[a], k, taken + 1) = members + 1
      BY <2>2, <2>4, <2>6, CountReference
    <3>2. x <= MaxInt
      BY <2>2, <2>3, <2>5, <2>6, <3>1 DEF InRange
    <3> HIDE DEF x, members, valued
    <3>3. QED BY <2>1, <2>3, <2>5, <2>6, <3>1, <3>2
  <2>7. CASE Kinds[a] = "count"
    <3>1. x = valued /\ Reference(Kinds[a], k, taken + 1) = IF v = Null THEN valued ELSE valued + 1
      BY <2>2, <2>4, <2>7, CountReference
    <3>2. x <= MaxInt
      BY <2>2, <2>3, <2>5, <2>7, <3>1 DEF InRange
    <3> HIDE DEF x, members, valued
    <3>3. QED BY <2>1, <2>3, <2>5, <2>7, <3>1, <3>2
  <2>8. CASE Kinds[a] \notin {"rows", "count"}
    BY <2>1, <2>5, <2>8
  <2>9. QED BY <2>6, <2>7, <2>8
<1>5. full \subseteq DOMAIN Kinds
  BY DEF Overflowing
<1> HIDE DEF full, k
<1>6. verdict' = "threw" <=> full # {}
  BY <1>1, <1>2
<1>7. full # {} <=> \E a \in DOMAIN Kinds : Counts(Kinds[a]) /\ Reference(Kinds[a], k, taken + 1) > MaxInt
  BY <1>4, <1>5
<1>8. QED BY <1>1, <1>6, <1>7 DEF k

\* The inductive invariant of the aggregation, for every input and width.
THEOREM AggregateInvariance == Spec => []IInv
<1>1. Init => IInv
  BY InitIInv
<1>2. IInv /\ [Next]_vars => IInv'
  BY NextIInv
<1>3. QED BY <1>1, <1>2, PTL DEF Spec

\* Every accumulator shows the SQL value of its group after every row consumed
\* (blocking.cpp, consume): NULLs do not count, NaN is last, a SUM that left the
\* integers stays NULL.
THEOREM AggregateStatesExact == Spec => []StatesExact
<1>1. IInv => StatesExact
  BY ExactStates
<1>2. QED BY <1>1, AggregateInvariance, PTL

\* "COUNT overflow" is thrown for the row that has no room, and for no other.
THEOREM AggregateCountThrows == Spec => CountThrowsAtTheLimit
<1>1. IInv /\ [Next]_vars =>
        [pc = "consume" /\ ConsumeRow =>
           (verdict' = "threw" <=>
              \E a \in DOMAIN Kinds : /\ Counts(Kinds[a])
                                      /\ Reference(Kinds[a], KeyOf(Rows[taken']), taken') > MaxInt)]_vars
  BY CountThrows
<1>2. QED BY <1>1, AggregateInvariance, PTL DEF Spec, CountThrowsAtTheLimit

-----------------------------------------------------------------------------
\* The aggregation implements the pull contract.

\* A sequence whose elements another one has at the same places is its prefix.
LEMMA PrefixByElement ==
  ASSUME NEW S, NEW s \in Seq(S), NEW t \in Seq(S), Len(s) <= Len(t),
         \A i \in 1 .. Len(s) : s[i] = t[i]
  PROVE  IsPrefix(s, t)
<1> DEFINE n == Len(s)
<1>1. n \in Nat /\ Len(t) \in Nat
  BY LenProperties
<1>2. \A i \in 1 .. n : s[i] \in S /\ t[i] \in S
  <2>1. \A i \in 1 .. n : i \in 1 .. Len(t)
    BY <1>1
  <2>2. QED BY <2>1, ElementOfSeq
<1> HIDE DEF n
<1>3. /\ SubSeq(s, 1, n) \in Seq(S) /\ Len(SubSeq(s, 1, n)) = IF 1 <= n THEN n - 1 + 1 ELSE 0
      /\ \A i \in 1 .. n - 1 + 1 : SubSeq(s, 1, n)[i] = s[1 + i - 1]
  BY <1>1, <1>2, SubSeqProperties
<1>4. /\ SubSeq(t, 1, n) \in Seq(S) /\ Len(SubSeq(t, 1, n)) = IF 1 <= n THEN n - 1 + 1 ELSE 0
      /\ \A i \in 1 .. n - 1 + 1 : SubSeq(t, 1, n)[i] = t[1 + i - 1]
  BY <1>1, <1>2, SubSeqProperties
<1>5. \A i \in 1 .. n : SubSeq(s, 1, n)[i] = SubSeq(t, 1, n)[i]
  <2> SUFFICES ASSUME NEW i \in 1 .. n PROVE SubSeq(s, 1, n)[i] = SubSeq(t, 1, n)[i]
    OBVIOUS
  <2>1. i \in 1 .. n - 1 + 1 /\ 1 + i - 1 = i
    BY <1>1
  <2>2. s[i] = t[i]
    BY DEF n
  <2>3. QED BY <1>3, <1>4, <2>1, <2>2
<1>6. Len(SubSeq(s, 1, n)) = n /\ Len(SubSeq(t, 1, n)) = n
  BY <1>1, <1>3, <1>4
<1>7. SubSeq(s, 1, n) = SubSeq(t, 1, n)
  BY <1>3, <1>4, <1>5, <1>6, SeqEqual
<1>8. QED BY <1>7 DEF IsPrefix, n

\* When the whole input has been taken, the groups stand where the result has them.
LEMMA GroupsAreKeys ==
  ASSUME TypeOK, PlacedIn(groups, Len(Rows))
  PROVE  GroupKeys = groups
<1>1. Len(Rows) \in Nat /\ DOMAIN groups = 1 .. Len(groups) /\ groups \in Seq(Keys \cup {GlobalKey})
      /\ Len(groups) \in Nat /\ grouped \in BOOLEAN
  BY VariableFacts DEF TypeOK
<1>2. CASE ~ grouped
  BY <1>2 DEF PlacedIn, GroupKeys
<1>3. CASE grouped
  <2> DEFINE N == Len(Rows)
             at(g) == CHOOSE i \in FirstRows(N) : Cardinality(FirstRows(i)) = g
  <2>1. /\ Len(groups) = Cardinality(FirstRows(N))
        /\ \A i \in FirstRows(N) : groups[Cardinality(FirstRows(i))] = Rows[i].key
        /\ \A g \in DOMAIN groups : \E i \in FirstRows(N) : Cardinality(FirstRows(i)) = g
    BY <1>3 DEF PlacedIn
  <2>2. \A g \in DOMAIN groups : at(g) \in FirstRows(N) /\ Cardinality(FirstRows(at(g))) = g
    BY <2>1
  <2>3. GroupKeys = [g \in 1 .. Len(groups) |-> Rows[at(g)].key]
    BY <1>3, <2>1 DEF GroupKeys
  <2> HIDE DEF at, N
  <2>4. \A g \in 1 .. Len(groups) : Rows[at(g)].key = groups[g]
    BY <1>1, <2>1, <2>2
  <2>5. groups = [g \in 1 .. Len(groups) |-> groups[g]]
    <3>1. groups \in [1 .. Len(groups) -> Keys \cup {GlobalKey}]
      BY <1>1, LenProperties
    <3>2. QED BY <3>1
  <2>6. QED BY <2>3, <2>4, <2>5
<1>4. QED BY <1>1, <1>2, <1>3

\* And the result is what they give.
LEMMA AnswerIsGiven ==
  ASSUME IInv, consumed, verdict # "threw", taken = Len(Rows)
  PROVE  /\ Answer \in Seq(ResultRow) /\ Len(Answer) = Len(groups)
         /\ \A g \in 1 .. Len(groups) : Answer[g] = GroupRow(g)
<1>1. TypeOK /\ Described
  BY DEF IInv
<1>2. GroupKeys = groups
  BY <1>1, GroupsPlaced, GroupsAreKeys DEF Described
<1> DEFINE row(g) == GroupRow(g)
           M == Len(groups)
<1>3. /\ InputOK /\ taken \in 0 .. Len(Rows) /\ DOMAIN groups = 1 .. M /\ M \in Nat
      /\ \A g \in 1 .. M : \A a \in DOMAIN Kinds : StateOK(Kinds[a], states[g][a])
  BY <1>1, VariableFacts
<1>4. ASSUME NEW g \in 1 .. M, NEW a \in DOMAIN Kinds
      PROVE  Reference(Kinds[a], groups[g], Len(Rows)) = Shown(Kinds[a], states[g][a])
  <2>1. Took(Kinds[a], states[g][a], groups[g], taken) /\ StateOK(Kinds[a], states[g][a])
    BY <1>1, <1>3 DEF Described
  <2>2. Kinds[a] \in Kind
    BY <1>3, InputFacts
  <2>3. QED BY <1>3, <2>1, <2>2, ShownIsReference
<1>5. Answer = [g \in 1 .. M |->
                  [key |-> groups[g],
                   values |-> [a \in DOMAIN Kinds |-> Reference(Kinds[a], groups[g], Len(Rows))]]]
  BY <1>2, <1>3 DEF Answer
<1>6. \A g \in 1 .. M : row(g) = [key |-> groups[g],
                   values |-> [a \in DOMAIN Kinds |-> Reference(Kinds[a], groups[g], Len(Rows))]]
  BY <1>4 DEF GroupRow
<1>7. \A g \in 1 .. M : row(g) \in ResultRow
  BY <1>1, GroupRowType
<1> HIDE DEF row, M
<1>8. Answer = [g \in 1 .. M |-> row(g)]
  BY <1>5, <1>6
<1>9. Answer \in Seq(ResultRow) /\ Len(Answer) = M
  BY <1>3, <1>7, <1>8
<1>10. \A g \in 1 .. M : Answer[g] = row(g)
  BY <1>8
<1>11. QED BY <1>9, <1>10 DEF row, M

\* Nothing has been given at first.
LEMMA InitContract ==
  ASSUME Init
  PROVE  Contract!Init
  BY DEF Init, Contract!Init

\* As long as nothing threw, a return hands over the next rows of the result or
\* ends where it ends; afterwards no row is taken back.
LEMMA ReturnContract ==
  ASSUME IInv, Return, IInv'
  PROVE  [Contract!Next]_<<Answer, delivered, verdict>>
<1>1. /\ UNCHANGED <<input, grouped, taken, groups, states, cursor, out>> /\ UNCHANGED frozen
      /\ pc = "emit" /\ (Len(out) = Capacity \/ cursor > Len(groups))
      /\ delivered' = delivered \o out
      /\ verdict' = IF out = << >> /\ verdict = "more" THEN "end" ELSE verdict
  BY DEF Return, frozen, Told, Stops
<1>2. Answer' = Answer
  BY <1>1, FrozenKept
<1>3. /\ delivered \in Seq(ResultRow) /\ out \in Seq(ResultRow)
      /\ Len(delivered) \in Nat /\ Len(out) \in Nat /\ Len(out) <= Capacity
      /\ verdict \in {"more", "end", "threw"} /\ consumed
  BY <1>1, VariableFacts DEF IInv, DrainedOnce, TypeOK
<1>4. /\ delivered' \in Seq(ResultRow) /\ Len(delivered') = Len(delivered) + Len(out)
      /\ \A i \in 1 .. Len(delivered) : delivered'[i] = delivered[i]
  <2>1. \A i \in 1 .. Len(delivered) : i \in 1 .. Len(delivered) + Len(out) /\ i <= Len(delivered)
    BY <1>3
  <2>2. QED BY <1>1, <1>3, <2>1, ConcatProperties
<1>5. IsPrefix(delivered, delivered')
  <2>1. Len(delivered) <= Len(delivered')
    BY <1>3, <1>4
  <2>2. QED BY <1>3, <1>4, <2>1, PrefixByElement
<1>6. CASE verdict = "threw"
  BY <1>1, <1>2, <1>5, <1>6 DEF Contract!Next, Contract!Salvage, Contract!IsPrefix, IsPrefix
<1>7. CASE verdict = "end"
  <2>1. out = << >>
    BY <1>1, <1>7 DEF IInv, EndTold
  <2>2. delivered' = delivered
    BY <1>1, <1>3, <2>1, ConcatEmptySeq
  <2>3. QED BY <1>1, <1>2, <1>7, <2>2
<1>8. CASE verdict = "more"
  <2>1. /\ Answer \in Seq(ResultRow) /\ Len(Answer) = Len(groups)
        /\ \A g \in 1 .. Len(groups) : Answer[g] = GroupRow(g)
    <3>1. taken = Len(Rows)
      BY <1>1, <1>3, <1>8 DEF IInv, DrainedOnce
    <3>2. QED BY <1>3, <1>8, <3>1, AnswerIsGiven
  <2>2. /\ Len(delivered) = cursor - 1 - Len(out)
        /\ \A i \in 1 .. Len(delivered) : delivered[i] = GroupRow(i)
        /\ cursor \in Nat /\ cursor <= Len(groups) + 1 /\ Len(groups) \in Nat
    <3>1. TypeOK
      BY DEF IInv
    <3>2. Len(delivered) + Len(out) = cursor - 1
      BY <1>1, GivenGroups
    <3>3. QED BY <1>3, <3>1, <3>2, GivenGroups, VariableFacts
  <2>3. CASE out # << >>
    <3>1. Len(out) \in 1 .. Capacity
      <4>1. Len(out) # 0
        BY <1>3, <2>3, EmptySeq
      <4>2. QED BY <1>3, <4>1, HashAggregateAssumption
    <3>2. Len(delivered') - Len(delivered) \in 1 .. Capacity
      BY <1>3, <1>4, <3>1
    <3>3. IsPrefix(delivered', Answer)
      <4>1. \A i \in 1 .. Len(delivered') : delivered'[i] = GroupRow(i)'
        <5>1. (IInv => \A i \in 1 .. Len(delivered) : delivered[i] = GroupRow(i))'
          BY GivenGroups, PTL
        <5>2. QED BY <5>1
      <4>2. \A g : GroupRow(g)' = GroupRow(g)
        BY <1>1 DEF GroupRow, Kinds, Shown
      <4>3. Len(delivered') <= Len(groups)
        BY <1>3, <1>4, <2>2
      <4>4. \A i \in 1 .. Len(delivered') : delivered'[i] = Answer[i]
        <5>1. \A i \in 1 .. Len(delivered') : i \in 1 .. Len(groups)
          BY <1>3, <1>4, <2>2, <4>3
        <5>2. QED BY <2>1, <4>1, <4>2, <5>1
      <4>5. QED BY <1>4, <2>1, <4>3, <4>4, PrefixByElement
    <3>4. QED BY <1>1, <1>2, <1>5, <1>8, <2>3, <3>2, <3>3
              DEF Contract!Next, Contract!Deliver, Contract!IsPrefix, IsPrefix
  <2>4. CASE out = << >>
    <3>1. delivered' = delivered /\ verdict' = "end"
      BY <1>1, <1>3, <1>8, <2>4, ConcatEmptySeq
    <3>2. delivered = Answer
      <4>1. Len(out) = 0
        BY <2>4
      <4>2. cursor = Len(groups) + 1
        BY <1>1, <2>2, <4>1, HashAggregateAssumption
      <4>3. Len(delivered) = Len(Answer)
        BY <2>1, <2>2, <4>1, <4>2
      <4>4. \A i \in 1 .. Len(delivered) : delivered[i] = Answer[i]
        BY <2>1, <2>2, <4>3
      <4>5. QED BY <1>3, <2>1, <4>3, <4>4, SeqEqual
    <3>3. QED BY <1>2, <1>8, <3>1, <3>2 DEF Contract!Next, Contract!Finish
  <2>5. QED BY <2>3, <2>4
<1>9. QED BY <1>3, <1>6, <1>7, <1>8

\* Every other step hands over nothing; an exception is told.
LEMMA StepContract ==
  ASSUME IInv, [Next]_vars, IInv'
  PROVE  [Contract!Next]_<<Answer, delivered, verdict>>
<1>1. CASE Return
  BY <1>1, ReturnContract
<1>2. CASE Call \/ ConsumeDone \/ EmitGroup \/ UNCHANGED vars
  <2>1. UNCHANGED frozen /\ UNCHANGED <<delivered, verdict>>
    BY <1>2 DEF Call, ConsumeDone, EmitGroup, frozen, vars
  <2>2. QED BY <2>1, FrozenKept
<1>3. CASE ConsumeRow \/ KeyThrow \/ ChildThrow
  <2>1. /\ UNCHANGED frozen /\ delivered' = delivered /\ pc = "consume"
        /\ verdict' = verdict \/ verdict' = "threw"
    BY <1>3 DEF ConsumeRow, KeyThrow, ChildThrow, frozen
  <2>2. Answer' = Answer
    BY <2>1, FrozenKept
  <2>3. verdict = "more"
    BY <2>1, WhileDraining
  <2>4. QED BY <2>1, <2>2, <2>3 DEF Contract!Next, Contract!Throw
<1>4. QED BY <1>1, <1>2, <1>3 DEF Next, Work

\* The aggregation gives each group once, in the order of the first rows and with
\* its SQL values, says the end when it has given the last, and after an exception
\* takes none back.
THEOREM AggregateKeepsContract == Spec => Contract!Safety
<1>1. Init => Contract!Init
  BY InitContract
<1>2. IInv /\ [Next]_vars /\ IInv' => [Contract!Next]_<<Answer, delivered, verdict>>
  BY StepContract
<1>3. QED BY <1>1, <1>2, AggregateInvariance, PTL DEF Spec, Contract!Safety
=============================================================================
