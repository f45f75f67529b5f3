-------------------------- MODULE ExpressionProofs --------------------------
(***************************************************************************)
(* Proofs about what is done with expressions, whatever the trees and the  *)
(* data.  Sources: no group with a qualifying row is skipped, and the      *)
(* statistics of a table or a file keep every row and are exact where      *)
(* nothing was lost.  Evaluator: the column it returns has the value of    *)
(* the expression in every selected row, and it throws for no batch with a *)
(* row.  Both rest on the value of a tree, which is defined by recursion;  *)
(* the first section is about such definitions.                            *)
(***************************************************************************)
EXTENDS Sources, SequenceTheorems, FiniteSetTheorems, WellFoundedInduction, TLAPS

-----------------------------------------------------------------------------
\* What a natural number can be chosen by: a set of them has a least one.

Less == {p \in Nat \X Nat : p[1] < p[2]}

\* The naturals are well founded.
LEMMA LessWellFounded == IsWellFoundedOn(Less, Nat)
  BY NatLessThanWellFounded, Zenon DEF OpToRel, Less

\* A nonempty set of naturals has a least member.
LEMMA Least ==
  ASSUME NEW T \in SUBSET Nat, T # {}
  PROVE  \E x \in T : \A y \in T : x <= y
<1>1. PICK x \in T : \A y \in T : ~ (<<y, x>> \in Less)
  BY LessWellFounded, WFMin
<1>2. ASSUME NEW y \in T PROVE x <= y
  <2>1. ~ (y < x)
    BY <1>1 DEF Less
  <2>2. QED BY <2>1
<1>3. QED BY <1>2

-----------------------------------------------------------------------------
\* Definitions by recursion: H is the height of what they are for, trees of some
\* kind, and D what each is made of.

Founded(H, D) ==
  /\ H \in [DOMAIN H -> Nat]
  /\ \A t \in DOMAIN H : \A o \in D[t] : o \in DOMAIN H /\ H[o] < H[t]

\* A nonempty set of them has a lowest member.
LEMMA Lowest ==
  ASSUME NEW H, H \in [DOMAIN H -> Nat], NEW T \in SUBSET DOMAIN H, T # {}
  PROVE  \E e \in T : \A t \in T : H[e] <= H[t]
<1> DEFINE K == {H[t] : t \in T}
<1>1. K \in SUBSET Nat /\ K # {}
  OBVIOUS
<1>2. PICK h \in K : \A y \in K : h <= y
  <2> HIDE DEF K
  <2>1. QED BY <1>1, Least
<1>3. PICK e \in T : h = H[e]
  BY <1>2
<1>4. QED BY <1>2, <1>3

\* What it is made of is lower.
LEMMA HeightFacts ==
  ASSUME NEW H, NEW D, Founded(H, D), NEW t \in DOMAIN H
  PROVE  H[t] \in Nat /\ \A o \in D[t] : o \in DOMAIN H /\ H[o] \in Nat /\ H[o] < H[t]
  BY DEF Founded

\* `f' satisfies the equations B of all that are lower than n.
Solves(f, B, H, n) == \A t \in DOMAIN H : H[t] < n => f[t] = B[t][f]

\* An equation mentions what its tree is made of only.
Local(B, H, D, S) == \A t \in DOMAIN H : \A f, h \in [DOMAIN H -> S] :
                       (\A o \in D[t] : f[o] = h[o]) => B[t][f] = B[t][h]

\* Two solutions agree as far as they are solutions.
LEMMA SolutionsAgree ==
  ASSUME NEW H, NEW D, Founded(H, D), NEW S, NEW B, Local(B, H, D, S),
         NEW f \in [DOMAIN H -> S], NEW h \in [DOMAIN H -> S], NEW n \in Nat,
         Solves(f, B, H, n), Solves(h, B, H, n),
         NEW t \in DOMAIN H, H[t] < n
  PROVE  f[t] = h[t]
<1> DEFINE T == {e \in DOMAIN H : H[e] < n /\ f[e] # h[e]}
<1>1. T = {}
  <2> SUFFICES ASSUME T # {} PROVE FALSE
    OBVIOUS
  <2>1. PICK e \in T : \A d \in T : H[e] <= H[d]
    <3>1. T \in SUBSET DOMAIN H /\ H \in [DOMAIN H -> Nat]
      BY DEF Founded
    <3> HIDE DEF T
    <3>2. QED BY <3>1, Lowest
  <2>2. e \in DOMAIN H /\ H[e] < n /\ f[e] # h[e]
    OBVIOUS
  <2>3. \A o \in D[e] : f[o] = h[o]
    <3> TAKE o \in D[e]
    <3>1. o \in DOMAIN H /\ H[o] \in Nat /\ H[e] \in Nat /\ H[o] < H[e]
      BY <2>2, HeightFacts
    <3>2. H[o] < n /\ ~ (H[e] <= H[o])
      BY <2>2, <3>1
    <3>3. o \notin T
      <4> HIDE DEF T
      <4>1. QED BY <2>1, <3>2
    <3>4. QED BY <3>1, <3>2, <3>3
  <2>4. B[e][f] = B[e][h]
    BY <2>2, <2>3 DEF Local
  <2>5. QED BY <2>2, <2>4 DEF Solves
<1>2. t \notin T
  BY <1>1
<1>3. QED BY <1>2

\* There is a solution for the trees of any height,
LEMMA SolutionBelow ==
  ASSUME NEW H, NEW D, Founded(H, D), NEW S, S # {},
         NEW B \in [DOMAIN H -> [[DOMAIN H -> S] -> S]], Local(B, H, D, S), NEW n \in Nat
  PROVE  \E f \in [DOMAIN H -> S] : Solves(f, B, H, n)
<1> DEFINE G(m) == \E f \in [DOMAIN H -> S] : Solves(f, B, H, m)
           T == {m \in Nat : ~ G(m)}
<1>1. T = {}
  <2> SUFFICES ASSUME T # {} PROVE FALSE
    OBVIOUS
  <2>1. PICK m \in T : \A y \in T : m <= y
    <3>1. T \in SUBSET Nat
      OBVIOUS
    <3> HIDE DEF T
    <3>2. QED BY <3>1, Least
  <2>2. m \in Nat /\ ~ G(m)
    OBVIOUS
  <2>3. CASE m = 0
    <3>1. PICK s \in S : TRUE
      OBVIOUS
    <3>2. [t \in DOMAIN H |-> s] \in [DOMAIN H -> S]
      OBVIOUS
    <3>3. Solves([t \in DOMAIN H |-> s], B, H, 0)
      BY HeightFacts DEF Solves
    <3>4. QED BY <2>2, <2>3, <3>2, <3>3
  <2>4. CASE m # 0
    <3>1. m - 1 \in Nat /\ m - 1 < m
      BY <2>2, <2>4
    <3>2. m - 1 \notin T
      <4> HIDE DEF T
      <4>1. QED BY <2>1, <2>2, <3>1
    <3>3. PICK f \in [DOMAIN H -> S] : Solves(f, B, H, m - 1)
      BY <3>1, <3>2
    <3> DEFINE g == [t \in DOMAIN H |-> B[t][f]]
    <3>4. g \in [DOMAIN H -> S] /\ \A t \in DOMAIN H : g[t] = B[t][f]
      OBVIOUS
    <3> HIDE DEF g
    <3>5. ASSUME NEW t \in DOMAIN H, H[t] < m PROVE g[t] = B[t][g]
      <4>1. \A o \in D[t] : f[o] = g[o]
        <5> TAKE o \in D[t]
        <5>1. o \in DOMAIN H /\ H[o] \in Nat /\ H[t] \in Nat /\ H[o] < H[t]
          BY HeightFacts
        <5>2. H[o] < m - 1
          BY <2>2, <3>5, <5>1
        <5>3. f[o] = B[o][f]
          BY <3>3, <5>1, <5>2 DEF Solves
        <5>4. QED BY <3>4, <5>1, <5>3
      <4>2. B[t][f] = B[t][g]
        BY <3>4, <4>1 DEF Local
      <4>3. QED BY <3>4, <4>2
    <3>6. Solves(g, B, H, m)
      BY <3>5 DEF Solves
    <3>7. QED BY <2>2, <3>4, <3>6
  <2>5. QED BY <2>3, <2>4
<1>2. n \notin T
  BY <1>1
<1>3. QED BY <1>2

\* and so one for all: local equations define a function.
Equations(H, D, S) == {B \in [DOMAIN H -> [[DOMAIN H -> S] -> S]] : Local(B, H, D, S)}
Defines(B, H, S) == \E f \in [DOMAIN H -> S] : \A t \in DOMAIN H : f[t] = B[t][f]

\* What such equations define has a solution, for every tree.
LEMMA RecursionDefines ==
  ASSUME NEW H, NEW D, Founded(H, D), NEW S, S # {}, NEW B \in Equations(H, D, S)
  PROVE  Defines(B, H, S)
<1>1. Local(B, H, D, S)
  BY DEF Equations
<1>2. B \in [DOMAIN H -> [[DOMAIN H -> S] -> S]]
  BY DEF Equations
<1> DEFINE below[n \in Nat] == CHOOSE f \in [DOMAIN H -> S] : Solves(f, B, H, n)
           g == [t \in DOMAIN H |-> below[H[t] + 1][t]]
<1>3. \A n \in Nat : below[n] \in [DOMAIN H -> S] /\ Solves(below[n], B, H, n)
  BY <1>1, <1>2, SolutionBelow
<1> HIDE DEF below
<1>4. g \in [DOMAIN H -> S] /\ \A t \in DOMAIN H : g[t] = below[H[t] + 1][t]
  <2>1. \A t \in DOMAIN H : H[t] + 1 \in Nat
    BY HeightFacts
  <2>2. QED BY <1>3, <2>1
<1> HIDE DEF g
<1>5. ASSUME NEW t \in DOMAIN H PROVE g[t] = B[t][g]
  <2> DEFINE n == H[t] + 1
             f == below[n]
  <2>1. n \in Nat /\ H[t] \in Nat /\ H[t] < n
    BY HeightFacts
  <2>2. f \in [DOMAIN H -> S] /\ Solves(f, B, H, n) /\ g[t] = f[t]
    BY <1>3, <1>4, <2>1
  <2> HIDE DEF f
  <2>3. ASSUME NEW o \in D[t] PROVE f[o] = g[o]
    <3> DEFINE k == H[o] + 1
    <3>1. o \in DOMAIN H /\ H[o] \in Nat /\ k \in Nat /\ k < n /\ H[o] < k
      BY <2>1, HeightFacts
    <3>2. below[k] \in [DOMAIN H -> S] /\ Solves(below[k], B, H, k) /\ g[o] = below[k][o]
      BY <1>3, <1>4, <3>1
    <3> HIDE DEF n
    <3>3. Solves(f, B, H, k)
      <4>1. ASSUME NEW d \in DOMAIN H, H[d] < k PROVE f[d] = B[d][f]
        <5>1. H[d] < n
          BY <2>1, <3>1, <4>1, HeightFacts
        <5>2. QED BY <2>2, <5>1 DEF Solves
      <4>2. QED BY <4>1 DEF Solves
    <3> HIDE DEF k
    <3>4. f[o] = below[k][o]
      <4>1. f \in [DOMAIN H -> S] /\ below[k] \in [DOMAIN H -> S] /\ k \in Nat
        BY <2>2, <3>1, <3>2
      <4>2. Solves(f, B, H, k) /\ Solves(below[k], B, H, k) /\ o \in DOMAIN H /\ H[o] < k
        BY <3>1, <3>2, <3>3
      <4>3. QED BY <1>1, <4>1, <4>2, SolutionsAgree
    <3>5. QED BY <3>2, <3>4
  <2>4. f[t] = B[t][f]
    BY <2>1, <2>2 DEF Solves
  <2>5. B[t][f] = B[t][g]
    BY <1>1, <1>4, <2>2, <2>3 DEF Local
  <2>6. QED BY <2>2, <2>4, <2>5
<1>6. QED BY <1>4, <1>5 DEF Defines

-----------------------------------------------------------------------------
\* Trees over the column of a source.

OperandsOf == [t \in Trees |-> Operands(t)]

\* Trees are made of lower ones.
LEMMA TreesFounded == Founded(Height, OperandsOf) /\ DOMAIN Height = Trees
  BY TreesAssumption DEF TreesRight, Trees, OperandsOf, Founded

\* The operands of a tree of Sources are lower trees.
LEMMA OperandFacts ==
  ASSUME NEW e \in Trees
  PROVE  /\ Height[e] \in Nat
         /\ \A o \in Operands(e) : o \in Trees /\ Height[o] \in Nat /\ Height[o] < Height[e]
  BY TreesAssumption DEF TreesRight

-----------------------------------------------------------------------------
\* The value of a predicate on a cell.

RowOf(x) == [c \in {"x"} |-> x]
Typed(e, v) == v \in IF IsTruth(e) THEN BOOLEAN \cup {Null} ELSE Cell

\* What is known of the special values.
LEMMA SpecialValues == /\ Null \notin Int /\ Null \notin BOOLEAN /\ NaN \notin Int
                       /\ NaN \notin BOOLEAN /\ Null # NaN /\ MaxInt \in Nat
  BY StatisticsAssumption, ExpressionsAssumption

\* The kinds of nodes exclude each other.
LEMMA KindFacts ==
  ASSUME NEW e \in Trees
  PROVE  /\ WellTyped(e)
         /\ \/ e.kind \in {"column", "literal"} /\ Operands(e) = {}
            \/ e.kind \in {"isnull", "not"} /\ Operands(e) = {e.left}
            \/ /\ e.kind \in Connectives \/ e.kind \in Comparisons \/ e.kind \in Arithmetic
               /\ Operands(e) = {e.left, e.right}
  BY TreesAssumption, StatisticsAssumption
  DEF TreesRight, Kinds, Operands, IsLeaf, IsBinary, Connectives, Comparisons, Arithmetic,
      Int64Arithmetic,
      DoubleArithmetic

\* A quotient of integers is one.
LEMMA QuotientInt ==
  ASSUME NEW x \in Int, NEW y \in Int, y # 0
  PROVE  Quotient(x, y) \in Int
<1>1. Magnitude(x) \in Int /\ Magnitude(y) \in Int /\ Magnitude(y) > 0
  BY DEF Magnitude
<1>2. Magnitude(x) \div Magnitude(y) \in Int
  BY <1>1
<1>3. QED BY <1>2 DEF Quotient

\* Arithmetic gives a number, NaN or NULL.
LEMMA ComputeTyped ==
  ASSUME NEW k \in Arithmetic, NEW x \in Int \cup {NaN}, NEW y \in Int \cup {NaN}
  PROVE  Compute(k, x, y) \in Cell
<1>1. CASE x = NaN \/ y = NaN
  BY <1>1 DEF Compute, Cell
<1>2. CASE k \in {"/", "/."} /\ y = 0
  BY <1>2 DEF Compute, Cell
<1>3. CASE x \in Int /\ y \in Int /\ ~ (k \in {"/", "/."} /\ y = 0)
  <2>1. k \in {"/", "/."} => Quotient(x, y) \in Int
    BY <1>3, QuotientInt
  <2>2. Exact(k, x, y) \in Int
    BY <1>3, <2>1 DEF Exact, Arithmetic, Int64Arithmetic, DoubleArithmetic
  <2>3. QED BY <1>3, <2>2 DEF Compute, Cell
<1>4. QED BY <1>1, <1>2, <1>3

\* A comparison of two numbers, or for equality of two truth values, is decided.
LEMMA CompareTyped ==
  ASSUME NEW k \in Comparisons, NEW x, NEW y,
         \/ x \in Int \cup {NaN} /\ y \in Int \cup {NaN}
         \/ k \in {"=", "#"}
  PROVE  Compare(k, x, y) \in BOOLEAN
<1>1. CASE x = NaN \/ y = NaN
  BY <1>1 DEF Compare
<1>2. CASE ~ (x = NaN \/ y = NaN)
  <2>1. CASE k \in {"=", "#"}
    BY <1>2, <2>1 DEF Compare
  <2>2. CASE k \in {"<", "<=", ">", ">="} /\ x \in Int /\ y \in Int
    <3>1. k = "<" => Compare(k, x, y) \in BOOLEAN
      BY <1>2, <2>2 DEF Compare
    <3>2. k = "<=" => Compare(k, x, y) \in BOOLEAN
      BY <1>2, <2>2 DEF Compare
    <3>3. k = ">" => Compare(k, x, y) \in BOOLEAN
      BY <1>2, <2>2 DEF Compare
    <3>4. k = ">=" => Compare(k, x, y) \in BOOLEAN
      BY <1>2, <2>2 DEF Compare
    <3>5. QED BY <2>2, <3>1, <3>2, <3>3, <3>4
  <2>3. QED BY <1>2, <2>1, <2>2 DEF Comparisons
<1>3. QED BY <1>1, <1>2

\* The value of a node, by its kind.
LEMMA NodeCases ==
  ASSUME NEW e, NEW row, NEW a, NEW b
  PROVE  /\ e.kind = "column" => NodeValue(e, row, a, b) = row[e.column]
         /\ e.kind = "literal" => NodeValue(e, row, a, b) = e.value
         /\ e.kind \in Connectives => NodeValue(e, row, a, b) = Connect(e.kind, a, b)
         /\ e.kind \in Comparisons =>
              NodeValue(e, row, a, b) = IF a = Null \/ b = Null THEN Null ELSE Compare(e.kind, a, b)
         /\ e.kind \in Arithmetic =>
              NodeValue(e, row, a, b) = IF a = Null \/ b = Null THEN Null ELSE Compute(e.kind, a, b)
  BY DEF NodeValue, Connectives, Comparisons, Arithmetic, Int64Arithmetic, DoubleArithmetic
\* The value of an IS NULL and of a NOT, in terms of the operand's.
LEMMA UnaryCases ==
  ASSUME NEW e, NEW row, NEW a, NEW b
  PROVE  /\ e.kind = "isnull" => /\ NodeValue(e, row, a, b) \in BOOLEAN
                                 /\ NodeValue(e, row, a, b) = TRUE <=> a = Null
         /\ e.kind = "not" /\ a = Null => NodeValue(e, row, a, b) = Null
         /\ e.kind = "not" /\ a # Null => NodeValue(e, row, a, b) \in BOOLEAN
  BY DEF NodeValue, Connectives

\* A node of typed operands is typed.
LEMMA NodeTyped ==
  ASSUME NEW e \in Trees, NEW x \in Cell, NEW a, NEW b,
         e.left \in Operands(e) => Typed(e.left, a),
         e.right \in Operands(e) => Typed(e.right, b)
  PROVE  Typed(e, NodeValue(e, RowOf(x), a, b))
<1> DEFINE v == NodeValue(e, RowOf(x), a, b)
<1>1. CASE e.kind = "column"
  <2>1. v = x
    BY <1>1, KindFacts, NodeCases DEF RowOf, WellTyped
  <2>2. ~ IsTruth(e)
    BY <1>1 DEF IsTruth, Connectives, Comparisons
  <2>3. QED BY <2>1, <2>2 DEF Typed
<1>2. CASE e.kind = "literal"
  <2>1. v = e.value
    BY <1>2, NodeCases
  <2>2. IsTruth(e) <=> e.type = "Boolean"
    BY <1>2 DEF IsTruth, Connectives, Comparisons
  <2>3. QED BY <1>2, <2>1, <2>2, KindFacts DEF Typed, WellTyped
<1>3. CASE e.kind = "isnull"
  <2>1. IsTruth(e) /\ v \in BOOLEAN
    BY <1>3, UnaryCases DEF IsTruth
  <2>2. QED BY <2>1 DEF Typed
<1>4. CASE e.kind = "not"
  <2>1. e.left \in Operands(e) /\ IsTruth(e.left) /\ IsTruth(e)
    BY <1>4, KindFacts DEF WellTyped, IsTruth, Connectives, Comparisons, Arithmetic, Int64Arithmetic,
                           DoubleArithmetic
  <2>2. a \in BOOLEAN \cup {Null}
    BY <2>1 DEF Typed
  <2>3. v \in BOOLEAN \cup {Null}
    BY <1>4, <2>2, UnaryCases
  <2>4. QED BY <2>1, <2>3 DEF Typed
<1>5. CASE e.kind \in Connectives
  <2>1. IsTruth(e) /\ v = Connect(e.kind, a, b)
    BY <1>5, NodeCases DEF IsTruth
  <2>2. v \in BOOLEAN \cup {Null}
    BY <2>1 DEF Connect
  <2>3. QED BY <2>1, <2>2 DEF Typed
<1>6. CASE e.kind \in Comparisons
  <2>1. IsTruth(e) /\ v = IF a = Null \/ b = Null THEN Null ELSE Compare(e.kind, a, b)
    BY <1>6, NodeCases DEF IsTruth
  <2>2. Operands(e) = {e.left, e.right}
    BY <1>6, KindFacts DEF Comparisons
  <2>3. a # Null /\ b # Null => Compare(e.kind, a, b) \in BOOLEAN
    <3>1. CASE \A o \in Operands(e) : ~ IsTruth(o)
      BY <1>6, <2>2, <3>1, CompareTyped DEF Typed, Cell
    <3>2. CASE e.kind \in {"=", "#"}
      BY <1>6, <3>2, CompareTyped
    <3>3. QED BY <1>6, <3>1, <3>2, KindFacts DEF WellTyped
  <2>4. QED BY <2>1, <2>3 DEF Typed
<1>7. CASE e.kind \in Arithmetic
  <2>1. /\ ~ IsTruth(e)
        /\ v = IF a = Null \/ b = Null THEN Null ELSE Compute(e.kind, a, b)
    BY <1>7, NodeCases DEF IsTruth, Connectives, Comparisons, Arithmetic, Int64Arithmetic,
                           DoubleArithmetic
  <2>2. Operands(e) = {e.left, e.right} /\ \A o \in Operands(e) : ~ IsTruth(o)
    BY <1>7, KindFacts DEF WellTyped, Arithmetic, Int64Arithmetic, DoubleArithmetic
  <2>3. a # Null /\ b # Null => Compute(e.kind, a, b) \in Cell
    BY <1>7, <2>2, ComputeTyped DEF Typed, Cell
  <2>4. QED BY <2>1, <2>3 DEF Typed, Cell
<1>8. QED BY <1>1, <1>2, <1>3, <1>4, <1>5, <1>6, <1>7, KindFacts

\* The value of a node depends on its operands only.
LEMMA NodeLocal ==
  ASSUME NEW e \in Trees, NEW row, NEW a, NEW b, NEW c, NEW d,
         e.left \in Operands(e) => a = c,
         e.right \in Operands(e) => b = d
  PROVE  NodeValue(e, row, a, b) = NodeValue(e, row, c, d)
<1>1. CASE e.kind \in {"column", "literal"}
  BY <1>1, NodeCases
<1>2. CASE e.kind \in {"isnull", "not"}
  <2>1. e.left \in Operands(e)
    BY <1>2, KindFacts DEF Connectives, Comparisons, Arithmetic, Int64Arithmetic, DoubleArithmetic
  <2>2. a = c
    BY <2>1
  <2>3. QED BY <1>2, <2>2 DEF NodeValue, Connectives
<1>3. CASE e.left \in Operands(e) /\ e.right \in Operands(e)
  BY <1>3
<1>4. QED BY <1>1, <1>2, <1>3, KindFacts

\* Any function that takes the values of nodes, where they are values at all, is typed.
Val == BOOLEAN \cup Cell
\* Values that satisfy the equations are of the type of their tree, in every row.
LEMMA ValuesTyped ==
  ASSUME NEW x \in Cell, NEW v,
         \A t \in Trees : LET n == NodeValue(t, RowOf(x), v[t.left], v[t.right])
                          IN  v[t] = n \/ n \notin Val
  PROVE  \A t \in Trees : /\ Typed(t, v[t])
                          /\ Typed(t, NodeValue(t, RowOf(x), v[t.left], v[t.right]))
<1> DEFINE n(t) == NodeValue(t, RowOf(x), v[t.left], v[t.right])
           T == {t \in Trees : ~ (Typed(t, v[t]) /\ Typed(t, n(t)))}
<1>1. T = {}
  <2> SUFFICES ASSUME T # {} PROVE FALSE
    OBVIOUS
  <2>1. PICK e \in T : \A d \in T : Height[e] <= Height[d]
    <3>1. T \in SUBSET DOMAIN Height /\ Height \in [DOMAIN Height -> Nat]
      BY TreesFounded DEF Founded
    <3> HIDE DEF T
    <3>2. QED BY <3>1, Lowest
  <2>2. e \in Trees /\ ~ (Typed(e, v[e]) /\ Typed(e, n(e)))
    OBVIOUS
  <2>3. \A o \in Operands(e) : Typed(o, v[o])
    <3> TAKE o \in Operands(e)
    <3>1. o \in Trees /\ ~ (Height[e] <= Height[o])
      BY <2>2, OperandFacts
    <3>2. o \notin T
      <4> HIDE DEF T
      <4>1. QED BY <2>1, <3>1
    <3>3. QED BY <3>1, <3>2
  <2>4. Typed(e, n(e))
    BY <2>2, <2>3, NodeTyped
  <2>5. v[e] = n(e)
    <3>1. n(e) \in Val
      <4> HIDE DEF n
      <4>1. QED BY <2>4 DEF Typed, Val, Cell
    <3>2. v[e] = n(e) \/ n(e) \notin Val
      BY <2>2
    <3>3. QED BY <3>1, <3>2
  <2>6. QED BY <2>2, <2>4, <2>5
<1>2. QED BY <1>1

\* Every tree has a value, which obeys the equation of its root and its type.
LEMMA EvaluateFacts ==
  ASSUME NEW x \in Cell, NEW e \in Trees
  PROVE  /\ Evaluate(e, RowOf(x)) = NodeValue(e, RowOf(x), Evaluate(e.left, RowOf(x)),
                                              Evaluate(e.right, RowOf(x)))
         /\ Typed(e, Evaluate(e, RowOf(x)))
<1> DEFINE row == RowOf(x)
           n(t, v) == NodeValue(t, row, v[t.left], v[t.right])
           B == [t \in Trees |-> [f \in [Trees -> Val] |-> IF n(t, f) \in Val THEN n(t, f) ELSE Null]]
           value == CHOOSE v : v = [t \in Trees |-> n(t, v)]
<1>1. Null \in Val
  BY DEF Val, Cell
<1>2. B \in [Trees -> [[Trees -> Val] -> Val]]
  BY <1>1
<1>3. Local(B, Height, OperandsOf, Val)
  <2>1. ASSUME NEW t \in Trees, NEW f \in [Trees -> Val], NEW h \in [Trees -> Val],
               \A o \in Operands(t) : f[o] = h[o]
        PROVE  B[t][f] = B[t][h]
    <3>1. n(t, f) = n(t, h)
      BY <2>1, NodeLocal
    <3> HIDE DEF n
    <3>2. QED BY <3>1
  <2> HIDE DEF B
  <2>2. QED BY <2>1 DEF Local, OperandsOf, Trees
<1>4. PICK f \in [Trees -> Val] : \A t \in Trees : f[t] = B[t][f]
  <2>1. Val # {}
    BY <1>1
  <2> HIDE DEF B
  <2>2. B \in Equations(Height, OperandsOf, Val)
    BY <1>2, <1>3 DEF Equations, Trees
  <2>3. Defines(B, Height, Val)
    BY <2>1, <2>2, TreesFounded, RecursionDefines
  <2>4. QED BY <2>3 DEF Defines, Trees
<1>5. \A t \in Trees : f[t] = IF n(t, f) \in Val THEN n(t, f) ELSE Null
  <2> HIDE DEF n
  <2>1. QED BY <1>4
<1>6. \A t \in Trees : Typed(t, n(t, f))
  BY <1>5, ValuesTyped
<1>7. \A t \in Trees : f[t] = n(t, f)
  <2> HIDE DEF n
  <2>1. QED BY <1>5, <1>6 DEF Typed, Val, Cell
<1>8. f = [t \in Trees |-> n(t, f)]
  <2> HIDE DEF n
  <2>1. QED BY <1>7
<1>9. value = [t \in Trees |-> n(t, value)]
  <2> HIDE DEF n
  <2>1. QED BY <1>8
<1>10. \A t : Evaluate(t, row) = value[t]
  BY DEF Evaluate
<1> HIDE DEF value
<1>11. \A t \in Trees : value[t] = n(t, value)
  <2> HIDE DEF n
  <2>1. QED BY <1>9
<1>12. \A t \in Trees : Typed(t, value[t])
  BY <1>11, ValuesTyped
<1>13. QED BY <1>10, <1>11, <1>12

-----------------------------------------------------------------------------
\* What statistics say of a predicate.

\* The bounds of a column of numbers against a literal.
LEMMA SimpleMayMatchTyped ==
  ASSUME NEW k \in Comparisons, NEW v \in Cell, NEW s \in ColumnStatistics
  PROVE  SimpleMayMatch(k, v, s) \in BOOLEAN
<1>1. CASE v \notin Int \/ s.minimum = None \/ s.maximum = None
  BY <1>1 DEF SimpleMayMatch, Cell
<1>2. CASE v \in Int /\ s.minimum \in Int /\ s.maximum \in Int
  <2>1. BoundsAllow(k, s, v) \in BOOLEAN
    <3>1. k \in {"=", "#"} => BoundsAllow(k, s, v) \in BOOLEAN
      BY <1>2 DEF BoundsAllow, ColumnStatistics
    <3>2. k = "<" => BoundsAllow(k, s, v) \in BOOLEAN
      BY <1>2 DEF BoundsAllow
    <3>3. k = "<=" => BoundsAllow(k, s, v) \in BOOLEAN
      BY <1>2 DEF BoundsAllow
    <3>4. k = ">" => BoundsAllow(k, s, v) \in BOOLEAN
      BY <1>2 DEF BoundsAllow
    <3>5. k = ">=" => BoundsAllow(k, s, v) \in BOOLEAN
      BY <1>2 DEF BoundsAllow
    <3>6. QED BY <3>1, <3>2, <3>3, <3>4, <3>5 DEF Comparisons
  <2>2. QED BY <2>1 DEF SimpleMayMatch
<1>3. QED BY <1>1, <1>2 DEF ColumnStatistics, Bound

\* A comparison of the column with a literal, as simple() takes it apart.
LEMMA SimpleFacts ==
  ASSUME NEW e \in Trees, IsSimple(e)
  PROVE  /\ KindOf(e) \in Comparisons /\ ValueOf(e) \in Cell
         /\ e.left \in Trees /\ e.right \in Trees
         /\ \/ e.left.kind = "column" /\ e.right.kind = "literal"
            \/ e.left.kind = "literal" /\ e.right.kind = "column"
<1>1. e.kind \in Comparisons /\ Operands(e) = {e.left, e.right}
  BY KindFacts DEF IsSimple, Comparisons
<1>2. e.left \in Trees /\ e.right \in Trees
  BY <1>1, OperandFacts
<1>3. \/ e.left.kind = "column" /\ e.right.kind = "literal"
      \/ e.left.kind = "literal" /\ e.right.kind = "column"
  BY DEF IsSimple
<1>4. \A o \in Operands(e) : ~ IsTruth(o)
  <2>1. \E o \in Operands(e) : ~ IsTruth(o)
    BY <1>1, <1>3 DEF IsTruth, Connectives, Comparisons
  <2>2. QED BY <1>1, <2>1, KindFacts DEF WellTyped
<1>5. ASSUME NEW o \in Operands(e), o.kind = "literal" PROVE o.value \in Cell
  <2>1. o \in Trees /\ o.type # "Boolean"
    BY <1>4, <1>5, OperandFacts DEF IsTruth
  <2>2. QED BY <1>5, <2>1, KindFacts DEF WellTyped
<1>6. KindOf(e) \in Comparisons
  BY <1>1 DEF KindOf, Flip, Comparisons
<1>7. ValueOf(e) \in Cell
  BY <1>1, <1>3, <1>5 DEF ValueOf
<1>8. QED BY <1>2, <1>3, <1>6, <1>7

\* A node is matched or not,
LEMMA MayNodeTyped ==
  ASSUME NEW t \in Trees, NEW a, NEW b, NEW s \in ColumnStatistics
  PROVE  NodeMayMatch(t, a, b, s) \in BOOLEAN
<1>1. IsSimple(t) => SimpleMayMatch(KindOf(t), ValueOf(t), s) \in BOOLEAN
  BY SimpleFacts, SimpleMayMatchTyped
<1>2. QED BY <1>1 DEF NodeMayMatch

\* and that depends on its operands only.
LEMMA MayNodeLocal ==
  ASSUME NEW t \in Trees, NEW a, NEW b, NEW c, NEW d, NEW s,
         t.left \in Operands(t) => a = c,
         t.right \in Operands(t) => b = d
  PROVE  NodeMayMatch(t, a, b, s) = NodeMayMatch(t, c, d, s)
<1>1. CASE t.kind \in Connectives
  <2>1. a = c /\ b = d
    BY <1>1, KindFacts DEF Connectives
  <2>2. QED BY <2>1
<1>2. CASE t.kind \notin Connectives
  BY <1>2 DEF NodeMayMatch, Connectives
<1>3. QED BY <1>1, <1>2

\* When a node is matched.
LEMMA NodeMatched ==
  ASSUME NEW e, NEW a, NEW b, NEW s,
         \/ e.kind = "literal" /\ e.value = TRUE
         \/ e.kind = "and" /\ a /\ b
         \/ e.kind = "or" /\ (a \/ b)
         \/ e.kind = "isnull" /\ e.left.kind = "column" /\ (~ s.nullsKnown \/ s.nulls # 0)
  PROVE  NodeMayMatch(e, a, b, s)
<1>1. CASE e.kind = "literal" /\ e.value = TRUE
  BY <1>1 DEF NodeMayMatch, IsSimple, Comparisons
<1>2. CASE e.kind = "and" /\ a /\ b
  BY <1>2 DEF NodeMayMatch, IsSimple, Comparisons
<1>3. CASE e.kind = "or" /\ (a \/ b)
  BY <1>3 DEF NodeMayMatch, IsSimple, Comparisons
<1>4. CASE e.kind = "isnull" /\ e.left.kind = "column" /\ (~ s.nullsKnown \/ s.nulls # 0)
  BY <1>4 DEF NodeMayMatch, IsSimple, Comparisons
<1>5. QED BY <1>1, <1>2, <1>3, <1>4

\* may_match obeys the equation of its root.
LEMMA MayMatchFacts ==
  ASSUME NEW e \in Trees, NEW s \in ColumnStatistics
  PROVE  /\ MayMatch(e, s) = NodeMayMatch(e, MayMatch(e.left, s), MayMatch(e.right, s), s)
         /\ MayMatch(e, s) \in BOOLEAN
<1> DEFINE n(t, v) == NodeMayMatch(t, v[t.left], v[t.right], s)
           B == [t \in Trees |-> [f \in [Trees -> BOOLEAN] |-> n(t, f)]]
           may == CHOOSE v : v = [t \in Trees |-> n(t, v)]
<1>1. B \in [Trees -> [[Trees -> BOOLEAN] -> BOOLEAN]]
  <2>1. \A t \in Trees : \A f \in [Trees -> BOOLEAN] : n(t, f) \in BOOLEAN
    BY MayNodeTyped
  <2> HIDE DEF n
  <2>2. QED BY <2>1
<1>2. Local(B, Height, OperandsOf, BOOLEAN)
  <2>1. ASSUME NEW t \in Trees, NEW f \in [Trees -> BOOLEAN], NEW h \in [Trees -> BOOLEAN],
               \A o \in Operands(t) : f[o] = h[o]
        PROVE  B[t][f] = B[t][h]
    <3>1. n(t, f) = n(t, h)
      BY <2>1, MayNodeLocal
    <3> HIDE DEF n
    <3>2. QED BY <3>1
  <2> HIDE DEF B
  <2>2. QED BY <2>1 DEF Local, OperandsOf, Trees
<1>3. PICK f \in [Trees -> BOOLEAN] : \A t \in Trees : f[t] = B[t][f]
  <2> HIDE DEF B
  <2>1. B \in Equations(Height, OperandsOf, BOOLEAN)
    BY <1>1, <1>2 DEF Equations, Trees
  <2>2. Defines(B, Height, BOOLEAN)
    BY <2>1, TreesFounded, RecursionDefines
  <2>3. QED BY <2>2 DEF Defines, Trees
<1>4. f = [t \in Trees |-> n(t, f)]
  <2> HIDE DEF n
  <2>1. \A t \in Trees : f[t] = n(t, f)
    BY <1>3
  <2>2. QED BY <2>1
<1>5. may = [t \in Trees |-> n(t, may)]
  <2> HIDE DEF n
  <2>1. QED BY <1>4
<1>6. \A t : MayMatch(t, s) = may[t]
  BY DEF MayMatch
<1> HIDE DEF may
<1>7. may[e] = n(e, may)
  <2> HIDE DEF n
  <2>1. QED BY <1>5
<1>8. n(e, may) \in BOOLEAN
  BY MayNodeTyped
<1>9. QED BY <1>6, <1>7, <1>8

\* A number, or NaN, that satisfies a comparison is not ruled out by statistics that admit it.
LEMMA SimpleSound ==
  ASSUME NEW k \in Comparisons, NEW x \in Cell, NEW v \in Cell, NEW s \in ColumnStatistics,
         x # Null, v # Null, Compare(k, x, v), Admits(s, x)
  PROVE  SimpleMayMatch(k, v, s)
<1>1. ~ (s.nullsKnown /\ s.nulls = s.rows)
  BY DEF Admits, Counts
<1>2. CASE v = NaN
  BY <1>1, <1>2 DEF SimpleMayMatch, Compare
<1>3. CASE v # NaN /\ x = NaN
  <2>1. k = "#" /\ s.hasNaN
    BY <1>3 DEF Compare, Admits, Counts
  <2>2. BoundsAllow(k, s, v)
    BY <2>1 DEF BoundsAllow
  <2>3. QED BY <1>1, <1>3, <2>2 DEF SimpleMayMatch
<1>4. CASE v # NaN /\ x # NaN /\ Unbounded(s)
  BY <1>1, <1>4 DEF SimpleMayMatch, Unbounded
<1>5. CASE v # NaN /\ x # NaN /\ ~ Unbounded(s)
  <2>1. x \in Int /\ v \in Int
    BY <1>5 DEF Cell
  <2>2. /\ s.minimum \in Int /\ s.minimum <= x
        /\ s.maximum \in Int /\ x <= s.maximum
    BY <1>5, <2>1 DEF Admits, Encloses, Unbounded, ColumnStatistics, Bound
  <2>3. BoundsAllow(k, s, v)
    <3>1. CASE k = "="
      BY <1>5, <2>1, <2>2, <3>1 DEF Compare, BoundsAllow
    <3>2. CASE k = "#"
      <4>1. x # v
        BY <1>5, <3>2 DEF Compare
      <4>2. s.minimum # v \/ s.maximum # v
        BY <2>1, <2>2, <4>1
      <4>3. QED BY <3>2, <4>2 DEF BoundsAllow
    <3>3. CASE k = "<"
      BY <1>5, <2>1, <2>2, <3>3 DEF Compare, BoundsAllow
    <3>4. CASE k = "<="
      BY <1>5, <2>1, <2>2, <3>4 DEF Compare, BoundsAllow
    <3>5. CASE k = ">"
      BY <1>5, <2>1, <2>2, <3>5 DEF Compare, BoundsAllow
    <3>6. CASE k = ">="
      BY <1>5, <2>1, <2>2, <3>6 DEF Compare, BoundsAllow
    <3>7. QED BY <3>1, <3>2, <3>3, <3>4, <3>5, <3>6 DEF Comparisons
  <2>4. QED BY <1>1, <1>5, <2>3 DEF SimpleMayMatch
<1>6. QED BY <1>2, <1>3, <1>4, <1>5

\* Turning a comparison round turns its operands round.
LEMMA FlipTurns ==
  ASSUME NEW k \in Comparisons, NEW x \in Int \cup {NaN}, NEW v \in Int \cup {NaN}, Compare(k, v, x)
  PROVE  Compare(Flip(k), x, v)
<1>1. CASE x = NaN \/ v = NaN
  BY <1>1 DEF Compare, Flip
<1>2. CASE x \in Int /\ v \in Int /\ x # NaN /\ v # NaN
  <2>1. CASE k \in {"=", "#"}
    BY <1>2, <2>1 DEF Compare, Flip
  <2>2. CASE k = "<"
    BY <1>2, <2>2 DEF Compare, Flip
  <2>3. CASE k = "<="
    BY <1>2, <2>3 DEF Compare, Flip
  <2>4. CASE k = ">"
    BY <1>2, <2>4 DEF Compare, Flip
  <2>5. CASE k = ">="
    BY <1>2, <2>5 DEF Compare, Flip
  <2>6. QED BY <2>1, <2>2, <2>3, <2>4, <2>5 DEF Comparisons
<1>3. QED BY <1>1, <1>2

\* The value of a leaf.
LEMMA LeafFacts ==
  ASSUME NEW x \in Cell, NEW e \in Trees
  PROVE  /\ e.kind = "column" => Evaluate(e, RowOf(x)) = x
         /\ e.kind = "literal" => Evaluate(e, RowOf(x)) = e.value
<1> DEFINE n == NodeValue(e, RowOf(x), Evaluate(e.left, RowOf(x)), Evaluate(e.right, RowOf(x)))
<1>1. Evaluate(e, RowOf(x)) = n
  BY EvaluateFacts
<1>2. e.kind = "column" => n = RowOf(x)[e.column]
  BY NodeCases
<1>3. e.kind = "literal" => n = e.value
  BY NodeCases
<1> HIDE DEF n
<1>4. e.kind = "column" => RowOf(x)[e.column] = x
  BY KindFacts DEF WellTyped, RowOf
<1>5. QED BY <1>1, <1>2, <1>3, <1>4

\* A comparison of the column with a literal that is true of a cell is not ruled out.
LEMMA SimpleTreeSound ==
  ASSUME NEW e \in Trees, NEW x \in Cell, NEW s \in ColumnStatistics, IsSimple(e), Admits(s, x),
         Evaluate(e, RowOf(x)) = TRUE
  PROVE  SimpleMayMatch(KindOf(e), ValueOf(e), s)
<1> DEFINE a == Evaluate(e.left, RowOf(x))
           b == Evaluate(e.right, RowOf(x))
<1>1. Evaluate(e, RowOf(x)) = NodeValue(e, RowOf(x), a, b)
  BY EvaluateFacts
<1>2. e.kind \in Comparisons
  BY DEF IsSimple
<1>3. Evaluate(e, RowOf(x)) = IF a = Null \/ b = Null THEN Null ELSE Compare(e.kind, a, b)
  BY <1>1, <1>2, NodeCases
<1>4. a # Null /\ b # Null /\ Compare(e.kind, a, b)
  <2> HIDE DEF a, b
  <2>1. QED BY <1>3, SpecialValues
<1>5. /\ e.left \in Trees /\ e.right \in Trees
      /\ KindOf(e) \in Comparisons /\ ValueOf(e) \in Cell
  BY SimpleFacts
<1>6. CASE e.left.kind = "column" /\ e.right.kind = "literal"
  <2>1. a = x /\ b = ValueOf(e) /\ KindOf(e) = e.kind
    BY <1>5, <1>6, LeafFacts DEF ValueOf, KindOf
  <2> HIDE DEF a, b
  <2>2. QED BY <1>4, <1>5, <2>1, SimpleSound
<1>7. CASE e.left.kind = "literal" /\ e.right.kind = "column"
  <2>1. a = ValueOf(e) /\ b = x /\ KindOf(e) = Flip(e.kind)
    BY <1>5, <1>7, LeafFacts DEF ValueOf, KindOf
  <2> HIDE DEF a, b
  <2>2. x \in Int \cup {NaN} /\ ValueOf(e) \in Int \cup {NaN}
    BY <1>4, <1>5, <2>1 DEF Cell
  <2>3. Compare(Flip(e.kind), x, ValueOf(e))
    BY <1>2, <1>4, <2>1, <2>2, FlipTurns
  <2>4. QED BY <1>4, <1>5, <2>1, <2>3, SimpleSound
<1>8. QED BY <1>6, <1>7, SimpleFacts

\* No expression that is true of a cell is ruled out by statistics that admit the cell.
LEMMA TrueMayMatch ==
  ASSUME NEW e \in Trees, NEW x \in Cell, NEW s \in ColumnStatistics, Admits(s, x),
         Evaluate(e, RowOf(x)) = TRUE
  PROVE  MayMatch(e, s)
<1> DEFINE T == {t \in Trees : Evaluate(t, RowOf(x)) = TRUE /\ ~ MayMatch(t, s)}
<1>1. T = {}
  <2> SUFFICES ASSUME T # {} PROVE FALSE
    OBVIOUS
  <2>1. PICK t \in T : \A d \in T : Height[t] <= Height[d]
    <3>1. T \in SUBSET DOMAIN Height /\ Height \in [DOMAIN Height -> Nat]
      BY TreesFounded DEF Founded
    <3> HIDE DEF T
    <3>2. QED BY <3>1, Lowest
  <2>2. t \in Trees /\ Evaluate(t, RowOf(x)) = TRUE /\ ~ MayMatch(t, s)
    OBVIOUS
  <2>3. \A o \in Operands(t) : Evaluate(o, RowOf(x)) = TRUE => MayMatch(o, s)
    <3> TAKE o \in Operands(t)
    <3>1. o \in Trees /\ ~ (Height[t] <= Height[o])
      BY <2>2, OperandFacts
    <3>2. o \notin T
      <4> HIDE DEF T
      <4>1. QED BY <2>1, <3>1
    <3>3. QED BY <3>1, <3>2
  <2> HIDE DEF T
  <2> DEFINE a == Evaluate(t.left, RowOf(x))
             b == Evaluate(t.right, RowOf(x))
             left == MayMatch(t.left, s)
             right == MayMatch(t.right, s)
  <2>4. NodeValue(t, RowOf(x), a, b) = TRUE /\ ~ NodeMayMatch(t, left, right, s)
    BY <2>2, EvaluateFacts, MayMatchFacts
  <2>5. CASE t.kind = "literal"
    <3>1. t.value = TRUE
      BY <2>4, <2>5, NodeCases
    <3>2. QED BY <2>4, <2>5, <3>1, NodeMatched
  <2>6. CASE t.kind \in Connectives
    <3>1. Operands(t) = {t.left, t.right} /\ \A o \in Operands(t) : IsTruth(o)
      BY <2>2, <2>6, KindFacts DEF Connectives, WellTyped
    <3>2. a \in BOOLEAN \cup {Null} /\ b \in BOOLEAN \cup {Null}
      BY <2>2, <3>1, OperandFacts, EvaluateFacts DEF Typed
    <3>3. (a = TRUE => left) /\ (b = TRUE => right)
      BY <2>3, <3>1
    <3>4. Connect(t.kind, a, b) = TRUE
      BY <2>4, <2>6, NodeCases
    <3> HIDE DEF a, b, left, right
    <3>5. CASE t.kind = "and"
      <4>1. a = TRUE /\ b = TRUE
        BY <3>2, <3>4, <3>5, SpecialValues DEF Connect
      <4>2. QED BY <2>4, <3>3, <3>5, <4>1, NodeMatched
    <3>6. CASE t.kind = "or"
      <4>1. a = TRUE \/ b = TRUE
        BY <3>2, <3>4, <3>6, SpecialValues DEF Connect
      <4>2. QED BY <2>4, <3>3, <3>6, <4>1, NodeMatched
    <3>7. QED BY <2>6, <3>5, <3>6 DEF Connectives
  <2>7. CASE t.kind = "isnull" /\ t.left.kind = "column"
    <3>1. t.left \in Trees
      BY <2>2, <2>7, KindFacts, OperandFacts DEF Connectives, Comparisons, Arithmetic,
                                                 Int64Arithmetic, DoubleArithmetic
    <3>2. a = x
      BY <2>7, <3>1, LeafFacts
    <3> HIDE DEF a, b
    <3>3. x = Null
      BY <2>4, <2>7, <3>2, UnaryCases
    <3>4. ~ s.nullsKnown \/ s.nulls # 0
      BY <3>3 DEF Admits, Counts
    <3>5. QED BY <2>4, <2>7, <3>4, NodeMatched
  <2>8. CASE IsSimple(t)
    <3>1. SimpleMayMatch(KindOf(t), ValueOf(t), s)
      BY <2>2, <2>8, SimpleTreeSound
    <3>2. t.kind \in Comparisons
      BY <2>8 DEF IsSimple
    <3>3. QED BY <2>4, <2>8, <3>1, <3>2 DEF NodeMayMatch, Comparisons
  <2>9. CASE ~ (t.kind = "literal" \/ t.kind \in Connectives
                \/ (t.kind = "isnull" /\ t.left.kind = "column") \/ IsSimple(t))
    BY <2>4, <2>9 DEF NodeMayMatch, Connectives
  <2>10. QED BY <2>5, <2>6, <2>7, <2>8, <2>9
<1>2. e \notin T
  BY <1>1
<1>3. QED BY <1>2

-----------------------------------------------------------------------------
\* Cells one after the other, and what analyze() says of them.

\* A sequence of cells, position by position.
LEMMA CellFacts ==
  ASSUME NEW c \in Seq(Cell)
  PROVE  /\ Len(c) \in Nat /\ DOMAIN c = 1 .. Len(c)
         /\ \A i \in DOMAIN c : c[i] \in Cell
         /\ Range(c) = {c[i] : i \in DOMAIN c} /\ Range(c) \subseteq Cell
         /\ Numbers(c) = {x \in Range(c) : x \in Int} /\ Numbers(c) \subseteq Int
<1>1. Len(c) \in Nat /\ DOMAIN c = 1 .. Len(c) /\ \A i \in DOMAIN c : c[i] \in Cell
  OBVIOUS
<1>2. Range(c) = {c[i] : i \in DOMAIN c} /\ Range(c) \subseteq Cell
  BY <1>1 DEF Range
<1>3. Numbers(c) = {x \in Range(c) : x \in Int}
  BY <1>2, SpecialValues DEF Numbers, Cell
<1>4. QED BY <1>1, <1>2, <1>3

\* Two sequences of cells, one after the other.
LEMMA Concatenated ==
  ASSUME NEW c \in Seq(Cell), NEW d \in Seq(Cell)
  PROVE  /\ c \o d \in Seq(Cell) /\ Len(c \o d) = Len(c) + Len(d)
         /\ \A i \in 1 .. Len(c) : (c \o d)[i] = c[i]
         /\ \A i \in 1 .. Len(d) : (c \o d)[i + Len(c)] = d[i]
         /\ Range(c \o d) = Range(c) \cup Range(d)
<1>1. /\ c \o d \in Seq(Cell) /\ Len(c \o d) = Len(c) + Len(d)
      /\ \A i \in 1 .. Len(c) + Len(d) :
           (c \o d)[i] = IF i <= Len(c) THEN c[i] ELSE d[i - Len(c)]
  BY ConcatProperties
<1>2. \A i \in 1 .. Len(c) : i \in 1 .. Len(c) + Len(d) /\ (c \o d)[i] = c[i]
  BY <1>1, CellFacts
<1>3. \A i \in 1 .. Len(d) : /\ i + Len(c) \in 1 .. Len(c) + Len(d)
                             /\ (c \o d)[i + Len(c)] = d[i]
  <2> TAKE i \in 1 .. Len(d)
  <2>1. Len(c) \in Nat /\ Len(d) \in Nat
    BY CellFacts
  <2>2. i + Len(c) \in 1 .. Len(c) + Len(d) /\ ~ (i + Len(c) <= Len(c)) /\ i + Len(c) - Len(c) = i
    BY <2>1
  <2>3. QED BY <1>1, <2>2
<1>4. \A x : x \in Range(c \o d) <=> x \in Range(c) \/ x \in Range(d)
  <2> TAKE x
  <2>1. /\ Range(c \o d) = {(c \o d)[i] : i \in 1 .. Len(c) + Len(d)}
        /\ Range(c) = {c[i] : i \in 1 .. Len(c)} /\ Range(d) = {d[i] : i \in 1 .. Len(d)}
        /\ Len(c) \in Nat /\ Len(d) \in Nat
    BY <1>1, CellFacts
  <2>2. x \in Range(c) \/ x \in Range(d) => x \in Range(c \o d)
    BY <1>2, <1>3, <2>1
  <2>3. ASSUME NEW i \in 1 .. Len(c) + Len(d), x = (c \o d)[i]
        PROVE  x \in Range(c) \/ x \in Range(d)
    <3>1. i <= Len(c) => i \in 1 .. Len(c)
      BY <2>1
    <3>2. ~ (i <= Len(c)) => i - Len(c) \in 1 .. Len(d)
      BY <2>1
    <3>3. QED BY <1>1, <2>1, <2>3, <3>1, <3>2
  <2>4. QED BY <2>1, <2>2, <2>3
<1>5. Range(c \o d) = Range(c) \cup Range(d)
  BY <1>4
<1>6. QED BY <1>1, <1>2, <1>3, <1>5

\* The NULLs of a sequence, counted.
NullsOf(c) == {i \in DOMAIN c : c[i] = Null}

\* The count of the nulls is that of a finite set, at most the number of the rows.
LEMMA NullCount ==
  ASSUME NEW c \in Seq(Cell)
  PROVE  /\ IsFiniteSet(NullsOf(c)) /\ NullsIn(c) = Cardinality(NullsOf(c))
         /\ NullsIn(c) \in Nat /\ NullsIn(c) <= Len(c)
         /\ Null \in Range(c) => NullsIn(c) # 0
         /\ \A x \in Range(c) : x # Null => NullsIn(c) < Len(c)
<1>1. Len(c) \in Nat /\ DOMAIN c = 1 .. Len(c) /\ Range(c) = {c[i] : i \in DOMAIN c}
  BY CellFacts
<1>2. IsFiniteSet(1 .. Len(c)) /\ Cardinality(1 .. Len(c)) = Len(c)
  BY <1>1, FS_Interval
<1>3. NullsOf(c) \in SUBSET (1 .. Len(c))
  BY <1>1 DEF NullsOf
<1>4. /\ IsFiniteSet(NullsOf(c)) /\ Cardinality(NullsOf(c)) <= Len(c)
      /\ Len(c) = Cardinality(NullsOf(c)) => 1 .. Len(c) = NullsOf(c)
  BY <1>2, <1>3, FS_Subset
<1>5. Cardinality(NullsOf(c)) \in Nat /\ (Cardinality(NullsOf(c)) = 0 <=> NullsOf(c) = {})
  BY <1>4, FS_CardinalityType, FS_EmptySet
<1>6. NullsIn(c) = Cardinality(NullsOf(c))
  BY DEF NullsIn, NullsOf
<1>7. Null \in Range(c) => NullsOf(c) # {}
  BY <1>1 DEF NullsOf
<1>8. ASSUME NEW x \in Range(c), x # Null PROVE 1 .. Len(c) # NullsOf(c)
  BY <1>1, <1>8 DEF NullsOf
<1> DEFINE n == Cardinality(NullsOf(c))
<1>9. n \in Nat /\ n <= Len(c) /\ (Null \in Range(c) => n # 0)
  BY <1>4, <1>5, <1>7
<1>10. ASSUME NEW x \in Range(c), x # Null PROVE n < Len(c)
  <2>1. Len(c) # n
    BY <1>4, <1>8, <1>10
  <2>2. Len(c) \in Nat /\ n \in Nat /\ n <= Len(c)
    BY <1>1, <1>9
  <2> HIDE DEF n
  <2>3. QED BY <2>1, <2>2
<1>11. QED BY <1>4, <1>6, <1>9, <1>10

\* One after the other, the NULLs add up.
LEMMA NullsAdd ==
  ASSUME NEW c \in Seq(Cell), NEW d \in Seq(Cell)
  PROVE  NullsIn(c \o d) = NullsIn(c) + NullsIn(d)
<1> DEFINE shifted == {i + Len(c) : i \in NullsOf(d)}
           f == [i \in NullsOf(d) |-> i + Len(c)]
<1>1. /\ Len(c) \in Nat /\ DOMAIN c = 1 .. Len(c)
      /\ Len(d) \in Nat /\ DOMAIN d = 1 .. Len(d)
      /\ c \o d \in Seq(Cell) /\ Len(c \o d) = Len(c) + Len(d)
      /\ DOMAIN (c \o d) = 1 .. Len(c) + Len(d)
  <2>1. c \o d \in Seq(Cell) /\ Len(c \o d) = Len(c) + Len(d)
    BY Concatenated
  <2>2. QED BY <2>1, CellFacts
<1>2. NullsOf(c \o d) = NullsOf(c) \cup shifted
  <2>1. ASSUME NEW i \in NullsOf(c \o d) PROVE i \in NullsOf(c) \cup shifted
    <3>1. i \in 1 .. Len(c) + Len(d) /\ (c \o d)[i] = Null
      BY <1>1 DEF NullsOf
    <3>2. CASE i <= Len(c)
      <4>1. i \in 1 .. Len(c)
        BY <1>1, <3>1, <3>2
      <4>2. c[i] = Null
        BY <3>1, <4>1, Concatenated
      <4>3. QED BY <1>1, <4>1, <4>2 DEF NullsOf
    <3>3. CASE ~ (i <= Len(c))
      <4>1. i - Len(c) \in 1 .. Len(d) /\ i = (i - Len(c)) + Len(c)
        BY <1>1, <3>1, <3>3
      <4>2. d[i - Len(c)] = Null
        <5> DEFINE j == i - Len(c)
        <5>1. j \in 1 .. Len(d) /\ i = j + Len(c)
          BY <4>1
        <5> HIDE DEF j
        <5>2. d[j] = Null
          BY <3>1, <5>1, Concatenated
        <5>3. QED BY <5>2 DEF j
      <4>3. i - Len(c) \in NullsOf(d)
        BY <1>1, <4>1, <4>2 DEF NullsOf
      <4>4. QED BY <4>1, <4>3
    <3>4. QED BY <3>2, <3>3
  <2>2. ASSUME NEW i \in NullsOf(c) PROVE i \in NullsOf(c \o d)
    <3>1. i \in 1 .. Len(c) /\ c[i] = Null
      BY <1>1 DEF NullsOf
    <3>2. i \in 1 .. Len(c) + Len(d)
      BY <1>1, <3>1
    <3>3. QED BY <1>1, <3>1, <3>2, Concatenated DEF NullsOf
  <2>3. ASSUME NEW i \in NullsOf(d) PROVE i + Len(c) \in NullsOf(c \o d)
    <3>1. i \in 1 .. Len(d) /\ d[i] = Null
      BY <1>1 DEF NullsOf
    <3>2. i + Len(c) \in 1 .. Len(c) + Len(d)
      BY <1>1, <3>1
    <3>3. QED BY <1>1, <3>1, <3>2, Concatenated DEF NullsOf
  <2>4. QED BY <2>1, <2>2, <2>3
<1>3. NullsOf(c) \cap shifted = {}
  BY <1>1 DEF NullsOf
<1>4. IsFiniteSet(shifted) /\ Cardinality(shifted) = Cardinality(NullsOf(d))
  <2>1. f \in Bijection(NullsOf(d), shifted)
    <3>1. f \in [NullsOf(d) -> shifted]
      OBVIOUS
    <3>2. \A i, j \in NullsOf(d) : f[i] = f[j] => i = j
      BY <1>1 DEF NullsOf
    <3>3. \A y \in shifted : \E i \in NullsOf(d) : f[i] = y
      OBVIOUS
    <3>4. QED BY <3>1, <3>2, <3>3 DEF Bijection, Injection, Surjection, IsInjective
  <2>2. ExistsBijection(NullsOf(d), shifted)
    BY <2>1 DEF ExistsBijection
  <2>3. IsFiniteSet(NullsOf(d))
    BY NullCount
  <2> HIDE DEF shifted
  <2>4. QED BY <2>2, <2>3, FS_Bijection
<1> HIDE DEF shifted
<1>5. Cardinality(NullsOf(c \o d)) = Cardinality(NullsOf(c)) + Cardinality(shifted) - Cardinality({})
  <2>1. IsFiniteSet(NullsOf(c))
    BY NullCount
  <2>2. Cardinality(NullsOf(c) \cup shifted)
          = Cardinality(NullsOf(c)) + Cardinality(shifted) - Cardinality(NullsOf(c) \cap shifted)
    BY <1>4, <2>1, FS_Union
  <2>3. QED BY <1>2, <1>3, <2>2
<1>6. /\ NullsIn(c) = Cardinality(NullsOf(c)) /\ NullsIn(c) \in Nat
      /\ NullsIn(d) = Cardinality(NullsOf(d)) /\ NullsIn(d) \in Nat
      /\ NullsIn(c \o d) = Cardinality(NullsOf(c \o d))
  BY <1>1, NullCount
<1>7. QED BY <1>4, <1>5, <1>6, FS_EmptySet

\* The numbers of a sequence that has some have a least and a greatest.
LEMMA NumbersBounded ==
  ASSUME NEW c \in Seq(Cell), Numbers(c) # {}
  PROVE  \E low, high \in Numbers(c) : \A x \in Numbers(c) : low <= x /\ x <= high
<1> DEFINE S(n) == {x \in Int : \E i \in 1 .. n : c[i] = x}
           G(n) == S(n) # {} => \E low, high \in S(n) : \A x \in S(n) : low <= x /\ x <= high
           T == {n \in 0 .. Len(c) : ~ G(n)}
<1>1. Len(c) \in Nat
  BY CellFacts
<1>2. T = {}
  <2> SUFFICES ASSUME T # {} PROVE FALSE
    OBVIOUS
  <2>1. PICK n \in T : \A m \in T : n <= m
    <3>1. T \in SUBSET Nat
      BY <1>1
    <3> HIDE DEF T
    <3>2. QED BY <3>1, Least
  <2>2. n \in 0 .. Len(c) /\ ~ G(n)
    OBVIOUS
  <2>3. n # 0
    <3>1. S(0) = {}
      OBVIOUS
    <3> HIDE DEF S
    <3>2. QED BY <2>2, <3>1
  <2>4. n - 1 \in 0 .. Len(c) /\ n \in Nat /\ ~ (n <= n - 1)
    BY <1>1, <2>2, <2>3
  <2>5. G(n - 1)
    <3>1. n - 1 \notin T
      <4> HIDE DEF T
      <4>1. QED BY <2>1, <2>4
    <3> HIDE DEF G
    <3>2. QED BY <2>4, <3>1
  <2>6. S(n) = IF c[n] \in Int THEN S(n - 1) \cup {c[n]} ELSE S(n - 1)
    <3>1. \A i : i \in 1 .. n <=> i \in 1 .. n - 1 \/ i = n
      BY <2>3, <2>4
    <3>2. QED BY <3>1
  <2>7. S(n - 1) \subseteq Int
    OBVIOUS
  <2> HIDE DEF S
  <2>8. CASE c[n] \notin Int
    BY <2>2, <2>5, <2>6, <2>8
  <2>9. CASE c[n] \in Int /\ S(n - 1) = {}
    <3>1. S(n) = {c[n]}
      BY <2>6, <2>9
    <3>2. c[n] \in S(n) /\ \A x \in S(n) : x = c[n]
      BY <3>1
    <3>3. PICK z \in S(n) : z \in Int /\ \A x \in S(n) : x = z
      BY <2>9, <3>2
    <3>4. \A x \in S(n) : z <= x /\ x <= z
      BY <3>3
    <3>5. \E low, high \in S(n) : \A x \in S(n) : low <= x /\ x <= high
      BY <3>4
    <3>6. QED BY <2>2, <3>5
  <2>10. CASE c[n] \in Int /\ S(n - 1) # {}
    <3>1. PICK low \in S(n - 1), high \in S(n - 1) :
                 \A x \in S(n - 1) : low <= x /\ x <= high
      BY <2>5, <2>10
    <3>2. S(n) = S(n - 1) \cup {c[n]}
      BY <2>6, <2>10
    <3> DEFINE lo == IF c[n] < low THEN c[n] ELSE low
               hi == IF high < c[n] THEN c[n] ELSE high
    <3>3. c[n] \in Int /\ low \in Int /\ high \in Int
      BY <2>7, <2>10
    <3>4. lo \in S(n) /\ hi \in S(n)
      BY <3>2
    <3>5. lo \in Int /\ hi \in Int /\ lo <= c[n] /\ lo <= low /\ c[n] <= hi /\ high <= hi
      BY <3>3
    <3> HIDE DEF lo, hi
    <3>6. ASSUME NEW x \in S(n) PROVE lo <= x /\ x <= hi
      <4>1. CASE x = c[n]
        BY <3>5, <4>1
      <4>2. CASE x \in S(n - 1)
        <5>1. x \in Int /\ low <= x /\ x <= high
          BY <2>7, <3>1, <4>2
        <5>2. lo <= x
          BY <3>3, <3>5, <5>1
        <5>3. x <= hi
          BY <3>3, <3>5, <5>1
        <5>4. QED BY <5>2, <5>3
      <4>3. QED BY <3>2, <3>6, <4>1, <4>2
    <3>7. QED BY <2>2, <3>4, <3>6
  <2>11. QED BY <2>8, <2>9, <2>10
<1>3. Numbers(c) = S(Len(c))
  BY CellFacts
<1>4. Len(c) \in 0 .. Len(c) /\ Len(c) \notin T
  <2> HIDE DEF T
  <2>1. QED BY <1>1, <1>2
<1>5. G(Len(c))
  <2> HIDE DEF G
  <2>1. QED BY <1>4
<1> HIDE DEF S
<1>6. QED BY <1>3, <1>5

\* What Min and Max choose.
LEMMA MinMax ==
  ASSUME NEW S \in SUBSET Int, NEW low \in S, NEW high \in S,
         \A x \in S : low <= x /\ x <= high
  PROVE  Min(S) = low /\ Max(S) = high
<1>1. \A y \in S : (\A x \in S : y <= x) => y = low
  OBVIOUS
<1>2. \A y \in S : (\A x \in S : y >= x) => y = high
  OBVIOUS
<1>3. Min(S) = low
  BY <1>1 DEF Min
<1>4. Max(S) = high
  BY <1>2 DEF Max
<1>5. QED BY <1>3, <1>4

\* The bounds that analyze() gives.
LEMMA AnalyzeBounds ==
  ASSUME NEW c \in Seq(Cell)
  PROVE  \/ Numbers(c) = {} /\ Analyze(c).minimum = None /\ Analyze(c).maximum = None
         \/ /\ Analyze(c).minimum \in Numbers(c) /\ Analyze(c).maximum \in Numbers(c)
            /\ \A x \in Numbers(c) : Analyze(c).minimum <= x /\ x <= Analyze(c).maximum
<1>1. CASE Numbers(c) = {}
  BY <1>1 DEF Analyze
<1>2. CASE Numbers(c) # {}
  <2>1. PICK low \in Numbers(c), high \in Numbers(c) : \A x \in Numbers(c) : low <= x /\ x <= high
    BY <1>2, NumbersBounded
  <2>2. Min(Numbers(c)) = low /\ Max(Numbers(c)) = high
    BY <2>1, CellFacts, MinMax
  <2>3. Analyze(c).minimum = low /\ Analyze(c).maximum = high
    BY <1>2, <2>2 DEF Analyze
  <2>4. QED BY <2>1, <2>3
<1>3. QED BY <1>1, <1>2

\* analyze() gives statistics that admit every cell.
LEMMA AnalyzeFacts ==
  ASSUME NEW c \in Seq(Cell)
  PROVE  /\ Analyze(c) \in ColumnStatistics
         /\ Analyze(c).rows = Len(c) /\ Analyze(c).nulls = NullsIn(c) /\ Analyze(c).nullsKnown
         /\ Analyze(c).nulls <= Analyze(c).rows
         /\ \A x \in Range(c) : Counts(Analyze(c), x) /\ Encloses(Analyze(c), x)
<1>1. /\ Analyze(c).rows = Len(c) /\ Analyze(c).nulls = NullsIn(c)
      /\ Analyze(c).nullsKnown = TRUE /\ Analyze(c).hasNaN = (NaN \in Range(c))
  BY DEF Analyze
<1>2. Len(c) \in Nat /\ NullsIn(c) \in Nat /\ NullsIn(c) <= Len(c)
  BY CellFacts, NullCount
<1>3. Analyze(c).minimum \in Bound /\ Analyze(c).maximum \in Bound
  BY AnalyzeBounds, CellFacts DEF Bound
<1>4. Analyze(c) \in ColumnStatistics
  <2>1. Analyze(c) = [rows |-> Analyze(c).rows, nulls |-> Analyze(c).nulls,
                      nullsKnown |-> Analyze(c).nullsKnown, hasNaN |-> Analyze(c).hasNaN,
                      minimum |-> Analyze(c).minimum, maximum |-> Analyze(c).maximum]
    BY DEF Analyze
  <2>2. Analyze(c).nullsKnown \in BOOLEAN /\ Analyze(c).hasNaN \in BOOLEAN
    BY DEF Analyze
  <2>3. Analyze(c).rows \in Nat /\ Analyze(c).nulls \in Nat
    BY <1>1, <1>2
  <2>4. QED BY <1>3, <2>1, <2>2, <2>3 DEF ColumnStatistics
<1>5. ASSUME NEW x \in Range(c) PROVE Counts(Analyze(c), x)
  <2>1. x = Null => NullsIn(c) # 0
    BY NullCount
  <2>2. x # Null => NullsIn(c) # Len(c)
    BY <1>2, NullCount
  <2>3. QED BY <1>1, <2>1, <2>2 DEF Counts
<1>6. ASSUME NEW x \in Range(c) PROVE Encloses(Analyze(c), x)
  <2>1. SUFFICES ASSUME x \in Int
                 PROVE  /\ Analyze(c).minimum # None /\ Analyze(c).minimum <= x
                        /\ Analyze(c).maximum # None /\ x <= Analyze(c).maximum
    BY DEF Encloses
  <2>2. x \in Numbers(c) /\ Numbers(c) \subseteq Int
    BY <2>1, CellFacts
  <2>3. QED BY <2>2, AnalyzeBounds, SpecialValues DEF None
<1>7. QED BY <1>1, <1>2, <1>4, <1>5, <1>6

-----------------------------------------------------------------------------
\* merge_statistics(): what two groups have together.

\* The lesser and the greater of two numbers.
LEMMA PairBounds ==
  ASSUME NEW a \in Int, NEW b \in Int
  PROVE  /\ Min({a, b}) \in {a, b} /\ Min({a, b}) <= a /\ Min({a, b}) <= b
         /\ Max({a, b}) \in {a, b} /\ a <= Max({a, b}) /\ b <= Max({a, b})
<1>1. {a, b} \in SUBSET Int
  OBVIOUS
<1>2. CASE a <= b
  <2>1. \A x \in {a, b} : a <= x /\ x <= b
    BY <1>2
  <2>2. Min({a, b}) = a /\ Max({a, b}) = b
    BY <1>1, <2>1, MinMax
  <2>3. QED BY <1>2, <2>2
<1>3. CASE b <= a
  <2>1. \A x \in {a, b} : b <= x /\ x <= a
    BY <1>3
  <2>2. Min({a, b}) = b /\ Max({a, b}) = a
    BY <1>1, <2>1, MinMax
  <2>3. QED BY <1>3, <2>2
<1>4. QED BY <1>2, <1>3

\* A bound of two groups is a bound of both, and one of theirs.
LEMMA BoundsMerge ==
  ASSUME NEW a \in Bound, NEW b \in Bound
  PROVE  /\ Lower(a, b) \in {a, b} /\ Upper(a, b) \in {a, b}
         /\ a = None => Lower(a, b) = b /\ Upper(a, b) = b
         /\ b = None => Lower(a, b) = a /\ Upper(a, b) = a
         /\ a # None => /\ Lower(a, b) # None /\ Lower(a, b) <= a
                        /\ Upper(a, b) # None /\ a <= Upper(a, b)
         /\ b # None => /\ Lower(a, b) # None /\ Lower(a, b) <= b
                        /\ Upper(a, b) # None /\ b <= Upper(a, b)
<1>1. None \notin Int
  BY SpecialValues DEF None
<1>2. CASE a = None \/ b = None
  BY <1>1, <1>2 DEF Lower, Upper, Bound
<1>3. CASE a # None /\ b # None
  <2>1. a \in Int /\ b \in Int
    BY <1>3 DEF Bound
  <2>2. Lower(a, b) = Min({a, b}) /\ Upper(a, b) = Max({a, b})
    BY <1>3 DEF Lower, Upper
  <2>3. /\ Lower(a, b) \in {a, b} /\ Lower(a, b) <= a /\ Lower(a, b) <= b
        /\ Upper(a, b) \in {a, b} /\ a <= Upper(a, b) /\ b <= Upper(a, b)
    BY <2>1, <2>2, PairBounds
  <2>4. QED BY <1>3, <2>3
<1>4. QED BY <1>2, <1>3

\* The fields of merged statistics.
LEMMA MergeFacts ==
  ASSUME NEW a \in ColumnStatistics, NEW b \in ColumnStatistics
  PROVE  /\ Merge(a, b) \in ColumnStatistics
         /\ Merge(a, b).rows = a.rows + b.rows /\ Merge(a, b).nulls = a.nulls + b.nulls
         /\ Merge(a, b).nullsKnown = (a.nullsKnown /\ b.nullsKnown)
         /\ Merge(a, b).hasNaN = (a.hasNaN \/ b.hasNaN)
         /\ Merge(a, b).minimum = Lower(a.minimum, b.minimum)
         /\ Merge(a, b).maximum = Upper(a.maximum, b.maximum)
<1>1. /\ Merge(a, b).rows = a.rows + b.rows /\ Merge(a, b).nulls = a.nulls + b.nulls
      /\ Merge(a, b).nullsKnown = (a.nullsKnown /\ b.nullsKnown)
      /\ Merge(a, b).hasNaN = (a.hasNaN \/ b.hasNaN)
      /\ Merge(a, b).minimum = Lower(a.minimum, b.minimum)
      /\ Merge(a, b).maximum = Upper(a.maximum, b.maximum)
  BY DEF Merge, RowsMerged
<1>2. /\ a.rows \in Nat /\ a.nulls \in Nat /\ a.minimum \in Bound /\ a.maximum \in Bound
      /\ b.rows \in Nat /\ b.nulls \in Nat /\ b.minimum \in Bound /\ b.maximum \in Bound
  BY DEF ColumnStatistics
<1>3. Merge(a, b).rows \in Nat /\ Merge(a, b).nulls \in Nat
  BY <1>1, <1>2
<1>4. Merge(a, b).minimum \in Bound /\ Merge(a, b).maximum \in Bound
  <2>1. /\ Lower(a.minimum, b.minimum) \in {a.minimum, b.minimum}
        /\ Upper(a.maximum, b.maximum) \in {a.maximum, b.maximum}
    BY <1>2, BoundsMerge
  <2>2. QED BY <1>1, <1>2, <2>1
<1>5. Merge(a, b).nullsKnown \in BOOLEAN /\ Merge(a, b).hasNaN \in BOOLEAN
  BY DEF Merge
<1>6. Merge(a, b) = [rows |-> Merge(a, b).rows, nulls |-> Merge(a, b).nulls,
                     nullsKnown |-> Merge(a, b).nullsKnown, hasNaN |-> Merge(a, b).hasNaN,
                     minimum |-> Merge(a, b).minimum, maximum |-> Merge(a, b).maximum]
  BY DEF Merge
<1>7. Merge(a, b) \in ColumnStatistics
  BY <1>3, <1>4, <1>5, <1>6 DEF ColumnStatistics
<1>8. QED BY <1>1, <1>7

\* Merging keeps what either side knows of a cell.
LEMMA MergeCounts ==
  ASSUME NEW a \in ColumnStatistics, NEW b \in ColumnStatistics, NEW x,
         a.nulls <= a.rows, b.nulls <= b.rows
  PROVE  /\ Merge(a, b).nulls <= Merge(a, b).rows
         /\ Counts(a, x) \/ Counts(b, x) => Counts(Merge(a, b), x)
<1>1. /\ a.rows \in Nat /\ a.nulls \in Nat /\ b.rows \in Nat /\ b.nulls \in Nat
  BY DEF ColumnStatistics
<1>2. /\ Merge(a, b).rows = a.rows + b.rows /\ Merge(a, b).nulls = a.nulls + b.nulls
      /\ Merge(a, b).nullsKnown = (a.nullsKnown /\ b.nullsKnown)
      /\ Merge(a, b).hasNaN = (a.hasNaN \/ b.hasNaN)
  BY MergeFacts
<1>3. Merge(a, b).nulls <= Merge(a, b).rows
  BY <1>1, <1>2
<1>4. a.nulls # 0 \/ b.nulls # 0 => Merge(a, b).nulls # 0
  BY <1>1, <1>2
<1>5. a.nulls # a.rows \/ b.nulls # b.rows => Merge(a, b).nulls # Merge(a, b).rows
  BY <1>1, <1>2
<1>6. Counts(a, x) => Counts(Merge(a, b), x)
  BY <1>2, <1>4, <1>5 DEF Counts
<1>7. Counts(b, x) => Counts(Merge(a, b), x)
  BY <1>2, <1>4, <1>5 DEF Counts
<1>8. QED BY <1>3, <1>6, <1>7

\* merge_statistics() on bounds: what one of the two encloses, both together do.
LEMMA MergeEncloses ==
  ASSUME NEW a \in ColumnStatistics, NEW b \in ColumnStatistics, NEW x,
         Encloses(a, x) \/ Encloses(b, x)
  PROVE  Encloses(Merge(a, b), x)
<1> SUFFICES ASSUME x \in Int
             PROVE  /\ Merge(a, b).minimum # None /\ Merge(a, b).minimum <= x
                    /\ Merge(a, b).maximum # None /\ x <= Merge(a, b).maximum
  BY DEF Encloses
<1>1. /\ a.minimum \in Bound /\ a.maximum \in Bound /\ b.minimum \in Bound /\ b.maximum \in Bound
  BY DEF ColumnStatistics
<1> DEFINE low == Merge(a, b).minimum
           high == Merge(a, b).maximum
<1>2. low = Lower(a.minimum, b.minimum) /\ high = Upper(a.maximum, b.maximum)
  BY MergeFacts
<1>3. low \in Bound /\ high \in Bound
  BY MergeFacts DEF ColumnStatistics
<1> HIDE DEF low, high
<1>4. CASE Encloses(a, x)
  <2>1. a.minimum # None /\ a.minimum <= x /\ a.maximum # None /\ x <= a.maximum
    BY <1>4 DEF Encloses
  <2>2. low # None /\ low <= a.minimum
    BY <1>1, <1>2, <2>1, BoundsMerge
  <2>3. high # None /\ a.maximum <= high
    BY <1>1, <1>2, <2>1, BoundsMerge
  <2>4. low \in Int /\ high \in Int /\ a.minimum \in Int /\ a.maximum \in Int
    BY <1>1, <1>3, <2>1, <2>2, <2>3 DEF Bound
  <2>5. low <= x /\ x <= high
    BY <2>1, <2>2, <2>3, <2>4
  <2>6. QED BY <2>2, <2>3, <2>5 DEF low, high
<1>5. CASE Encloses(b, x)
  <2>1. b.minimum # None /\ b.minimum <= x /\ b.maximum # None /\ x <= b.maximum
    BY <1>5 DEF Encloses
  <2>2. low # None /\ low <= b.minimum
    BY <1>1, <1>2, <2>1, BoundsMerge
  <2>3. high # None /\ b.maximum <= high
    BY <1>1, <1>2, <2>1, BoundsMerge
  <2>4. low \in Int /\ high \in Int /\ b.minimum \in Int /\ b.maximum \in Int
    BY <1>1, <1>3, <2>1, <2>2, <2>3 DEF Bound
  <2>5. low <= x /\ x <= high
    BY <2>1, <2>2, <2>3, <2>4
  <2>6. QED BY <2>2, <2>3, <2>5 DEF low, high
<1>6. QED BY <1>4, <1>5

\* A bound of a set of numbers: none when there are none.
LeastOf(S, m) == IF S = {} THEN m = None ELSE m \in S /\ \A x \in S : m <= x
GreatestOf(S, m) == IF S = {} THEN m = None ELSE m \in S /\ \A x \in S : x <= m

\* The least of two sets of numbers is what merge_statistics() keeps of their two least.
LEMMA LowestOfBoth ==
  ASSUME NEW S \in SUBSET Int, NEW T \in SUBSET Int, NEW a, NEW b, NEW m,
         LeastOf(S, a), LeastOf(T, b), LeastOf(S \cup T, m)
  PROVE  m = Lower(a, b)
<1>1. None \notin Int
  BY SpecialValues DEF None
<1>2. CASE S = {}
  <2>1. a = None /\ S \cup T = T
    BY <1>2 DEF LeastOf
  <2>2. LeastOf(T, m)
    BY <2>1
  <2>3. CASE T = {}
    BY <2>1, <2>2, <2>3 DEF LeastOf, Lower
  <2>4. CASE T # {}
    <3>1. /\ b \in T /\ m \in T /\ b <= m /\ m <= b
      BY <2>2, <2>4 DEF LeastOf
    <3>2. b = m
      BY <3>1
    <3>3. QED BY <2>1, <3>2 DEF Lower
  <2>5. QED BY <2>3, <2>4
<1>3. CASE S # {} /\ T = {}
  <2>1. b = None /\ S \cup T = S
    BY <1>3 DEF LeastOf
  <2>2. LeastOf(S, m)
    BY <2>1
  <2>3. a \in S /\ m \in S /\ a <= m /\ m <= a
    BY <1>3, <2>2 DEF LeastOf
  <2>4. a = m /\ a # None
    BY <1>1, <2>3
  <2>5. QED BY <2>1, <2>4 DEF Lower
<1>4. CASE S # {} /\ T # {}
  <2>1. /\ a \in S /\ \A x \in S : a <= x
        /\ b \in T /\ \A x \in T : b <= x
        /\ m \in S \cup T /\ \A x \in S \cup T : m <= x
    BY <1>4 DEF LeastOf
  <2>2. a \in Int /\ b \in Int /\ m \in Int
    BY <2>1
  <2>3. Lower(a, b) = Min({a, b})
    BY <1>1, <2>2 DEF Lower
  <2>4. m <= a /\ m <= b /\ (a <= m \/ b <= m)
    BY <2>1
  <2>5. Min({a, b}) \in {a, b} /\ Min({a, b}) <= a /\ Min({a, b}) <= b
    BY <2>2, PairBounds
  <2> DEFINE z == Min({a, b})
  <2>6. z \in {a, b} /\ z <= a /\ z <= b
    BY <2>5
  <2> HIDE DEF z
  <2>7. m = z
    BY <2>2, <2>4, <2>6
  <2>8. QED BY <2>3, <2>7 DEF z
<1>5. QED BY <1>2, <1>3, <1>4

\* And likewise the greatest.
LEMMA HighestOfBoth ==
  ASSUME NEW S \in SUBSET Int, NEW T \in SUBSET Int, NEW a, NEW b, NEW m,
         GreatestOf(S, a), GreatestOf(T, b), GreatestOf(S \cup T, m)
  PROVE  m = Upper(a, b)
<1>1. None \notin Int
  BY SpecialValues DEF None
<1>2. CASE S = {}
  <2>1. a = None /\ S \cup T = T
    BY <1>2 DEF GreatestOf
  <2>2. GreatestOf(T, m)
    BY <2>1
  <2>3. CASE T = {}
    BY <2>1, <2>2, <2>3 DEF GreatestOf, Upper
  <2>4. CASE T # {}
    <3>1. /\ b \in T /\ m \in T /\ b <= m /\ m <= b
      BY <2>2, <2>4 DEF GreatestOf
    <3>2. b = m
      BY <3>1
    <3>3. QED BY <2>1, <3>2 DEF Upper
  <2>5. QED BY <2>3, <2>4
<1>3. CASE S # {} /\ T = {}
  <2>1. b = None /\ S \cup T = S
    BY <1>3 DEF GreatestOf
  <2>2. GreatestOf(S, m)
    BY <2>1
  <2>3. a \in S /\ m \in S /\ a <= m /\ m <= a
    BY <1>3, <2>2 DEF GreatestOf
  <2>4. a = m /\ a # None
    BY <1>1, <2>3
  <2>5. QED BY <2>1, <2>4 DEF Upper
<1>4. CASE S # {} /\ T # {}
  <2>1. /\ a \in S /\ \A x \in S : x <= a
        /\ b \in T /\ \A x \in T : x <= b
        /\ m \in S \cup T /\ \A x \in S \cup T : x <= m
    BY <1>4 DEF GreatestOf
  <2>2. a \in Int /\ b \in Int /\ m \in Int
    BY <2>1
  <2>3. Upper(a, b) = Max({a, b})
    BY <1>1, <2>2 DEF Upper
  <2>4. a <= m /\ b <= m /\ (m <= a \/ m <= b)
    BY <2>1
  <2>5. Max({a, b}) \in {a, b} /\ a <= Max({a, b}) /\ b <= Max({a, b})
    BY <2>2, PairBounds
  <2> DEFINE z == Max({a, b})
  <2>6. z \in {a, b} /\ a <= z /\ b <= z
    BY <2>5
  <2> HIDE DEF z
  <2>7. m = z
    BY <2>2, <2>4, <2>6
  <2>8. QED BY <2>3, <2>7 DEF z
<1>5. QED BY <1>2, <1>3, <1>4

\* analyze() finds the least and the greatest number, when there are any.
LEMMA AnalyzeExtremes ==
  ASSUME NEW c \in Seq(Cell)
  PROVE  LeastOf(Numbers(c), Analyze(c).minimum) /\ GreatestOf(Numbers(c), Analyze(c).maximum)
<1>1. CASE Numbers(c) = {}
  <2>1. Analyze(c).minimum = None /\ Analyze(c).maximum = None
    BY <1>1 DEF Analyze
  <2>2. QED BY <1>1, <2>1 DEF LeastOf, GreatestOf
<1>2. CASE Numbers(c) # {}
  <2>1. /\ Analyze(c).minimum \in Numbers(c) /\ Analyze(c).maximum \in Numbers(c)
        /\ \A x \in Numbers(c) : Analyze(c).minimum <= x /\ x <= Analyze(c).maximum
    BY <1>2, AnalyzeBounds
  <2>2. QED BY <1>2, <2>1 DEF LeastOf, GreatestOf
<1>3. QED BY <1>1, <1>2

\* Analysed group by group and merged is analysed all at once.
LEMMA MergeAnalyzed ==
  ASSUME NEW c \in Seq(Cell), NEW d \in Seq(Cell)
  PROVE  Merge(Analyze(c), Analyze(d)) = Analyze(c \o d)
<1>1. c \o d \in Seq(Cell) /\ Len(c \o d) = Len(c) + Len(d) /\ Range(c \o d) = Range(c) \cup Range(d)
  BY Concatenated
<1>2. Numbers(c \o d) = Numbers(c) \cup Numbers(d)
  BY <1>1 DEF Numbers
<1>3. /\ LeastOf(Numbers(c), Analyze(c).minimum) /\ GreatestOf(Numbers(c), Analyze(c).maximum)
      /\ LeastOf(Numbers(d), Analyze(d).minimum) /\ GreatestOf(Numbers(d), Analyze(d).maximum)
      /\ LeastOf(Numbers(c) \cup Numbers(d), Analyze(c \o d).minimum)
      /\ GreatestOf(Numbers(c) \cup Numbers(d), Analyze(c \o d).maximum)
  BY <1>1, <1>2, AnalyzeExtremes
<1>4. Numbers(c) \in SUBSET Int /\ Numbers(d) \in SUBSET Int
  BY CellFacts
<1>5. Lower(Analyze(c).minimum, Analyze(d).minimum) = Analyze(c \o d).minimum
  BY <1>3, <1>4, LowestOfBoth
<1>6. Upper(Analyze(c).maximum, Analyze(d).maximum) = Analyze(c \o d).maximum
  BY <1>3, <1>4, HighestOfBoth
<1>7. Analyze(c).nulls + Analyze(d).nulls = Analyze(c \o d).nulls
  <2>1. NullsIn(c \o d) = NullsIn(c) + NullsIn(d)
    BY NullsAdd
  <2>2. QED BY <1>1, <2>1, AnalyzeFacts
<1>8. Analyze(c).rows + Analyze(d).rows = Analyze(c \o d).rows
  BY <1>1, AnalyzeFacts
<1>9. (Analyze(c).hasNaN \/ Analyze(d).hasNaN) = Analyze(c \o d).hasNaN
  <2>1. /\ Analyze(c).hasNaN = (NaN \in Range(c)) /\ Analyze(d).hasNaN = (NaN \in Range(d))
        /\ Analyze(c \o d).hasNaN = (NaN \in Range(c \o d))
    BY DEF Analyze
  <2>2. ((NaN \in Range(c)) \/ (NaN \in Range(d))) = (NaN \in Range(c) \cup Range(d))
    OBVIOUS
  <2>3. QED BY <1>1, <2>1, <2>2
<1>10. (Analyze(c).nullsKnown /\ Analyze(d).nullsKnown) = Analyze(c \o d).nullsKnown
  BY DEF Analyze
<1>11. Analyze(c \o d)
         = [rows |-> Analyze(c \o d).rows, nulls |-> Analyze(c \o d).nulls,
            nullsKnown |-> Analyze(c \o d).nullsKnown, hasNaN |-> Analyze(c \o d).hasNaN,
            minimum |-> Analyze(c \o d).minimum, maximum |-> Analyze(c \o d).maximum]
  BY DEF Analyze
<1>12. Merge(Analyze(c), Analyze(d))
         = [rows |-> Analyze(c \o d).rows, nulls |-> Analyze(c \o d).nulls,
            nullsKnown |-> Analyze(c \o d).nullsKnown, hasNaN |-> Analyze(c \o d).hasNaN,
            minimum |-> Analyze(c \o d).minimum, maximum |-> Analyze(c \o d).maximum]
  BY <1>5, <1>6, <1>7, <1>8, <1>9, <1>10 DEF Merge, RowsMerged
<1>13. QED BY <1>11, <1>12

\* The statistics of nothing.
LEMMA AnalyzeNothing ==
  Analyze(<< >>) = Unknown /\ Unknown \in ColumnStatistics /\ << >> \in Seq(Cell) /\ Range(<< >>) = {}
<1>1. << >> \in Seq(Cell) /\ Len(<< >>) = 0 /\ Range(<< >>) = {}
  BY DEF Range
<1>2. Numbers(<< >>) = {}
  BY <1>1 DEF Numbers
<1>3. NullsIn(<< >>) = 0
  <2>1. {i \in DOMAIN << >> : << >>[i] = Null} = {}
    OBVIOUS
  <2>2. QED BY <2>1, FS_EmptySet DEF NullsIn
<1>4. Analyze(<< >>) = Unknown
  <2>1. NaN \notin Range(<< >>)
    BY <1>1
  <2>2. (NaN \in Range(<< >>)) = FALSE
    BY <2>1
  <2>3. Analyze(<< >>) = [rows |-> 0, nulls |-> 0, nullsKnown |-> TRUE, hasNaN |-> (NaN \in Range(<< >>)),
                          minimum |-> None, maximum |-> None]
    BY <1>1, <1>2, <1>3 DEF Analyze
  <2>4. QED BY <2>2, <2>3 DEF Unknown
<1>5. QED BY <1>1, <1>4, AnalyzeFacts

-----------------------------------------------------------------------------
\* The cells of all groups, one group after the other.

\* f[j] holds the cells of the first j groups.
Linked(f, gs, n) == /\ f[1] = gs[1]
                    /\ \A j \in 1 .. n : j # 1 => f[j] = f[j - 1] \o gs[j]
Chain(f, gs, n) == f \in [1 .. n -> Seq(Cell)] /\ Linked(f, gs, n)

\* The columns of the groups can be strung together, one after the other.
LEMMA ChainExists ==
  ASSUME NEW gs \in Seq(Seq(Cell)), NEW n \in 1 .. Len(gs)
  PROVE  \E f : Chain(f, gs, n)
<1> DEFINE G(m) == \E f : Chain(f, gs, m)
           T == {m \in 1 .. Len(gs) : ~ G(m)}
<1>1. Len(gs) \in Nat /\ \A j \in 1 .. Len(gs) : gs[j] \in Seq(Cell)
  OBVIOUS
<1>2. T = {}
  <2> SUFFICES ASSUME T # {} PROVE FALSE
    OBVIOUS
  <2>1. PICK m \in T : \A k \in T : m <= k
    <3>1. T \in SUBSET Nat
      BY <1>1
    <3> HIDE DEF T
    <3>2. QED BY <3>1, Least
  <2>2. m \in 1 .. Len(gs) /\ ~ G(m)
    OBVIOUS
  <2>3. CASE m = 1
    <3> DEFINE f == [j \in 1 .. 1 |-> gs[1]]
    <3>1. f \in [1 .. 1 -> Seq(Cell)] /\ f[1] = gs[1]
      BY <1>1, <2>2, <2>3
    <3>2. \A j \in 1 .. 1 : j = 1
      OBVIOUS
    <3> HIDE DEF f
    <3>3. Chain(f, gs, 1)
      BY <3>1, <3>2 DEF Chain, Linked
    <3>4. QED BY <2>2, <2>3, <3>3
  <2>4. CASE m # 1
    <3>1. m - 1 \in 1 .. Len(gs) /\ m \in Nat /\ ~ (m <= m - 1)
      BY <1>1, <2>2, <2>4
    <3>2. m - 1 \notin T
      <4> HIDE DEF T
      <4>1. QED BY <2>1, <3>1
    <3>3. PICK f : Chain(f, gs, m - 1)
      BY <3>1, <3>2
    <3> DEFINE g == [j \in 1 .. m |-> IF j = m THEN f[m - 1] \o gs[m] ELSE f[j]]
    <3>4. /\ f \in [1 .. m - 1 -> Seq(Cell)] /\ f[1] = gs[1]
          /\ \A j \in 1 .. m - 1 : j # 1 => f[j] = f[j - 1] \o gs[j]
      BY <3>3 DEF Chain, Linked
    <3>5. f[m - 1] \o gs[m] \in Seq(Cell)
      <4>1. f[m - 1] \in Seq(Cell) /\ gs[m] \in Seq(Cell)
        BY <1>1, <2>2, <3>1, <3>4
      <4>2. QED BY <4>1, Concatenated
    <3>6. \A j \in 1 .. m : j # m => j \in 1 .. m - 1
      BY <3>1
    <3>7. g \in [1 .. m -> Seq(Cell)]
      BY <3>4, <3>5, <3>6
    <3>8. 1 \in 1 .. m /\ m \in 1 .. m /\ 1 # m
      BY <2>2, <2>4, <3>1
    <3>9. g[m] = f[m - 1] \o gs[m] /\ \A j \in 1 .. m - 1 : g[j] = f[j]
      <4>1. \A j \in 1 .. m - 1 : j \in 1 .. m /\ j # m
        BY <3>1
      <4>2. QED BY <3>8, <4>1
    <3> HIDE DEF g
    <3>10. g[1] = gs[1]
      BY <3>4, <3>6, <3>8, <3>9
    <3>11. ASSUME NEW j \in 1 .. m, j # 1 PROVE g[j] = g[j - 1] \o gs[j]
      <4>1. j - 1 \in 1 .. m - 1
        BY <3>1, <3>11
      <4>2. g[j - 1] = f[j - 1]
        BY <3>9, <4>1
      <4>3. CASE j = m
        BY <3>9, <4>2, <4>3
      <4>4. CASE j # m
        BY <3>4, <3>6, <3>9, <3>11, <4>2, <4>4
      <4>5. QED BY <4>3, <4>4
    <3>12. Chain(g, gs, m)
      BY <3>7, <3>10, <3>11 DEF Chain, Linked
    <3>13. QED BY <2>2, <3>12
  <2>5. QED BY <2>3, <2>4
<1>3. n \notin T
  BY <1>2
<1>4. QED BY <1>3

\* Chains of groups that begin alike begin alike.
LEMMA ChainsAgree ==
  ASSUME NEW f, NEW h, NEW gs, NEW hs, NEW n \in Nat, NEW k \in 1 .. n,
         Linked(f, gs, n), Linked(h, hs, n), \A j \in 1 .. n : gs[j] = hs[j]
  PROVE  f[k] = h[k]
<1> DEFINE T == {m \in 1 .. n : f[m] # h[m]}
<1>1. T = {}
  <2> SUFFICES ASSUME T # {} PROVE FALSE
    OBVIOUS
  <2>1. PICK m \in T : \A j \in T : m <= j
    <3>1. T \in SUBSET Nat
      OBVIOUS
    <3> HIDE DEF T
    <3>2. QED BY <3>1, Least
  <2>2. m \in 1 .. n /\ f[m] # h[m]
    OBVIOUS
  <2>3. m # 1
    BY <2>2 DEF Linked
  <2>4. m - 1 \in 1 .. n /\ ~ (m <= m - 1)
    BY <2>2, <2>3
  <2>5. m - 1 \notin T
    <3> HIDE DEF T
    <3>1. QED BY <2>1, <2>4
  <2>6. f[m - 1] = h[m - 1]
    BY <2>4, <2>5
  <2>7. QED BY <2>2, <2>3, <2>6 DEF Linked
<1>2. k \notin T
  BY <1>1
<1>3. QED BY <1>2

\* And so strung together they are the column of the whole table.
LEMMA FlattenChain ==
  ASSUME NEW gs \in Seq(Seq(Cell)), Len(gs) # 0, NEW f, Chain(f, gs, Len(gs))
  PROVE  FlattenSeq(gs) = f[Len(gs)]
<1> DEFINE n == Len(gs)
           Eq(g) == g = [i \in 1 .. n |-> IF i = 1 THEN gs[i] ELSE g[i - 1] \o gs[i]]
           flatten == CHOOSE g : Eq(g)
<1>1. n \in Nat /\ n # 0 /\ 1 \in 1 .. n /\ n \in 1 .. n
  OBVIOUS
<1>2. FlattenSeq(gs) = flatten[n]
  BY DEF FlattenSeq
<1> HIDE DEF n
<1>3. /\ f \in [1 .. n -> Seq(Cell)] /\ f[1] = gs[1]
      /\ \A j \in 1 .. n : j # 1 => f[j] = f[j - 1] \o gs[j]
  BY DEF Chain, Linked, n
<1>4. \A j \in 1 .. n : f[j] = IF j = 1 THEN gs[j] ELSE f[j - 1] \o gs[j]
  BY <1>3
<1>5. Eq(f)
  BY <1>3, <1>4
<1>6. Eq(flatten)
  BY <1>5
<1> HIDE DEF flatten
<1>7. \A j \in 1 .. n : flatten[j] = IF j = 1 THEN gs[j] ELSE flatten[j - 1] \o gs[j]
  BY <1>6
<1>8. Linked(flatten, gs, n)
  BY <1>1, <1>7 DEF Linked
<1>9. flatten[n] = f[n]
  <2>1. Linked(f, gs, n)
    BY DEF Chain, n
  <2>2. QED BY <1>1, <1>8, <2>1, ChainsAgree
<1>10. QED BY <1>2, <1>9 DEF n

\* The cells of no group, and of one group more.
LEMMA FlattenFacts ==
  /\ FlattenSeq(<< >>) = << >>
  /\ \A gs \in Seq(Seq(Cell)) : FlattenSeq(gs) \in Seq(Cell)
  /\ \A gs \in Seq(Seq(Cell)), g \in Seq(Cell) :
       FlattenSeq(Append(gs, g)) = FlattenSeq(gs) \o g
<1>1. FlattenSeq(<< >>) = << >>
  BY DEF FlattenSeq
<1>2. ASSUME NEW gs \in Seq(Seq(Cell)) PROVE FlattenSeq(gs) \in Seq(Cell)
  <2>1. CASE Len(gs) = 0
    <3>1. FlattenSeq(gs) = gs /\ gs = << >>
      BY <2>1 DEF FlattenSeq
    <3>2. QED BY <3>1
  <2>2. CASE Len(gs) # 0
    <3>1. Len(gs) \in 1 .. Len(gs)
      BY <2>2
    <3>2. PICK f : Chain(f, gs, Len(gs))
      BY <3>1, ChainExists
    <3>3. FlattenSeq(gs) = f[Len(gs)]
      BY <2>2, <3>2, FlattenChain
    <3>4. QED BY <3>1, <3>2, <3>3 DEF Chain, Linked
  <2>3. QED BY <2>1, <2>2
<1>3. ASSUME NEW gs \in Seq(Seq(Cell)), NEW g \in Seq(Cell)
      PROVE  FlattenSeq(Append(gs, g)) = FlattenSeq(gs) \o g
  <2> DEFINE hs == Append(gs, g)
             n == Len(gs)
  <2>1. /\ n \in Nat /\ hs \in Seq(Seq(Cell)) /\ Len(hs) = n + 1
        /\ hs[n + 1] = g /\ \A j \in 1 .. n : hs[j] = gs[j]
    OBVIOUS
  <2> HIDE DEF hs
  <2>2. n + 1 \in 1 .. n + 1 /\ n + 1 # 0 /\ (n + 1) - 1 = n
    BY <2>1
  <2>3. PICK h : Chain(h, hs, n + 1)
    <3> HIDE DEF n
    <3>1. QED BY <2>1, <2>2, ChainExists
  <2>4. FlattenSeq(hs) = h[n + 1]
    <3> HIDE DEF n
    <3>1. QED BY <2>1, <2>2, <2>3, FlattenChain
  <2>5. /\ h \in [1 .. n + 1 -> Seq(Cell)] /\ h[1] = hs[1]
        /\ \A j \in 1 .. n + 1 : j # 1 => h[j] = h[j - 1] \o hs[j]
    BY <2>3 DEF Chain, Linked
  <2>6. CASE n = 0
    <3>1. FlattenSeq(gs) = << >>
      <4>1. gs = << >>
        BY <2>6
      <4>2. QED BY <1>1, <4>1
    <3>2. h[1] = g
      BY <2>1, <2>5, <2>6
    <3>3. << >> \o g = g
      OBVIOUS
    <3>4. QED BY <2>4, <2>6, <3>1, <3>2, <3>3 DEF hs
  <2>7. CASE n # 0
    <3>1. n \in 1 .. Len(gs)
      BY <2>7
    <3>2. PICK f : Chain(f, gs, n)
      <4> HIDE DEF n
      <4>1. QED BY <3>1, ChainExists
    <3>3. FlattenSeq(gs) = f[n]
      BY <2>7, <3>2, FlattenChain
    <3> HIDE DEF n
    <3>4. Linked(f, gs, n)
      BY <3>2 DEF Chain
    <3>5. n \in 1 .. n /\ n \in 1 .. n + 1 /\ n + 1 # 1 /\ \A j \in 1 .. n : j \in 1 .. n + 1
      BY <2>1, <2>7
    <3>6. Linked(h, hs, n)
      BY <2>5, <3>5 DEF Linked
    <3>7. f[n] = h[n]
      <4>1. \A j \in 1 .. n : gs[j] = hs[j]
        BY <2>1
      <4>2. QED BY <2>1, <3>4, <3>5, <3>6, <4>1, ChainsAgree
    <3>8. h[n + 1] = h[(n + 1) - 1] \o hs[n + 1]
      BY <2>2, <2>5, <3>5
    <3>9. h[n + 1] = h[n] \o g
      BY <2>1, <2>2, <3>8
    <3>10. QED BY <2>4, <3>3, <3>7, <3>9 DEF hs
  <2>8. QED BY <2>6, <2>7
<1>4. QED BY <1>1, <1>2, <1>3

-----------------------------------------------------------------------------
\* What an append and a footer hand to the statistics.

\* The rows that append() keeps of a batch are cells.
LEMMA DenseCells == ASSUME NEW b \in Batches PROVE Dense(b) \in Seq(Cell)
<1>1. b.cells \in Seq(Cell) /\ b.selection \in Seq(DOMAIN b.cells)
  BY SourcesAssumption
<1>2. /\ \A i \in DOMAIN b.cells : b.cells[i] \in Cell
      /\ Len(b.selection) \in Nat /\ DOMAIN b.selection = 1 .. Len(b.selection)
      /\ \A j \in DOMAIN b.selection : b.selection[j] \in DOMAIN b.cells
  BY <1>1
<1> DEFINE n == Len(b.selection)
<1>3. Dense(b) = [j \in 1 .. n |-> b.cells[b.selection[j]]] /\ n \in Nat
  BY <1>2 DEF Dense
<1>4. \A j \in 1 .. n : b.cells[b.selection[j]] \in Cell
  BY <1>2
<1> HIDE DEF n
<1>5. Dense(b) \in [1 .. n -> Cell]
  BY <1>3, <1>4
<1>6. QED BY <1>3, <1>5

\* A footer never denies a cell; it may have no bounds, and then the loop notes
\* it unless every cell is NULL.
LEMMA FooterFacts ==
  ASSUME NEW g \in RowGroups, isDouble \in BOOLEAN, FitsType(g.cells)
  PROVE  /\ g.cells \in Seq(Cell) /\ FromFooter(g) \in ColumnStatistics
         /\ FromFooter(g).rows = Len(g.cells)
         /\ FromFooter(g).nullsKnown => FromFooter(g).nulls = NullsIn(g.cells)
         /\ FromFooter(g).nulls <= FromFooter(g).rows
         /\ \A x \in Range(g.cells) : Counts(FromFooter(g), x)
         /\ \A x \in Range(g.cells) : Unbounded(FromFooter(g)) \/ Encloses(FromFooter(g), x)
         /\ \A x \in Range(g.cells) : BoundsLacking(FromFooter(g)) \/ Encloses(FromFooter(g), x)
<1> DEFINE c == g.cells
           s == FromFooter(g)
<1>1. c \in Seq(Cell) /\ FooterRight(c, g.footer)
  BY SourcesAssumption
<1>2. /\ s.rows = Len(c) /\ s.nulls = (IF g.footer.nulls = None THEN 0 ELSE g.footer.nulls)
      /\ s.nullsKnown = (g.footer.nulls # None) /\ s.hasNaN = isDouble
      /\ s.minimum = g.footer.minimum /\ s.maximum = g.footer.maximum
  BY DEF FromFooter, NullsKnown
<1>3. s = [rows |-> s.rows, nulls |-> s.nulls, nullsKnown |-> s.nullsKnown,
           hasNaN |-> s.hasNaN, minimum |-> s.minimum, maximum |-> s.maximum]
  BY DEF FromFooter
<1>4. NaN \in Range(c) => isDouble
  BY DEF FitsType
<1> HIDE DEF c, s
<1>5. /\ Len(c) \in Nat /\ NullsIn(c) \in Nat /\ NullsIn(c) <= Len(c)
      /\ Null \in Range(c) => NullsIn(c) # 0
      /\ \A x \in Range(c) : x # Null => NullsIn(c) < Len(c)
  BY <1>1, CellFacts, NullCount
<1>6. \/ g.footer.minimum = None /\ g.footer.maximum = None
      \/ /\ g.footer.minimum \in Int /\ g.footer.maximum \in Int
         /\ \A x \in Numbers(c) : g.footer.minimum <= x /\ x <= g.footer.maximum
  BY <1>1 DEF FooterRight
<1>7. g.footer.nulls \in {None, NullsIn(c)} /\ None \notin Int
  BY <1>1, SpecialValues DEF FooterRight, None
<1>8. /\ s.nulls \in Nat /\ s.nulls <= s.rows
      /\ s.nullsKnown => s.nulls = NullsIn(c)
  <2>1. CASE g.footer.nulls = None
    <3>1. s.nulls = 0 /\ ~ s.nullsKnown
      BY <1>2, <2>1
    <3>2. QED BY <1>2, <1>5, <3>1
  <2>2. CASE g.footer.nulls # None
    <3>1. s.nulls = NullsIn(c)
      BY <1>2, <1>7, <2>2
    <3>2. QED BY <1>2, <1>5, <3>1
  <2>3. QED BY <2>1, <2>2
<1>9. s \in ColumnStatistics
  <2>1. s.minimum \in Bound /\ s.maximum \in Bound
    BY <1>2, <1>6 DEF Bound
  <2>2. s.rows \in Nat /\ s.nulls \in Nat
    BY <1>2, <1>5, <1>8
  <2>3. s.nullsKnown \in BOOLEAN /\ s.hasNaN \in BOOLEAN
    BY <1>2
  <2>4. QED BY <1>3, <2>1, <2>2, <2>3 DEF ColumnStatistics
<1>10. ASSUME NEW x \in Range(c) PROVE Counts(s, x)
  <2>1. x = NaN => s.hasNaN
    BY <1>2, <1>4
  <2>2. CASE x = Null
    BY <1>5, <1>8, <2>1, <2>2 DEF Counts
  <2>3. CASE x # Null
    <3>1. NullsIn(c) # Len(c)
      BY <1>5, <2>3
    <3>2. QED BY <1>2, <1>8, <2>1, <2>3, <3>1 DEF Counts
  <2>4. QED BY <2>2, <2>3
<1>11. ASSUME NEW x \in Range(c), ~ Unbounded(s) PROVE Encloses(s, x)
  <2>1. SUFFICES ASSUME x \in Int
                 PROVE  /\ s.minimum # None /\ s.minimum <= x
                        /\ s.maximum # None /\ x <= s.maximum
    BY DEF Encloses
  <2>2. x \in Numbers(c)
    BY <1>1, <2>1, CellFacts
  <2>3. QED BY <1>2, <1>6, <1>11, <2>2 DEF Unbounded
<1>12. ASSUME NEW x \in Range(c), ~ BoundsLacking(s) PROVE Encloses(s, x)
  <2>1. CASE ~ Unbounded(s)
    BY <1>11, <2>1
  <2>2. CASE Unbounded(s)
    <3>1. s.nullsKnown /\ s.rows = s.nulls
      BY <1>12, <2>2 DEF BoundsLacking, Unbounded
    <3>2. NullsIn(c) = Len(c)
      BY <1>2, <1>8, <3>1
    <3>3. x = Null
      BY <1>5, <3>2
    <3>4. QED BY <3>3, SpecialValues DEF Encloses
  <2>3. QED BY <2>1, <2>2
<1>13. QED BY <1>1, <1>2, <1>8, <1>9, <1>10, <1>11, <1>12 DEF c, s

\* One group more, with statistics that admit its cells.
LEMMA AdmittedGrows ==
  ASSUME NEW gs \in Seq(Seq(Cell)), NEW ss \in Seq(ColumnStatistics), Len(ss) = Len(gs),
         \A g \in DOMAIN gs : \A x \in Range(gs[g]) : Admits(ss[g], x),
         NEW c \in Seq(Cell), NEW s \in ColumnStatistics,
         \A x \in Range(c) : Admits(s, x)
  PROVE  /\ Len(Append(ss, s)) = Len(Append(gs, c))
         /\ \A g \in DOMAIN Append(gs, c) :
              \A x \in Range(Append(gs, c)[g]) : Admits(Append(ss, s)[g], x)
<1> DEFINE n == Len(gs)
           hs == Append(gs, c)
           ts == Append(ss, s)
<1>1. /\ n \in Nat /\ DOMAIN gs = 1 .. n
      /\ Len(hs) = n + 1 /\ DOMAIN hs = 1 .. n + 1 /\ hs[n + 1] = c
      /\ \A j \in 1 .. n : hs[j] = gs[j]
  OBVIOUS
<1>2. /\ Len(ts) = n + 1 /\ ts[n + 1] = s
      /\ \A j \in 1 .. n : ts[j] = ss[j]
  OBVIOUS
<1> HIDE DEF n, hs, ts
<1>3. ASSUME NEW g \in 1 .. n + 1, NEW x \in Range(hs[g]) PROVE Admits(ts[g], x)
  <2>1. CASE g = n + 1
    <3>1. x \in Range(c) /\ ts[g] = s
      BY <1>1, <1>2, <1>3, <2>1
    <3>2. QED BY <3>1
  <2>2. CASE g # n + 1
    <3>1. g \in 1 .. n
      BY <1>1, <2>2
    <3>2. x \in Range(gs[g]) /\ ts[g] = ss[g] /\ g \in DOMAIN gs
      BY <1>1, <1>2, <1>3, <3>1
    <3>3. QED BY <3>2
  <2>3. QED BY <2>1, <2>2
<1>4. QED BY <1>1, <1>2, <1>3 DEF hs, ts

\* Statistics that know some cells, merged with those of some more.
LEMMA KnownGrows ==
  ASSUME NEW a \in Seq(Cell), NEW c \in Seq(Cell),
         NEW st \in ColumnStatistics, NEW s \in ColumnStatistics,
         st.nulls <= st.rows, s.nulls <= s.rows
  PROVE  /\ Merge(st, s).nulls <= Merge(st, s).rows
         /\ (\A x \in Range(a) : Counts(st, x)) /\ (\A x \in Range(c) : Counts(s, x))
              => \A x \in Range(a \o c) : Counts(Merge(st, s), x)
         /\ (\A x \in Range(a) : Counts(st, x)) => \A x \in Range(a) : Counts(Merge(st, s), x)
         /\ (\A x \in Range(a) : Encloses(st, x)) /\ (\A x \in Range(c) : Encloses(s, x))
              => \A x \in Range(a \o c) : Encloses(Merge(st, s), x)
         /\ (\A x \in Range(a) : Encloses(st, x))
              => \A x \in Range(a) : Encloses(Merge(st, s), x)
<1>1. Range(a \o c) = Range(a) \cup Range(c)
  BY Concatenated
<1>2. /\ Merge(st, s).nulls <= Merge(st, s).rows
      /\ \A x : Counts(st, x) \/ Counts(s, x) => Counts(Merge(st, s), x)
  BY MergeCounts
<1>3. \A x : Encloses(st, x) \/ Encloses(s, x) => Encloses(Merge(st, s), x)
  BY MergeEncloses
<1>4. QED BY <1>1, <1>2, <1>3

-----------------------------------------------------------------------------
\* The inductive invariant.

\* The invariant holds of the empty table, and of an empty source.
LEMMA InitInvariant == Init => IInv
<1> SUFFICES ASSUME Init PROVE IInv
  OBVIOUS
<1> USE DEF Init
<1>1. AllCells = << >>
  BY FlattenFacts DEF AllCells
<1>2. /\ Analyze(<< >>) = Unknown /\ Unknown \in ColumnStatistics
      /\ << >> \in Seq(Cell) /\ Range(<< >>) = {} /\ Len(<< >>) = 0
  BY AnalyzeNothing
<1>3. Unknown.nulls = 0 /\ Unknown.rows = 0
  BY DEF Unknown
<1>4. NullsIn(<< >>) = 0
  <2>1. {i \in DOMAIN << >> : << >>[i] = Null} = {}
    OBVIOUS
  <2>2. QED BY <2>1, FS_EmptySet DEF NullsIn
<1>5. TypeOK
  <2>1. << >> \in Seq(Seq(Cell)) /\ << >> \in Seq(ColumnStatistics)
    OBVIOUS
  <2>2. QED BY <1>2, <2>1 DEF TypeOK
<1>6. KindsDiffer
  BY DEF KindsDiffer
<1>7. GroupsAdmitted
  <2>1. Len(groupStatistics) = Len(groups) /\ DOMAIN groups = {}
    OBVIOUS
  <2>2. QED BY <2>1 DEF GroupsAdmitted
<1>8. AllCounted
  BY <1>1, <1>2, <1>3 DEF AllCounted
<1>9. AllEnclosed
  BY <1>1, <1>2 DEF AllEnclosed
<1>10. MergedExactly
  BY <1>1, <1>2, <1>3, <1>4 DEF MergedExactly
<1>11. QED BY <1>5, <1>6, <1>7, <1>8, <1>9, <1>10 DEF IInv

\* What the invariant says of one group more: its cells follow all the others.
LEMMA GroupAdded ==
  ASSUME TypeOK, NEW c \in Seq(Cell), groups' = Append(groups, c)
  PROVE  /\ groups' \in Seq(Seq(Cell)) /\ AllCells \in Seq(Cell)
         /\ AllCells' = AllCells \o c
         /\ Len(AllCells') = Len(AllCells) + Len(c)
         /\ Len(AllCells) \in Nat /\ Len(c) \in Nat
<1>1. groups \in Seq(Seq(Cell))
  BY DEF TypeOK
<1>2. AllCells \in Seq(Cell)
  BY <1>1, FlattenFacts DEF AllCells
<1>3. AllCells' = AllCells \o c
  BY <1>1, FlattenFacts DEF AllCells
<1>4. Len(AllCells \o c) = Len(AllCells) + Len(c)
  BY <1>2, Concatenated
<1>5. groups' \in Seq(Seq(Cell))
  BY <1>1
<1>6. QED BY <1>2, <1>3, <1>4, <1>5, CellFacts

\* Table::append() keeps it.
LEMMA AppendInvariant == ASSUME IInv, NEW b \in Batches, Append_(b) PROVE IInv'
<1> DEFINE c == Dense(b)
           s == Analyze(c)
<1>1. c \in Seq(Cell)
  BY DenseCells
<1>2. /\ kind = "table" /\ groups' = Append(groups, c)
      /\ groupStatistics' = Append(groupStatistics, s)
      /\ statistics' = Merge(statistics, s) /\ rows' = rows + Len(c)
      /\ kind' = kind /\ isDouble' = isDouble
      /\ unknownBounds' = unknownBounds /\ opened' = opened /\ failed' = failed
  BY DEF Append_, Appendable, frozen
<1> HIDE DEF c
<1>3. /\ s \in ColumnStatistics /\ s.rows = Len(c) /\ s.nulls = NullsIn(c) /\ s.nullsKnown
      /\ s.nulls <= s.rows
      /\ \A x \in Range(c) : Counts(s, x) /\ Encloses(s, x)
  BY <1>1, AnalyzeFacts
<1> HIDE DEF s
<1>4. /\ groups \in Seq(Seq(Cell)) /\ groupStatistics \in Seq(ColumnStatistics)
      /\ statistics \in ColumnStatistics /\ rows \in Nat /\ statistics.nulls <= statistics.rows
  BY DEF IInv, TypeOK, AllCounted
<1>5. /\ groups' \in Seq(Seq(Cell)) /\ AllCells \in Seq(Cell)
      /\ AllCells' = AllCells \o c
      /\ Len(AllCells') = Len(AllCells) + Len(c)
      /\ Len(AllCells) \in Nat /\ Len(c) \in Nat
  BY <1>1, <1>2, GroupAdded DEF IInv
<1>6. /\ statistics' \in ColumnStatistics
      /\ statistics'.rows = statistics.rows + s.rows
      /\ statistics'.nulls = statistics.nulls + s.nulls
      /\ statistics'.nullsKnown = (statistics.nullsKnown /\ s.nullsKnown)
  BY <1>2, <1>3, <1>4, MergeFacts
<1>7. TypeOK'
  <2>1. groupStatistics' \in Seq(ColumnStatistics) /\ rows' \in Nat
    BY <1>2, <1>3, <1>4, <1>5
  <2>2. QED BY <1>2, <1>5, <1>6, <2>1 DEF IInv, TypeOK
<1>8. KindsDiffer'
  BY <1>2 DEF IInv, KindsDiffer
<1>9. GroupsAdmitted'
  <2>1. SUFFICES ASSUME ~ failed
                 PROVE  /\ Len(groupStatistics') = Len(groups')
                        /\ \A g \in DOMAIN groups' :
                             \A x \in Range(groups'[g]) : Admits(groupStatistics'[g], x)
    BY <1>2 DEF GroupsAdmitted, Admits, Counts, Encloses, Unbounded
  <2>2. /\ Len(groupStatistics) = Len(groups)
        /\ \A g \in DOMAIN groups : \A x \in Range(groups[g]) : Admits(groupStatistics[g], x)
    BY <2>1 DEF IInv, GroupsAdmitted
  <2>3. \A x \in Range(c) : Admits(s, x)
    BY <1>3 DEF Admits
  <2>4. QED BY <1>1, <1>2, <1>3, <1>4, <2>2, <2>3, AdmittedGrows
<1>10. AllCounted'
  <2>1. \A x \in Range(AllCells) : Counts(statistics, x)
    BY DEF IInv, AllCounted
  <2>2. /\ Merge(statistics, s).nulls <= Merge(statistics, s).rows
        /\ \A x \in Range(AllCells \o c) : Counts(Merge(statistics, s), x)
    BY <1>1, <1>3, <1>4, <1>5, <2>1, KnownGrows
  <2>3. /\ statistics'.nulls <= statistics'.rows
        /\ \A x \in Range(AllCells') : Counts(statistics', x)
    BY <1>2, <1>5, <2>2
  <2>4. QED BY <2>3 DEF AllCounted, Counts
<1>11. AllEnclosed'
  <2>1. ~ unknownBounds /\ \A x \in Range(AllCells) : Encloses(statistics, x)
    BY <1>2 DEF IInv, AllEnclosed, KindsDiffer
  <2>2. \A x \in Range(AllCells \o c) : Encloses(Merge(statistics, s), x)
    BY <1>1, <1>3, <1>4, <1>5, <2>1, KnownGrows
  <2>3. ~ unknownBounds' /\ \A x \in Range(AllCells') : Encloses(statistics', x)
    BY <1>2, <1>5, <2>1, <2>2
  <2>4. QED BY <2>3 DEF AllEnclosed, Encloses
<1>12. MergedExactly'
  <2>1. SUFFICES ASSUME ~ failed
                 PROVE  /\ statistics'.rows = Len(AllCells')
                        /\ rows' = Len(AllCells')
                        /\ statistics' = Analyze(AllCells')
                        /\ statistics'.nulls = NullsIn(AllCells')
    BY <1>2 DEF MergedExactly, NullsIn, Analyze, Numbers
  <2>2. /\ statistics.rows = Len(AllCells) /\ rows = Len(AllCells)
        /\ statistics = Analyze(AllCells)
    BY <1>2, <2>1 DEF IInv, MergedExactly, KindsDiffer
  <2>3. statistics' = Analyze(AllCells')
    BY <1>1, <1>2, <1>5, <2>2, MergeAnalyzed DEF s
  <2>4. statistics'.rows = Len(AllCells') /\ rows' = Len(AllCells')
    BY <1>2, <1>3, <1>5, <1>6, <2>2
  <2>5. statistics'.nulls = NullsIn(AllCells')
    BY <2>3 DEF Analyze
  <2>6. QED BY <2>3, <2>4, <2>5
<1>13. QED BY <1>7, <1>8, <1>9, <1>10, <1>11, <1>12 DEF IInv

\* An append that fails half way: what is merged knows cells that no group has.
LEMMA FailureInvariant ==
  ASSUME IInv, NEW b \in Batches, AppendFailsEarly(b) \/ AppendFailsLate(b)
  PROVE  IInv'
<1> DEFINE c == Dense(b)
           s == Analyze(c)
<1>1. c \in Seq(Cell)
  BY DenseCells
<1>2. /\ kind = "table" /\ groups' = groups
      /\ statistics' = Merge(statistics, s)
      /\ kind' = kind /\ isDouble' = isDouble
      /\ unknownBounds' = unknownBounds /\ opened' = opened /\ failed' = TRUE
  BY DEF AppendFailsEarly, AppendFailsLate, Appendable, frozen
<1>3. \/ groupStatistics' = groupStatistics /\ rows' = rows
      \/ groupStatistics' = Append(groupStatistics, s) /\ rows' = rows + Len(c)
  BY DEF AppendFailsEarly, AppendFailsLate
<1> HIDE DEF c
<1>4. s \in ColumnStatistics /\ s.nulls <= s.rows
  BY <1>1, AnalyzeFacts
<1> HIDE DEF s
<1>5. /\ groups \in Seq(Seq(Cell)) /\ groupStatistics \in Seq(ColumnStatistics)
      /\ statistics \in ColumnStatistics /\ rows \in Nat /\ statistics.nulls <= statistics.rows
  BY DEF IInv, TypeOK, AllCounted
<1>6. AllCells' = AllCells /\ AllCells \in Seq(Cell)
  BY <1>2, <1>5, FlattenFacts DEF AllCells
<1>7. TypeOK'
  <2>1. groupStatistics' \in Seq(ColumnStatistics)
    <3>1. Append(groupStatistics, s) \in Seq(ColumnStatistics)
      BY <1>4, <1>5
    <3>2. QED BY <1>3, <1>5, <3>1
  <2>2. rows' \in Nat
    BY <1>1, <1>3, <1>5, CellFacts
  <2>3. statistics' \in ColumnStatistics
    BY <1>2, <1>4, <1>5, MergeFacts
  <2>4. QED BY <1>2, <1>5, <2>1, <2>2, <2>3 DEF IInv, TypeOK
<1>8. KindsDiffer'
  BY <1>2 DEF IInv, KindsDiffer
<1>9. GroupsAdmitted' /\ MergedExactly'
  BY <1>2 DEF GroupsAdmitted, MergedExactly
<1>10. AllCounted'
  <2>1. \A x \in Range(AllCells) : Counts(statistics, x)
    BY DEF IInv, AllCounted
  <2>2. /\ Merge(statistics, s).nulls <= Merge(statistics, s).rows
        /\ \A x \in Range(AllCells) : Counts(Merge(statistics, s), x)
    BY <1>1, <1>4, <1>5, <1>6, <2>1, KnownGrows
  <2>3. /\ statistics'.nulls <= statistics'.rows
        /\ \A x \in Range(AllCells') : Counts(statistics', x)
    BY <1>2, <1>6, <2>2
  <2>4. QED BY <2>3 DEF AllCounted, Counts
<1>11. AllEnclosed'
  <2>1. ~ unknownBounds /\ \A x \in Range(AllCells) : Encloses(statistics, x)
    BY <1>2 DEF IInv, AllEnclosed, KindsDiffer
  <2>2. \A x \in Range(AllCells) : Encloses(Merge(statistics, s), x)
    BY <1>1, <1>4, <1>5, <1>6, <2>1, KnownGrows
  <2>3. ~ unknownBounds' /\ \A x \in Range(AllCells') : Encloses(statistics', x)
    BY <1>2, <1>6, <2>1, <2>2
  <2>4. QED BY <2>3 DEF AllEnclosed, Encloses
<1>12. QED BY <1>7, <1>8, <1>9, <1>10, <1>11 DEF IInv

\* A row group more: once one had no bounds, those of the others are not kept.
LEMMA ReadInvariant == ASSUME IInv, NEW g \in RowGroups, ReadRowGroup(g) PROVE IInv'
<1> DEFINE c == g.cells
           s == FromFooter(g)
<1>1. /\ kind = "file" /\ ~ opened /\ FitsType(g.cells)
      /\ groups' = Append(groups, c)
      /\ groupStatistics' = Append(groupStatistics, s)
      /\ statistics' = Merge(statistics, s)
      /\ unknownBounds' = (unknownBounds \/ BoundsLacking(s))
      /\ kind' = kind /\ isDouble' = isDouble
      /\ rows' = rows /\ opened' = opened /\ failed' = failed
  BY DEF ReadRowGroup, frozen
<1>2. isDouble \in BOOLEAN
  BY DEF IInv, TypeOK
<1>3. /\ c \in Seq(Cell) /\ s \in ColumnStatistics /\ s.rows = Len(c)
      /\ s.nullsKnown => s.nulls = NullsIn(c)
      /\ s.nulls <= s.rows
      /\ \A x \in Range(c) : Counts(s, x)
      /\ \A x \in Range(c) : Unbounded(s) \/ Encloses(s, x)
      /\ \A x \in Range(c) : BoundsLacking(s) \/ Encloses(s, x)
  BY <1>1, <1>2, FooterFacts
<1> HIDE DEF c, s
<1>4. /\ groups \in Seq(Seq(Cell)) /\ groupStatistics \in Seq(ColumnStatistics)
      /\ statistics \in ColumnStatistics /\ rows \in Nat /\ statistics.nulls <= statistics.rows
      /\ unknownBounds \in BOOLEAN
  BY DEF IInv, TypeOK, AllCounted
<1>5. /\ groups' \in Seq(Seq(Cell)) /\ AllCells \in Seq(Cell)
      /\ AllCells' = AllCells \o c
      /\ Len(AllCells') = Len(AllCells) + Len(c)
      /\ Len(AllCells) \in Nat /\ Len(c) \in Nat
  BY <1>1, <1>3, GroupAdded DEF IInv
<1>6. /\ statistics' \in ColumnStatistics
      /\ statistics'.rows = statistics.rows + s.rows
      /\ statistics'.nulls = statistics.nulls + s.nulls
      /\ statistics'.nullsKnown = (statistics.nullsKnown /\ s.nullsKnown)
  BY <1>1, <1>3, <1>4, MergeFacts
<1>7. TypeOK'
  <2>1. groupStatistics' \in Seq(ColumnStatistics)
    BY <1>1, <1>3, <1>4
  <2>2. unknownBounds' \in BOOLEAN
    BY <1>1, <1>4 DEF BoundsLacking
  <2>3. QED BY <1>1, <1>5, <1>6, <2>1, <2>2 DEF IInv, TypeOK
<1>8. KindsDiffer'
  BY <1>1 DEF IInv, KindsDiffer
<1>9. GroupsAdmitted'
  <2>1. SUFFICES ASSUME ~ failed
                 PROVE  /\ Len(groupStatistics') = Len(groups')
                        /\ \A h \in DOMAIN groups' :
                             \A x \in Range(groups'[h]) : Admits(groupStatistics'[h], x)
    BY <1>1 DEF GroupsAdmitted, Admits, Counts, Encloses, Unbounded
  <2>2. /\ Len(groupStatistics) = Len(groups)
        /\ \A h \in DOMAIN groups : \A x \in Range(groups[h]) : Admits(groupStatistics[h], x)
    BY <2>1 DEF IInv, GroupsAdmitted
  <2>3. \A x \in Range(c) : Admits(s, x)
    BY <1>3 DEF Admits
  <2>4. QED BY <1>1, <1>3, <1>4, <2>2, <2>3, AdmittedGrows
<1>10. AllCounted'
  <2>1. \A x \in Range(AllCells) : Counts(statistics, x)
    BY DEF IInv, AllCounted
  <2>2. /\ Merge(statistics, s).nulls <= Merge(statistics, s).rows
        /\ \A x \in Range(AllCells \o c) : Counts(Merge(statistics, s), x)
    BY <1>3, <1>4, <1>5, <2>1, KnownGrows
  <2>3. /\ statistics'.nulls <= statistics'.rows
        /\ \A x \in Range(AllCells') : Counts(statistics', x)
    BY <1>1, <1>5, <2>2
  <2>4. QED BY <2>3 DEF AllCounted, Counts
<1>11. AllEnclosed'
  <2>1. CASE unknownBounds'
    BY <1>1, <2>1 DEF AllEnclosed, Unbounded
  <2>2. CASE ~ unknownBounds'
    <3>1. ~ unknownBounds /\ ~ BoundsLacking(s)
      BY <1>1, <2>2
    <3>2. \A x \in Range(AllCells) : Encloses(statistics, x)
      BY <3>1 DEF IInv, AllEnclosed
    <3>3. \A x \in Range(c) : Encloses(s, x)
      BY <1>3, <3>1
    <3>4. \A x \in Range(AllCells \o c) : Encloses(Merge(statistics, s), x)
      BY <1>3, <1>4, <1>5, <3>2, <3>3, KnownGrows
    <3>5. \A x \in Range(AllCells') : Encloses(statistics', x)
      BY <1>1, <1>5, <3>4
    <3>6. QED BY <2>2, <3>5 DEF AllEnclosed, Encloses
  <2>3. QED BY <2>1, <2>2
<1>12. MergedExactly'
  <2>1. SUFFICES ASSUME ~ failed
                 PROVE  /\ statistics'.rows = Len(AllCells')
                        /\ statistics'.nullsKnown => statistics'.nulls = NullsIn(AllCells')
    BY <1>1 DEF MergedExactly, NullsIn
  <2>2. /\ statistics.rows = Len(AllCells)
        /\ statistics.nullsKnown => statistics.nulls = NullsIn(AllCells)
    BY <2>1 DEF IInv, MergedExactly
  <2>3. statistics'.rows = Len(AllCells')
    BY <1>3, <1>5, <1>6, <2>2
  <2>4. statistics'.nullsKnown => statistics'.nulls = NullsIn(AllCells')
    <3>1. NullsIn(AllCells') = NullsIn(AllCells) + NullsIn(c)
      BY <1>3, <1>5, NullsAdd
    <3>2. QED BY <1>3, <1>6, <2>2, <3>1
  <2>5. QED BY <2>3, <2>4
<1>13. QED BY <1>7, <1>8, <1>9, <1>10, <1>11, <1>12 DEF IInv

\* The constructor returns.
LEMMA OpenInvariant == ASSUME IInv, Open PROVE IInv'
<1>1. /\ kind = "file" /\ groups' = groups /\ groupStatistics' = groupStatistics
      /\ statistics' = (IF unknownBounds
                        THEN [statistics EXCEPT !.minimum = None, !.maximum = None]
                        ELSE statistics)
      /\ rows' = Len(AllCells)
      /\ kind' = kind /\ isDouble' = isDouble
      /\ unknownBounds' = unknownBounds /\ opened' = TRUE /\ failed' = failed
  BY DEF Open, frozen, AllCells
<1>2. /\ groups \in Seq(Seq(Cell)) /\ statistics \in ColumnStatistics
      /\ unknownBounds \in BOOLEAN
  BY DEF IInv, TypeOK
<1>3. AllCells' = AllCells /\ AllCells \in Seq(Cell) /\ Len(AllCells) \in Nat
  BY <1>1, <1>2, FlattenFacts, CellFacts DEF AllCells
<1>4. /\ statistics' \in ColumnStatistics
      /\ statistics'.rows = statistics.rows /\ statistics'.nulls = statistics.nulls
      /\ statistics'.nullsKnown = statistics.nullsKnown
      /\ statistics'.hasNaN = statistics.hasNaN
  BY <1>1, <1>2 DEF ColumnStatistics, Bound
<1>5. TypeOK'
  BY <1>1, <1>3, <1>4 DEF IInv, TypeOK
<1>6. KindsDiffer'
  BY <1>1 DEF IInv, KindsDiffer
<1>7. GroupsAdmitted'
  BY <1>1 DEF IInv, GroupsAdmitted, Admits, Counts, Encloses, Unbounded
<1>8. AllCounted'
  BY <1>3, <1>4 DEF IInv, AllCounted, Counts
<1>9. AllEnclosed'
  <2>1. CASE unknownBounds
    <3>1. statistics'.minimum = None
      BY <1>1, <1>2, <2>1 DEF ColumnStatistics
    <3>2. QED BY <1>1, <2>1, <3>1 DEF AllEnclosed, Unbounded
  <2>2. CASE ~ unknownBounds
    BY <1>1, <1>3, <2>2 DEF IInv, AllEnclosed, Encloses
  <2>3. QED BY <2>1, <2>2
<1>10. MergedExactly'
  BY <1>1, <1>3, <1>4 DEF IInv, MergedExactly, NullsIn
<1>11. QED BY <1>5, <1>6, <1>7, <1>8, <1>9, <1>10 DEF IInv

\* Every step keeps it.
LEMMA StepInvariant == IInv /\ [Next]_vars => IInv'
<1> SUFFICES ASSUME IInv, [Next]_vars PROVE IInv'
  OBVIOUS
<1>1. ASSUME NEW b \in Batches, Append_(b) PROVE IInv'
  BY <1>1, AppendInvariant
<1>2. ASSUME NEW b \in Batches, AppendFailsEarly(b) \/ AppendFailsLate(b) PROVE IInv'
  BY <1>2, FailureInvariant
<1>3. ASSUME NEW g \in RowGroups, ReadRowGroup(g) PROVE IInv'
  BY <1>3, ReadInvariant
<1>4. CASE Open
  BY <1>4, OpenInvariant
<1>5. CASE UNCHANGED vars
  BY <1>5 DEF vars, IInv, TypeOK, KindsDiffer, GroupsAdmitted, AllCounted, AllEnclosed,
              MergedExactly, AllCells, Admits, Counts, Encloses, Unbounded, NullsIn,
              Analyze, Numbers
<1>6. QED BY <1>1, <1>2, <1>3, <1>4, <1>5 DEF Next

\* The inductive invariant holds of every source.
THEOREM SourcesInvariant == Spec => []IInv
<1>1. Init => IInv
  BY InitInvariant
<1>2. IInv /\ [Next]_vars => IInv'
  BY StepInvariant
<1>3. QED BY <1>1, <1>2, PTL DEF Spec

-----------------------------------------------------------------------------
\* What follows from it.

\* A predicate that keeps a cell is not ruled out by statistics that admit it.
LEMMA KeptMayMatch ==
  ASSUME NEW e \in Predicates, NEW c \in Seq(Cell), NEW s \in ColumnStatistics,
         \A x \in Range(c) : Admits(s, x), Matches(c, e)
  PROVE  MayMatch(e, s)
<1>1. PICK x \in Range(c) : Keeps(e, RowOf(x))
  BY DEF Matches, RowOf
<1>2. x \in Cell /\ Admits(s, x) /\ e \in Trees
  BY <1>1, CellFacts, SourcesAssumption
<1>3. Evaluate(e, RowOf(x)) = TRUE
  BY <1>1 DEF Keeps
<1>4. QED BY <1>2, <1>3, TrueMayMatch

\* It implies that no group with a qualifying row is skipped.
LEMMA InvariantPrunes == IInv => PruningSound
<1> SUFFICES ASSUME IInv, ~ failed, NEW e \in Predicates, NEW g \in DOMAIN groups,
                    Matches(groups[g], e)
             PROVE  MayMatch(e, groupStatistics[g])
  BY DEF PruningSound, QualifyingRowsKept
<1>1. /\ groups[g] \in Seq(Cell) /\ groupStatistics[g] \in ColumnStatistics
      /\ \A x \in Range(groups[g]) : Admits(groupStatistics[g], x)
  <2>1. /\ groups \in Seq(Seq(Cell)) /\ groupStatistics \in Seq(ColumnStatistics)
        /\ Len(groupStatistics) = Len(groups)
        /\ \A h \in DOMAIN groups : \A x \in Range(groups[h]) : Admits(groupStatistics[h], x)
    BY DEF IInv, TypeOK, GroupsAdmitted
  <2>2. QED BY <2>1
<1>2. QED BY <1>1, KeptMayMatch

\* And that the statistics of the table admit every row.
LEMMA InvariantKeepsRows == IInv => SourceStatisticsSound
<1> SUFFICES ASSUME IInv, opened, NEW e \in Predicates, Matches(AllCells, e)
             PROVE  MayMatch(e, statistics)
  BY DEF SourceStatisticsSound
<1>1. AllCells \in Seq(Cell) /\ statistics \in ColumnStatistics
  BY FlattenFacts DEF IInv, TypeOK, AllCells
<1>2. \A x \in Range(AllCells) : Counts(statistics, x)
  BY DEF IInv, AllCounted
<1>3. Unbounded(statistics) \/ \A x \in Range(AllCells) : Encloses(statistics, x)
  BY DEF IInv, AllEnclosed
<1>4. \A x \in Range(AllCells) : Admits(statistics, x)
  BY <1>2, <1>3 DEF Admits
<1>5. QED BY <1>1, <1>4, KeptMayMatch

\* And that they are exact where nothing was lost.
LEMMA InvariantExact == IInv => StatisticsExact
  BY DEF IInv, MergedExactly, StatisticsExact

\* The types of a source's state.
THEOREM SourcesTypes == Spec => []TypeOK
<1>1. IInv => TypeOK
  BY DEF IInv
<1>2. QED BY <1>1, SourcesInvariant, PTL

\* A scan that skips the groups may_match() rules out skips no row that the
\* predicate keeps, whatever the predicate, the batches and the footers.
THEOREM SourcesPruningSound == Spec => []PruningSound
  BY SourcesInvariant, InvariantPrunes, PTL

\* Nor do the statistics of the whole source rule out a predicate that keeps one
\* of its rows, even of a table one of whose appends has failed.
THEOREM SourcesStatisticsSound == Spec => []SourceStatisticsSound
  BY SourcesInvariant, InvariantKeepsRows, PTL

\* Merged statistics are those of all the cells at once.
THEOREM SourcesStatisticsExact == Spec => []StatisticsExact
  BY SourcesInvariant, InvariantExact, PTL


-----------------------------------------------------------------------------
\* The evaluator (Evaluator.tla), of its own trees and batches.

CONSTANTS Types, EvaluatorHeight, Roots, EvaluatorBatches, Lanes
VARIABLES nodes, buffers, batch, next, thrown

E == INSTANCE Evaluator WITH Height <- EvaluatorHeight, Batches <- EvaluatorBatches

\* What Evaluator.tla assumes of them.
EvaluatorGiven == E!TreesRight /\ E!EvaluatorConstants

EvaluatorOperands == [t \in E!Trees |-> E!Operands(t)]

\* Its trees are made of lower ones.
LEMMA HeightsFounded ==
  ASSUME EvaluatorGiven
  PROVE  Founded(EvaluatorHeight, EvaluatorOperands) /\ DOMAIN EvaluatorHeight = E!Trees
  BY DEF EvaluatorGiven, E!TreesRight, E!Trees, EvaluatorOperands, Founded

\* The operands of one of them are lower trees.
LEMMA LowerOperands ==
  ASSUME EvaluatorGiven, NEW e \in E!Trees
  PROVE  /\ EvaluatorHeight[e] \in Nat
         /\ \A o \in E!Operands(e) : /\ o \in E!Trees /\ EvaluatorHeight[o] \in Nat
                                    /\ EvaluatorHeight[o] < EvaluatorHeight[e]
  BY DEF EvaluatorGiven, E!TreesRight

-----------------------------------------------------------------------------
\* The trees that evaluators are built from, their types and their nodes.

\* What is known of the special values.
LEMMA SpecialFacts ==
  ASSUME EvaluatorGiven
  PROVE  /\ Null \notin Int /\ Null \notin BOOLEAN /\ NaN \notin Int
         /\ NaN \notin BOOLEAN /\ Null # NaN /\ MaxInt \in Nat
         /\ Lanes \in Nat \ {0}
  BY ExpressionsAssumption DEF EvaluatorGiven, E!EvaluatorConstants

\* The kinds of nodes exclude each other.
LEMMA TreeFacts ==
  ASSUME EvaluatorGiven, NEW e \in E!Trees
  PROVE  /\ E!TreeTyped(e)
         /\ \/ E!IsLeaf(e) /\ ~ E!IsBinary(e) /\ e.kind \in {"column", "literal"}
            \/ /\ ~ E!IsLeaf(e) /\ ~ E!IsBinary(e) /\ e.kind \in {"isnull", "not"}
               /\ E!Operands(e) = {e.left} /\ e.left \in E!Trees
            \/ /\ ~ E!IsLeaf(e) /\ E!IsBinary(e)
               /\ e.kind \in E!Connectives \/ e.kind \in E!Comparisons \/ e.kind \in E!Arithmetic
               /\ E!Operands(e) = {e.left, e.right} /\ e.left \in E!Trees /\ e.right \in E!Trees
<1>1. e.kind \in E!Kinds /\ \A o \in E!Operands(e) : o \in E!Trees
  BY DEF EvaluatorGiven, E!TreesRight
<1>2. E!TreeTyped(e)
  BY DEF EvaluatorGiven, E!EvaluatorConstants
<1>3. \/ E!IsLeaf(e) /\ ~ E!IsBinary(e) /\ e.kind \in {"column", "literal"}
      \/ ~ E!IsLeaf(e) /\ ~ E!IsBinary(e) /\ e.kind \in {"isnull", "not"}
      \/ /\ ~ E!IsLeaf(e) /\ E!IsBinary(e)
         /\ e.kind \in E!Connectives \/ e.kind \in E!Comparisons \/ e.kind \in E!Arithmetic
  BY <1>1 DEF E!Kinds, E!IsLeaf, E!IsBinary, E!Connectives, E!Comparisons, E!Arithmetic,
     E!Int64Arithmetic,
              E!DoubleArithmetic
<1>4. QED BY <1>1, <1>2, <1>3 DEF E!Operands

AllTypes == E!ValueTypes \cup {"Invalid"}

\* The type compile() finds is one of the types there are.
LEMMA NodeTypeTyped ==
  ASSUME EvaluatorGiven, NEW e \in E!Trees, NEW x, NEW y
  PROVE  E!NodeType(e, x, y) \in AllTypes
<1>1. CASE e.kind = "column"
  <2>1. Types[e.column] \in E!ValueTypes
    BY <1>1, TreeFacts DEF EvaluatorGiven, E!EvaluatorConstants, E!TreeTyped
  <2>2. QED BY <1>1, <2>1 DEF E!NodeType, AllTypes
<1>2. CASE e.kind = "literal"
  BY <1>2, TreeFacts DEF E!NodeType, AllTypes, E!TreeTyped
<1>3. CASE e.kind \in {"isnull", "not"}
  BY <1>3 DEF E!NodeType, AllTypes, E!ValueTypes
<1>4. CASE e.kind \in E!Connectives
  BY <1>4 DEF E!NodeType, AllTypes, E!ValueTypes, E!AllowedTypes, E!Connectives, E!Comparisons,
     E!Arithmetic, E!Int64Arithmetic, E!DoubleArithmetic
<1>5. CASE e.kind \in E!Comparisons
  BY <1>5 DEF E!NodeType, AllTypes, E!ValueTypes, E!AllowedTypes, E!Connectives, E!Comparisons,
     E!Arithmetic, E!Int64Arithmetic, E!DoubleArithmetic
<1>6. CASE e.kind \in E!Arithmetic
  BY <1>6 DEF E!NodeType, AllTypes, E!ValueTypes, E!AllowedTypes, E!Connectives, E!Comparisons,
     E!Arithmetic, E!Int64Arithmetic, E!DoubleArithmetic
<1>7. QED BY <1>1, <1>2, <1>3, <1>4, <1>5, <1>6, TreeFacts

\* The type of a node depends on its operands only.
LEMMA NodeTypeLocal ==
  ASSUME EvaluatorGiven, NEW e \in E!Trees, NEW a, NEW b, NEW c, NEW d,
         e.left \in E!Operands(e) => a = c,
         e.right \in E!Operands(e) => b = d
  PROVE  E!NodeType(e, a, b) = E!NodeType(e, c, d)
<1>1. CASE e.kind \in {"column", "literal"}
  BY <1>1 DEF E!NodeType
<1>2. CASE e.kind \in {"isnull", "not"}
  <2>1. a = c
    BY <1>2, TreeFacts DEF E!Connectives, E!Comparisons, E!Arithmetic, E!Int64Arithmetic,
       E!DoubleArithmetic
  <2>2. QED BY <1>2, <2>1 DEF E!NodeType
<1>3. CASE E!Operands(e) = {e.left, e.right}
  BY <1>3
<1>4. QED BY <1>1, <1>2, <1>3, TreeFacts

\* Every tree has a type, which obeys the equation of its root.
LEMMA TypeFacts ==
  ASSUME EvaluatorGiven, NEW e \in E!Trees
  PROVE  /\ E!TypeOf(e) = E!NodeType(e, E!TypeOf(e.left), E!TypeOf(e.right))
         /\ E!TypeOf(e) \in AllTypes
<1> DEFINE n(t, v) == E!NodeType(t, v[t.left], v[t.right])
           B == [t \in E!Trees |-> [f \in [E!Trees -> AllTypes] |-> n(t, f)]]
           type == CHOOSE v : v = [t \in E!Trees |-> n(t, v)]
<1>1. B \in [E!Trees -> [[E!Trees -> AllTypes] -> AllTypes]]
  BY NodeTypeTyped
<1>2. Local(B, EvaluatorHeight, EvaluatorOperands, AllTypes)
  <2>1. ASSUME NEW t \in E!Trees, NEW f \in [E!Trees -> AllTypes], NEW h \in [E!Trees -> AllTypes],
               \A o \in E!Operands(t) : f[o] = h[o]
        PROVE  B[t][f] = B[t][h]
    BY <2>1, NodeTypeLocal
  <2> HIDE DEF B
  <2>2. QED BY <2>1 DEF Local, EvaluatorOperands, E!Trees
<1>3. PICK f \in [E!Trees -> AllTypes] : \A t \in E!Trees : f[t] = B[t][f]
  <2>1. AllTypes # {}
    BY DEF AllTypes
  <2> HIDE DEF B
  <2>2. B \in Equations(EvaluatorHeight, EvaluatorOperands, AllTypes)
    BY <1>1, <1>2 DEF Equations, E!Trees
  <2>3. Defines(B, EvaluatorHeight, AllTypes)
    BY <2>1, <2>2, HeightsFounded, RecursionDefines
  <2>4. QED BY <2>3 DEF Defines, E!Trees
<1>4. f = [t \in E!Trees |-> n(t, f)]
  <2> HIDE DEF n
  <2>1. QED BY <1>3
<1>5. type = [t \in E!Trees |-> n(t, type)]
  <2> HIDE DEF n
  <2>1. QED BY <1>4
<1>6. \A t : E!TypeOf(t) = type[t]
  BY DEF E!TypeOf
<1> HIDE DEF type
<1>7. \A t \in E!Trees : type[t] = n(t, type)
  <2> HIDE DEF n
  <2>1. QED BY <1>5
<1>8. \A t \in E!Trees : type[t] \in AllTypes
  BY <1>7, NodeTypeTyped
<1>9. QED BY <1>6, <1>7, <1>8

\* What the type of a node says of its operands'.
LEMMA OperandTypes ==
  ASSUME EvaluatorGiven, NEW e \in E!Trees, E!TypeOf(e) # "Invalid"
  PROVE  /\ E!TypeOf(e) \in E!ValueTypes
         /\ \A o \in E!Operands(e) : E!TypeOf(o) # "Invalid"
         /\ e.kind = "column" => E!TypeOf(e) = Types[e.column]
         /\ e.kind = "literal" => E!TypeOf(e) = e.type
         /\ e.kind = "isnull" => E!TypeOf(e) = "Boolean"
         /\ e.kind = "not" => E!TypeOf(e) = "Boolean" /\ E!TypeOf(e.left) = "Boolean"
         /\ e.kind \in E!Connectives => /\ E!TypeOf(e) = "Boolean" /\ E!TypeOf(e.left) = "Boolean"
                                        /\ E!TypeOf(e.right) = "Boolean"
         /\ e.kind \in E!Comparisons => /\ E!TypeOf(e) = "Boolean" /\ E!TypeOf(e.left) \in E!ValueTypes
                                        /\ E!TypeOf(e.left) = E!TypeOf(e.right)
         /\ e.kind \in E!Int64Arithmetic => /\ E!TypeOf(e) = "Int64" /\ E!TypeOf(e.left) = "Int64"
                                            /\ E!TypeOf(e.right) = "Int64"
         /\ e.kind \in E!DoubleArithmetic => /\ E!TypeOf(e) = "Double" /\ E!TypeOf(e.left) = "Double"
                                             /\ E!TypeOf(e.right) = "Double"
<1> DEFINE x == E!TypeOf(e.left)
           y == E!TypeOf(e.right)
<1>1. E!TypeOf(e) = E!NodeType(e, x, y) /\ E!TypeOf(e) \in E!ValueTypes
  BY TypeFacts DEF AllTypes
<1> HIDE DEF x, y
<1>2. CASE e.kind \in {"column", "literal"}
  BY <1>1, <1>2, TreeFacts DEF E!NodeType, E!Operands, E!IsLeaf, E!Connectives, E!Comparisons,
     E!Arithmetic, E!Int64Arithmetic, E!DoubleArithmetic
<1>3. CASE e.kind \in {"isnull", "not"}
  <2>1. E!Operands(e) = {e.left}
    BY <1>3, TreeFacts DEF E!Connectives, E!Comparisons, E!Arithmetic, E!Int64Arithmetic,
       E!DoubleArithmetic
  <2>2. e.kind = "isnull" => x # "Invalid" /\ E!TypeOf(e) = "Boolean"
    BY <1>1 DEF E!NodeType
  <2>3. e.kind = "not" => x = "Boolean" /\ E!TypeOf(e) = "Boolean"
    BY <1>1 DEF E!NodeType
  <2>4. e.kind \notin E!Connectives /\ e.kind \notin E!Comparisons /\ e.kind \notin E!Int64Arithmetic
        /\ e.kind \notin E!DoubleArithmetic
    BY <1>3 DEF E!Connectives, E!Comparisons, E!Int64Arithmetic, E!DoubleArithmetic
  <2>5. QED BY <1>1, <1>3, <2>1, <2>2, <2>3, <2>4 DEF x
<1>4. CASE e.kind \in E!Connectives \cup E!Comparisons \cup E!Arithmetic
  <2>1. E!Operands(e) = {e.left, e.right}
    BY <1>4, TreeFacts DEF E!Connectives, E!Comparisons, E!Arithmetic, E!Int64Arithmetic,
       E!DoubleArithmetic
  <2>2. /\ x = y /\ x \in E!AllowedTypes(e)
        /\ E!TypeOf(e) = IF e.kind \in E!Arithmetic THEN x ELSE "Boolean"
    BY <1>1, <1>4 DEF E!NodeType, E!Connectives, E!Comparisons, E!Arithmetic, E!Int64Arithmetic,
       E!DoubleArithmetic
  <2>3. CASE e.kind \in E!Connectives
    <3>1. x = "Boolean" /\ E!TypeOf(e) = "Boolean"
      BY <2>2, <2>3 DEF E!AllowedTypes, E!Connectives, E!Comparisons, E!Arithmetic, E!Int64Arithmetic,
         E!DoubleArithmetic
    <3>2. QED BY <1>1, <2>1, <2>2, <2>3, <3>1 DEF x, y, E!Connectives, E!Comparisons,
                 E!Int64Arithmetic, E!DoubleArithmetic
  <2>4. CASE e.kind \in E!Comparisons
    <3>1. x \in E!ValueTypes /\ E!TypeOf(e) = "Boolean"
      BY <2>2, <2>4 DEF E!AllowedTypes, E!Connectives, E!Comparisons, E!Arithmetic, E!Int64Arithmetic,
         E!DoubleArithmetic
    <3>2. QED BY <1>1, <2>1, <2>2, <2>4, <3>1 DEF x, y, E!ValueTypes, E!Connectives, E!Comparisons,
                 E!Int64Arithmetic, E!DoubleArithmetic
  <2>5. CASE e.kind \in E!Int64Arithmetic
    <3>1. x = "Int64" /\ E!TypeOf(e) = x
      BY <2>2, <2>5 DEF E!AllowedTypes, E!Connectives, E!Comparisons, E!Arithmetic, E!Int64Arithmetic,
         E!DoubleArithmetic
    <3>2. QED BY <1>1, <2>1, <2>2, <2>5, <3>1 DEF x, y, E!Connectives, E!Comparisons,
                 E!Int64Arithmetic, E!DoubleArithmetic
  <2>6. CASE e.kind \in E!DoubleArithmetic
    <3>1. x = "Double" /\ E!TypeOf(e) = x
      BY <2>2, <2>6 DEF E!AllowedTypes, E!Connectives, E!Comparisons, E!Arithmetic, E!Int64Arithmetic,
         E!DoubleArithmetic
    <3>2. QED BY <1>1, <2>1, <2>2, <2>6, <3>1 DEF x, y, E!Connectives, E!Comparisons,
                 E!Int64Arithmetic, E!DoubleArithmetic
  <2>7. QED BY <1>4, <2>3, <2>4, <2>5, <2>6 DEF E!Arithmetic
<1>5. QED BY <1>2, <1>3, <1>4, TreeFacts

-----------------------------------------------------------------------------
\* The nodes of a tree.

CodeNode == [expression : E!Trees, left : Nat, right : Nat]

\* Linked to the nodes of its operands, which come before it.
Links(c, n) ==
  /\ ~ E!IsLeaf(c[n].expression) => /\ c[n].left \in 1 .. n - 1
                                    /\ c[c[n].left].expression = c[n].expression.left
  /\ E!IsBinary(c[n].expression) => /\ c[n].right \in 1 .. n - 1
                                    /\ c[c[n].right].expression = c[n].expression.right

\* `c' computes e.
CodeOf(c, e) ==
  /\ c \in Seq(CodeNode) /\ Len(c) # 0 /\ c[Len(c)].expression = e
  /\ \A n \in 1 .. Len(c) : /\ Links(c, n)
                            /\ E!TypeOf(e) # "Invalid" => E!TypeOf(c[n].expression) # "Invalid"

\* Shifting code changes the places of the operands only.
LEMMA ShiftedFacts ==
  ASSUME NEW c \in Seq(CodeNode), NEW k \in Nat
  PROVE  /\ E!Shifted(c, k) \in Seq(CodeNode) /\ Len(E!Shifted(c, k)) = Len(c)
         /\ \A n \in 1 .. Len(c) :
              /\ E!Shifted(c, k)[n].expression = c[n].expression
              /\ E!Shifted(c, k)[n].left = E!Shift(c[n].left, k)
              /\ E!Shifted(c, k)[n].right = E!Shift(c[n].right, k)
<1> DEFINE m == Len(c)
           g(n) == [expression |-> c[n].expression, left |-> E!Shift(c[n].left, k),
                    right |-> E!Shift(c[n].right, k)]
<1>1. m \in Nat /\ DOMAIN c = 1 .. m /\ \A n \in 1 .. m : c[n] \in CodeNode
  OBVIOUS
<1>2. E!Shifted(c, k) = [n \in 1 .. m |-> g(n)]
  BY <1>1 DEF E!Shifted
<1>3. ASSUME NEW n \in 1 .. m PROVE g(n) \in CodeNode
  <2>1. c[n].expression \in E!Trees /\ c[n].left \in Nat /\ c[n].right \in Nat
    BY <1>1 DEF CodeNode
  <2>2. E!Shift(c[n].left, k) \in Nat /\ E!Shift(c[n].right, k) \in Nat
    BY <2>1 DEF E!Shift
  <2>3. QED BY <2>1, <2>2 DEF CodeNode
<1>4. \A n \in 1 .. m : /\ g(n).expression = c[n].expression
                        /\ g(n).left = E!Shift(c[n].left, k) /\ g(n).right = E!Shift(c[n].right, k)
  OBVIOUS
<1> HIDE DEF m, g
<1>5. E!Shifted(c, k) \in [1 .. m -> CodeNode]
  BY <1>2, <1>3
<1>6. E!Shifted(c, k) \in Seq(CodeNode) /\ Len(E!Shifted(c, k)) = m
  BY <1>1, <1>5
<1>7. QED BY <1>2, <1>4, <1>6 DEF m

\* One sequence of nodes after another.
LEMMA CodeConcatenated ==
  ASSUME NEW c \in Seq(CodeNode), NEW d \in Seq(CodeNode)
  PROVE  /\ c \o d \in Seq(CodeNode) /\ Len(c \o d) = Len(c) + Len(d)
         /\ Len(c) \in Nat /\ Len(d) \in Nat
         /\ \A i \in 1 .. Len(c) : (c \o d)[i] = c[i]
         /\ \A i \in 1 .. Len(d) : (c \o d)[i + Len(c)] = d[i]
<1>1. /\ c \o d \in Seq(CodeNode) /\ Len(c \o d) = Len(c) + Len(d)
      /\ Len(c) \in Nat /\ Len(d) \in Nat
      /\ \A i \in 1 .. Len(c) + Len(d) :
           (c \o d)[i] = IF i <= Len(c) THEN c[i] ELSE d[i - Len(c)]
  BY ConcatProperties, LenProperties
<1>2. \A i \in 1 .. Len(c) : i \in 1 .. Len(c) + Len(d) /\ i <= Len(c)
  BY <1>1
<1>3. \A i \in 1 .. Len(d) : /\ i + Len(c) \in 1 .. Len(c) + Len(d) /\ ~ (i + Len(c) <= Len(c))
                             /\ i + Len(c) - Len(c) = i
  BY <1>1
<1>4. \A i \in 1 .. Len(c) : (c \o d)[i] = c[i]
  BY <1>1, <1>2
<1>5. \A i \in 1 .. Len(d) : (c \o d)[i + Len(c)] = d[i]
  <2> TAKE i \in 1 .. Len(d)
  <2>1. /\ i + Len(c) \in 1 .. Len(c) + Len(d) /\ ~ (i + Len(c) <= Len(c))
        /\ i + Len(c) - Len(c) = i
    BY <1>3
  <2>2. QED BY <1>1, <2>1
<1>6. QED BY <1>1, <1>4, <1>5

\* Appending a node to code.
LEMMA CodeAppended ==
  ASSUME NEW c \in Seq(CodeNode), NEW m \in CodeNode
  PROVE  /\ Append(c, m) \in Seq(CodeNode) /\ Len(Append(c, m)) = Len(c) + 1 /\ Len(c) \in Nat
         /\ Append(c, m)[Len(c) + 1] = m
         /\ \A i \in 1 .. Len(c) : Append(c, m)[i] = c[i]
  OBVIOUS

\* A leaf.
LEMMA LeafCode ==
  ASSUME EvaluatorGiven, NEW e \in E!Trees, E!IsLeaf(e), NEW l, NEW r
  PROVE  CodeOf(E!NodeCode(e, l, r), e)
<1> DEFINE m == [expression |-> e, left |-> 0, right |-> 0]
           c == <<m>>
<1>1. E!NodeCode(e, l, r) = c
  BY DEF E!NodeCode
<1>2. m \in CodeNode /\ m.expression = e
  BY DEF CodeNode
<1> HIDE DEF m
<1>3. c \in Seq(CodeNode) /\ Len(c) = 1 /\ c[1] = m /\ \A n \in 1 .. 1 : n = 1
  BY <1>2
<1> HIDE DEF c
<1>4. ~ E!IsBinary(e)
  BY TreeFacts
<1>5. Links(c, 1)
  BY <1>2, <1>3, <1>4 DEF Links
<1>6. CodeOf(c, e)
  BY <1>2, <1>3, <1>5 DEF CodeOf
<1>7. QED BY <1>1, <1>6

\* The node of e after those of its operands.
LEMMA RootCode ==
  ASSUME NEW e \in E!Trees, NEW c \in Seq(CodeNode), NEW m \in CodeNode,
         \A n \in 1 .. Len(c) : Links(c, n),
         E!TypeOf(e) # "Invalid" => \A n \in 1 .. Len(c) : E!TypeOf(c[n].expression) # "Invalid",
         m.expression = e, ~ E!IsLeaf(e),
         m.left \in 1 .. Len(c) /\ c[m.left].expression = e.left,
         E!IsBinary(e) => m.right \in 1 .. Len(c) /\ c[m.right].expression = e.right
  PROVE  CodeOf(Append(c, m), e)
<1> DEFINE d == Append(c, m)
           k == Len(c)
<1>1. /\ d \in Seq(CodeNode) /\ Len(d) = k + 1 /\ k \in Nat /\ d[k + 1] = m
      /\ \A i \in 1 .. k : d[i] = c[i]
  BY CodeAppended
<1> HIDE DEF d
<1>2. ASSUME NEW n \in 1 .. k + 1
      PROVE  Links(d, n) /\ (E!TypeOf(e) # "Invalid" => E!TypeOf(d[n].expression) # "Invalid")
  <2>1. CASE n = k + 1
    <3>1. (k + 1) - 1 = k
      BY <1>1
    <3>2. d[n] = m
      BY <1>1, <2>1
    <3>3. d[m.left] = c[m.left]
      BY <1>1
    <3>4. E!IsBinary(e) => d[m.right] = c[m.right]
      BY <1>1
    <3>5. Links(d, n)
      BY <2>1, <3>1, <3>2, <3>3, <3>4 DEF Links
    <3>6. QED BY <3>2, <3>5
  <2>2. CASE n # k + 1
    <3>1. n \in 1 .. k /\ \A i \in 1 .. n - 1 : i \in 1 .. k
      BY <1>1, <2>2
    <3>2. Links(c, n) /\ d[n] = c[n] /\ \A i \in 1 .. n - 1 : d[i] = c[i]
      BY <1>1, <3>1
    <3> HIDE DEF k
    <3>3. Links(d, n)
      BY <3>2 DEF Links
    <3>4. QED BY <3>1, <3>2, <3>3 DEF k
  <2>3. QED BY <2>1, <2>2
<1>3. Len(d) # 0 /\ d[Len(d)].expression = e
  BY <1>1
<1> HIDE DEF k
<1>4. CodeOf(d, e)
  BY <1>1, <1>2, <1>3 DEF CodeOf
<1>5. QED BY <1>4 DEF d

\* The nodes of two operands, one after the other.
LEMMA JoinedCode ==
  ASSUME NEW l \in Seq(CodeNode), NEW r \in Seq(CodeNode),
         \A n \in 1 .. Len(l) : Links(l, n), \A n \in 1 .. Len(r) : Links(r, n)
  PROVE  LET c == l \o E!Shifted(r, Len(l))
         IN  /\ c \in Seq(CodeNode) /\ Len(c) = Len(l) + Len(r)
             /\ \A n \in 1 .. Len(c) : Links(c, n)
             /\ \A n \in 1 .. Len(l) : c[n] = l[n]
             /\ \A n \in 1 .. Len(r) : c[n + Len(l)].expression = r[n].expression
<1> DEFINE k == Len(l)
           h == Len(r)
           t == E!Shifted(r, k)
           c == l \o t
<1>1. k \in Nat /\ h \in Nat
  OBVIOUS
<1>2. /\ t \in Seq(CodeNode) /\ Len(t) = h
      /\ \A n \in 1 .. h : /\ t[n].expression = r[n].expression
                           /\ t[n].left = E!Shift(r[n].left, k) /\ t[n].right = E!Shift(r[n].right, k)
  BY <1>1, ShiftedFacts
<1> HIDE DEF t
<1>3. /\ c \in Seq(CodeNode) /\ Len(c) = k + h
      /\ \A n \in 1 .. k : c[n] = l[n]
      /\ \A n \in 1 .. h : c[n + k] = t[n]
  <2>1. /\ l \o t \in Seq(CodeNode) /\ Len(l \o t) = Len(l) + Len(t)
        /\ \A n \in 1 .. Len(l) : (l \o t)[n] = l[n]
        /\ \A n \in 1 .. Len(t) : (l \o t)[n + Len(l)] = t[n]
    BY <1>2, CodeConcatenated
  <2>2. QED BY <1>2, <2>1
<1> HIDE DEF c
<1>4. ASSUME NEW n \in 1 .. k + h PROVE Links(c, n)
  <2>1. CASE n \in 1 .. k
    <3>1. Links(l, n) /\ c[n] = l[n]
      BY <1>3, <2>1
    <3>2. \A i \in 1 .. n - 1 : c[i] = l[i]
      BY <1>1, <1>3, <2>1
    <3>3. QED BY <3>1, <3>2 DEF Links
  <2>2. CASE n \notin 1 .. k
    <3> DEFINE j == n - k
    <3>1. j \in 1 .. h /\ n = j + k
      BY <1>1, <2>2
    <3> HIDE DEF j
    <3>2. /\ Links(r, j) /\ c[n] = t[j]
          /\ c[n].expression = r[j].expression
          /\ c[n].left = E!Shift(r[j].left, k) /\ c[n].right = E!Shift(r[j].right, k)
      BY <1>2, <1>3, <3>1 DEF h
    <3>3. ASSUME NEW i \in 1 .. j - 1
          PROVE  E!Shift(i, k) \in 1 .. n - 1 /\ c[E!Shift(i, k)].expression = r[i].expression
      <4>1. i \in 1 .. h /\ E!Shift(i, k) = i + k /\ i + k \in 1 .. n - 1
        BY <1>1, <3>1 DEF E!Shift
      <4>2. c[i + k] = t[i] /\ t[i].expression = r[i].expression
        BY <1>2, <1>3, <4>1
      <4>3. QED BY <4>1, <4>2
    <3>4. ~ E!IsLeaf(c[n].expression) => /\ c[n].left \in 1 .. n - 1
                                         /\ c[c[n].left].expression = c[n].expression.left
      BY <3>2, <3>3 DEF Links
    <3>5. E!IsBinary(c[n].expression) => /\ c[n].right \in 1 .. n - 1
                                         /\ c[c[n].right].expression = c[n].expression.right
      BY <3>2, <3>3 DEF Links
    <3>6. QED BY <3>4, <3>5 DEF Links
  <2>3. QED BY <2>1, <2>2
<1>5. \A n \in 1 .. h : c[n + k].expression = r[n].expression
  BY <1>2, <1>3
<1>6. QED BY <1>3, <1>4, <1>5 DEF c, t

\* Whatever the operands' nodes compute, the node's do with them.
LEMMA NodeCodeRight ==
  ASSUME EvaluatorGiven, NEW e \in E!Trees, NEW l, NEW r,
         e.left \in E!Operands(e) => CodeOf(l, e.left),
         e.right \in E!Operands(e) => CodeOf(r, e.right)
  PROVE  CodeOf(E!NodeCode(e, l, r), e)
<1>1. CASE E!IsLeaf(e)
  BY <1>1, LeafCode
<1>2. CASE ~ E!IsLeaf(e) /\ ~ E!IsBinary(e)
  <2>1. E!Operands(e) = {e.left}
    BY <1>2, TreeFacts
  <2>2. /\ l \in Seq(CodeNode) /\ Len(l) # 0 /\ l[Len(l)].expression = e.left
        /\ \A n \in 1 .. Len(l) : /\ Links(l, n)
                                  /\ E!TypeOf(e.left) # "Invalid"
                                       => E!TypeOf(l[n].expression) # "Invalid"
    BY <2>1 DEF CodeOf
  <2>3. E!TypeOf(e) # "Invalid" => \A n \in 1 .. Len(l) : E!TypeOf(l[n].expression) # "Invalid"
    BY <2>1, <2>2, OperandTypes
  <2> DEFINE m == [expression |-> e, left |-> Len(l), right |-> 0]
  <2>4. Len(l) \in Nat /\ Len(l) \in 1 .. Len(l)
    BY <2>2
  <2>5. m \in CodeNode /\ m.expression = e /\ m.left = Len(l)
    BY <2>4 DEF CodeNode
  <2>6. E!NodeCode(e, l, r) = Append(l, m)
    BY <1>2 DEF E!NodeCode
  <2> HIDE DEF m
  <2>7. m.left \in 1 .. Len(l) /\ l[m.left].expression = e.left
    BY <2>2, <2>4, <2>5
  <2>8. CodeOf(Append(l, m), e)
    BY <1>2, <2>2, <2>3, <2>5, <2>7, RootCode
  <2>9. QED BY <2>6, <2>8
<1>3. CASE ~ E!IsLeaf(e) /\ E!IsBinary(e)
  <2>1. E!Operands(e) = {e.left, e.right}
    BY <1>3, TreeFacts
  <2>2. /\ l \in Seq(CodeNode) /\ Len(l) # 0 /\ l[Len(l)].expression = e.left
        /\ \A n \in 1 .. Len(l) : /\ Links(l, n)
                                  /\ E!TypeOf(e.left) # "Invalid"
                                       => E!TypeOf(l[n].expression) # "Invalid"
    BY <2>1 DEF CodeOf
  <2>3. /\ r \in Seq(CodeNode) /\ Len(r) # 0 /\ r[Len(r)].expression = e.right
        /\ \A n \in 1 .. Len(r) : /\ Links(r, n)
                                  /\ E!TypeOf(e.right) # "Invalid"
                                       => E!TypeOf(r[n].expression) # "Invalid"
    BY <2>1 DEF CodeOf
  <2> DEFINE k == Len(l)
             h == Len(r)
             c == l \o E!Shifted(r, k)
             m == [expression |-> e, left |-> k, right |-> k + h]
  <2>4. /\ k \in Nat /\ h \in Nat /\ k \in 1 .. k + h /\ k + h \in 1 .. k + h
        /\ k \in 1 .. k /\ h \in 1 .. h
    BY <2>2, <2>3
  <2>5. m \in CodeNode /\ m.expression = e /\ m.left = k /\ m.right = k + h
    BY <2>4 DEF CodeNode
  <2>6. E!NodeCode(e, l, r) = Append(c, m)
    BY <1>3 DEF E!NodeCode
  <2>7. /\ c \in Seq(CodeNode) /\ Len(c) = k + h
        /\ \A n \in 1 .. Len(c) : Links(c, n)
        /\ \A n \in 1 .. k : c[n] = l[n]
        /\ \A n \in 1 .. h : c[n + k].expression = r[n].expression
    BY <2>2, <2>3, JoinedCode
  <2> HIDE DEF c, m
  <2>8. ASSUME E!TypeOf(e) # "Invalid", NEW n \in 1 .. k + h PROVE E!TypeOf(c[n].expression) # "Invalid"
    <3>1. E!TypeOf(e.left) # "Invalid" /\ E!TypeOf(e.right) # "Invalid"
      BY <2>1, <2>8, OperandTypes
    <3>2. CASE n \in 1 .. k
      BY <2>2, <2>7, <3>1, <3>2
    <3>3. CASE n \notin 1 .. k
      <4> DEFINE j == n - k
      <4>1. j \in 1 .. h /\ n = j + k
        BY <2>4, <3>3
      <4> HIDE DEF j
      <4>2. QED BY <2>3, <2>7, <3>1, <4>1
    <3>4. QED BY <3>2, <3>3
  <2>9. c[m.left].expression = e.left
    BY <2>2, <2>4, <2>5, <2>7
  <2>10. c[m.right].expression = e.right
    <3>1. c[h + k].expression = r[h].expression
      BY <2>4, <2>7
    <3>2. h + k = k + h
      BY <2>4
    <3>3. QED BY <2>3, <2>5, <3>1, <3>2
  <2>11. m.left \in 1 .. Len(c) /\ m.right \in 1 .. Len(c)
    BY <2>4, <2>5, <2>7
  <2>12. E!TypeOf(e) # "Invalid" => \A n \in 1 .. Len(c) : E!TypeOf(c[n].expression) # "Invalid"
    BY <2>7, <2>8
  <2>13. CodeOf(Append(c, m), e)
    BY <1>3, <2>5, <2>7, <2>9, <2>10, <2>11, <2>12, RootCode
  <2>14. QED BY <2>6, <2>13
<1>4. QED BY <1>1, <1>2, <1>3

\* Every tree has its nodes.
LEMMA CodeFacts ==
  ASSUME EvaluatorGiven, NEW e \in E!Trees
  PROVE  CodeOf(E!Code(e), e)
<1> DEFINE S == Seq(CodeNode)
           n(t, v) == E!NodeCode(t, v[t.left], v[t.right])
           B == [t \in E!Trees |-> [f \in [E!Trees -> S] |-> IF n(t, f) \in S THEN n(t, f) ELSE << >>]]
           code == CHOOSE v : v = [t \in E!Trees |-> n(t, v)]
<1>1. B \in [E!Trees -> [[E!Trees -> S] -> S]]
  OBVIOUS
<1>2. ASSUME NEW t \in E!Trees, NEW v, NEW w, \A o \in E!Operands(t) : v[o] = w[o]
      PROVE  n(t, v) = n(t, w)
  <2>1. CASE E!IsLeaf(t)
    BY <2>1 DEF E!NodeCode
  <2>2. CASE ~ E!IsLeaf(t) /\ ~ E!IsBinary(t)
    <3>1. v[t.left] = w[t.left]
      BY <1>2, <2>2, TreeFacts
    <3>2. QED BY <2>2, <3>1 DEF E!NodeCode
  <2>3. CASE E!IsBinary(t)
    <3>1. v[t.left] = w[t.left] /\ v[t.right] = w[t.right]
      BY <1>2, <2>3, TreeFacts
    <3>2. QED BY <3>1
  <2>4. QED BY <2>1, <2>2, <2>3
<1>3. Local(B, EvaluatorHeight, EvaluatorOperands, S)
  <2>1. ASSUME NEW t \in E!Trees, NEW f \in [E!Trees -> S], NEW h \in [E!Trees -> S],
               \A o \in E!Operands(t) : f[o] = h[o]
        PROVE  B[t][f] = B[t][h]
    <3>1. n(t, f) = n(t, h)
      BY <1>2, <2>1
    <3> HIDE DEF n
    <3>2. QED BY <3>1
  <2> HIDE DEF B
  <2>2. QED BY <2>1 DEF Local, EvaluatorOperands, E!Trees
<1>4. PICK f \in [E!Trees -> S] : \A t \in E!Trees : f[t] = B[t][f]
  <2>1. S # {}
    <3>1. << >> \in S
      OBVIOUS
    <3>2. QED BY <3>1
  <2> HIDE DEF B, S
  <2>2. B \in Equations(EvaluatorHeight, EvaluatorOperands, S)
    BY <1>1, <1>3 DEF Equations, E!Trees
  <2>3. Defines(B, EvaluatorHeight, S)
    BY <2>1, <2>2, HeightsFounded, RecursionDefines
  <2>4. QED BY <2>3 DEF Defines, E!Trees
<1>5. \A t \in E!Trees : f[t] = IF n(t, f) \in S THEN n(t, f) ELSE << >>
  <2> HIDE DEF n
  <2>1. QED BY <1>4
<1> HIDE DEF B
<1>6. ASSUME NEW v, \A t \in E!Trees : v[t] = n(t, v) \/ n(t, v) \notin S
      PROVE  \A t \in E!Trees : CodeOf(n(t, v), t) /\ CodeOf(v[t], t)
  <2> DEFINE Done(t) == CodeOf(n(t, v), t) /\ CodeOf(v[t], t)
             T == {t \in E!Trees : ~ Done(t)}
  <2>1. SUFFICES ASSUME T # {} PROVE FALSE
    OBVIOUS
  <2>2. PICK t \in T : \A d \in T : EvaluatorHeight[t] <= EvaluatorHeight[d]
    <3>1. T \in SUBSET DOMAIN EvaluatorHeight /\ EvaluatorHeight \in [DOMAIN EvaluatorHeight -> Nat]
      BY HeightsFounded DEF Founded
    <3> HIDE DEF T
    <3>2. QED BY <2>1, <3>1, Lowest
  <2>3. t \in E!Trees /\ ~ Done(t)
    <3> HIDE DEF Done
    <3>1. QED BY <2>2
  <2>4. \A o \in E!Operands(t) : CodeOf(v[o], o)
    <3> TAKE o \in E!Operands(t)
    <3>1. o \in E!Trees /\ ~ (EvaluatorHeight[t] <= EvaluatorHeight[o])
      BY <2>3, LowerOperands
    <3>2. o \notin T
      <4> HIDE DEF T
      <4>1. QED BY <2>2, <3>1
    <3>3. QED BY <3>1, <3>2
  <2>5. CodeOf(n(t, v), t)
    BY <2>3, <2>4, NodeCodeRight
  <2>6. n(t, v) \in S
    <3> HIDE DEF n
    <3>1. QED BY <2>5 DEF CodeOf
  <2>7. v[t] = n(t, v)
    <3> HIDE DEF n
    <3>1. QED BY <1>6, <2>3, <2>6
  <2>8. QED
    <3> HIDE DEF n
    <3>1. QED BY <2>3, <2>5, <2>7
<1>7. \A t \in E!Trees : CodeOf(n(t, f), t)
  <2>1. \A t \in E!Trees : f[t] = n(t, f) \/ n(t, f) \notin S
    <3> HIDE DEF n, S
    <3>1. QED BY <1>5
  <2> HIDE DEF n, S
  <2>2. QED BY <1>6, <2>1
<1>8. \A t \in E!Trees : f[t] = n(t, f)
  <2> HIDE DEF n
  <2>1. QED BY <1>5, <1>7 DEF CodeOf
<1>9. f = [t \in E!Trees |-> n(t, f)]
  <2> HIDE DEF n, S
  <2>1. QED BY <1>4, <1>8
<1>10. code = [t \in E!Trees |-> n(t, code)]
  <2> HIDE DEF n
  <2>1. QED BY <1>9
<1>11. E!Code(e) = code[e]
  BY DEF E!Code
<1> HIDE DEF code
<1>12. \A t \in E!Trees : code[t] = n(t, code)
  <2> HIDE DEF n
  <2>1. QED BY <1>10
<1>13. CodeOf(code[e], e)
  <2> HIDE DEF n, S
  <2>1. QED BY <1>6, <1>12
<1>14. QED BY <1>11, <1>13

-----------------------------------------------------------------------------
\* The value of a tree on a row.

\* The value of a node, by its kind.
LEMMA ValueCases ==
  ASSUME NEW e, NEW row, NEW a, NEW b
  PROVE  /\ e.kind = "column" => E!NodeValue(e, row, a, b) = row[e.column]
         /\ e.kind = "literal" => E!NodeValue(e, row, a, b) = e.value
         /\ e.kind = "isnull" => E!NodeValue(e, row, a, b) = (a = Null)
         /\ e.kind = "not" => E!NodeValue(e, row, a, b) = IF a = Null THEN Null ELSE ~ a
         /\ e.kind \in E!Connectives => E!NodeValue(e, row, a, b) = E!Connect(e.kind, a, b)
         /\ e.kind \in E!Comparisons =>
              E!NodeValue(e, row, a, b) = IF a = Null \/ b = Null THEN Null ELSE E!Compare(e.kind, a, b)
         /\ e.kind \in E!Arithmetic =>
              E!NodeValue(e, row, a, b) = IF a = Null \/ b = Null THEN Null ELSE E!Compute(e.kind, a, b)
  BY DEF E!NodeValue, E!Connectives, E!Comparisons, E!Arithmetic, E!Int64Arithmetic, E!DoubleArithmetic

\* The value of a node depends on its operands only.
LEMMA ValueLocal ==
  ASSUME EvaluatorGiven, NEW e \in E!Trees, NEW row, NEW a, NEW b, NEW c, NEW d,
         e.left \in E!Operands(e) => a = c,
         e.right \in E!Operands(e) => b = d
  PROVE  E!NodeValue(e, row, a, b) = E!NodeValue(e, row, c, d)
<1>1. CASE e.kind \in {"column", "literal"}
  BY <1>1, ValueCases
<1>2. CASE e.kind \in {"isnull", "not"}
  <2>1. a = c
    BY <1>2, TreeFacts DEF E!Connectives, E!Comparisons, E!Arithmetic, E!Int64Arithmetic,
       E!DoubleArithmetic
  <2>2. QED BY <1>2, <2>1 DEF E!NodeValue, E!Connectives
<1>3. CASE E!Operands(e) = {e.left, e.right}
  BY <1>3
<1>4. QED BY <1>1, <1>2, <1>3, TreeFacts

\* `f' has the values of all trees lower than n; what these are is not asked.
Values(f, row, n) ==
  \A t \in E!Trees : EvaluatorHeight[t] < n => f[t] = E!NodeValue(t, row, f[t.left], f[t.right])

\* The values of a row are determined as far as they are values.
LEMMA ValuesAgree ==
  ASSUME EvaluatorGiven, NEW row, NEW f, NEW h, NEW n \in Nat, Values(f, row, n), Values(h, row, n),
         NEW t \in E!Trees, EvaluatorHeight[t] < n
  PROVE  f[t] = h[t]
<1> DEFINE T == {e \in E!Trees : EvaluatorHeight[e] < n /\ f[e] # h[e]}
<1>1. T = {}
  <2> SUFFICES ASSUME T # {} PROVE FALSE
    OBVIOUS
  <2>1. PICK e \in T : \A d \in T : EvaluatorHeight[e] <= EvaluatorHeight[d]
    <3>1. T \in SUBSET DOMAIN EvaluatorHeight /\ EvaluatorHeight \in [DOMAIN EvaluatorHeight -> Nat]
      BY HeightsFounded DEF Founded
    <3> HIDE DEF T
    <3>2. QED BY <3>1, Lowest
  <2>2. e \in E!Trees /\ EvaluatorHeight[e] < n /\ f[e] # h[e]
    OBVIOUS
  <2>3. \A o \in E!Operands(e) : f[o] = h[o]
    <3> TAKE o \in E!Operands(e)
    <3>1. /\ o \in E!Trees /\ EvaluatorHeight[o] \in Nat
          /\ EvaluatorHeight[e] \in Nat /\ EvaluatorHeight[o] < EvaluatorHeight[e]
      BY <2>2, LowerOperands
    <3>2. EvaluatorHeight[o] < n /\ ~ (EvaluatorHeight[e] <= EvaluatorHeight[o])
      BY <2>2, <3>1
    <3>3. o \notin T
      <4> HIDE DEF T
      <4>1. QED BY <2>1, <3>2
    <3>4. QED BY <3>1, <3>2, <3>3
  <2>4. E!NodeValue(e, row, f[e.left], f[e.right]) = E!NodeValue(e, row, h[e.left], h[e.right])
    BY <2>2, <2>3, ValueLocal
  <2>5. QED BY <2>2, <2>4 DEF Values
<1>2. t \notin T
  BY <1>1
<1>3. QED BY <1>2

\* There are values of a row for the trees below any height.
LEMMA ValuesBelow ==
  ASSUME EvaluatorGiven, NEW row, NEW n \in Nat
  PROVE  \E f : f = [t \in E!Trees |-> f[t]] /\ Values(f, row, n)
<1> DEFINE G(m) == \E f : f = [t \in E!Trees |-> f[t]] /\ Values(f, row, m)
           T == {m \in Nat : ~ G(m)}
<1>1. T = {}
  <2> SUFFICES ASSUME T # {} PROVE FALSE
    OBVIOUS
  <2>1. PICK m \in T : \A y \in T : m <= y
    <3>1. T \in SUBSET Nat
      OBVIOUS
    <3> HIDE DEF T
    <3>2. QED BY <3>1, Least
  <2>2. m \in Nat /\ ~ G(m)
    OBVIOUS
  <2>3. CASE m = 0
    <3> DEFINE f == [t \in E!Trees |-> 0]
    <3>1. f = [t \in E!Trees |-> f[t]]
      OBVIOUS
    <3> HIDE DEF f
    <3>2. Values(f, row, 0)
      BY LowerOperands DEF Values
    <3>3. QED BY <2>2, <2>3, <3>1, <3>2
  <2>4. CASE m # 0
    <3>1. m - 1 \in Nat /\ m - 1 < m
      BY <2>2, <2>4
    <3>2. m - 1 \notin T
      <4> HIDE DEF T
      <4>1. QED BY <2>1, <2>2, <3>1
    <3>3. PICK f : f = [t \in E!Trees |-> f[t]] /\ Values(f, row, m - 1)
      BY <3>1, <3>2
    <3> DEFINE g == [t \in E!Trees |-> E!NodeValue(t, row, f[t.left], f[t.right])]
    <3>4. /\ g = [t \in E!Trees |-> g[t]]
          /\ \A t \in E!Trees : g[t] = E!NodeValue(t, row, f[t.left], f[t.right])
      OBVIOUS
    <3> HIDE DEF g
    <3>5. ASSUME NEW t \in E!Trees, EvaluatorHeight[t] < m
          PROVE  g[t] = E!NodeValue(t, row, g[t.left], g[t.right])
      <4>1. \A o \in E!Operands(t) : f[o] = g[o]
        <5> TAKE o \in E!Operands(t)
        <5>1. /\ o \in E!Trees /\ EvaluatorHeight[o] \in Nat
              /\ EvaluatorHeight[t] \in Nat /\ EvaluatorHeight[o] < EvaluatorHeight[t]
          BY LowerOperands
        <5>2. EvaluatorHeight[o] < m - 1
          BY <2>2, <3>5, <5>1
        <5>3. f[o] = E!NodeValue(o, row, f[o.left], f[o.right])
          BY <3>3, <5>1, <5>2 DEF Values
        <5>4. QED BY <3>4, <5>1, <5>3
      <4>2. E!NodeValue(t, row, f[t.left], f[t.right]) = E!NodeValue(t, row, g[t.left], g[t.right])
        BY <4>1, ValueLocal
      <4>3. QED BY <3>4, <4>2
    <3>6. Values(g, row, m)
      BY <3>5 DEF Values
    <3>7. QED BY <2>2, <3>4, <3>6
  <2>5. QED BY <2>3, <2>4
<1>2. n \notin T
  BY <1>1
<1>3. QED BY <1>2

\* Every tree has a value, which obeys the equation of its root.
LEMMA EvaluateEquation ==
  ASSUME EvaluatorGiven, NEW row, NEW e \in E!Trees
  PROVE  E!Evaluate(e, row) = E!NodeValue(e, row, E!Evaluate(e.left, row), E!Evaluate(e.right, row))
<1> DEFINE n(t, v) == E!NodeValue(t, row, v[t.left], v[t.right])
           below[k \in Nat] == CHOOSE f : f = [t \in E!Trees |-> f[t]] /\ Values(f, row, k)
           g == [t \in E!Trees |-> below[EvaluatorHeight[t] + 1][t]]
           value == CHOOSE v : v = [t \in E!Trees |-> n(t, v)]
<1>1. \A k \in Nat : Values(below[k], row, k)
  BY ValuesBelow
<1> HIDE DEF below
<1>2. \A t \in E!Trees : g[t] = below[EvaluatorHeight[t] + 1][t]
  OBVIOUS
<1>3. g = [t \in E!Trees |-> g[t]]
  OBVIOUS
<1> HIDE DEF g
<1>4. ASSUME NEW t \in E!Trees PROVE g[t] = n(t, g)
  <2> DEFINE k == EvaluatorHeight[t] + 1
             f == below[k]
  <2>1. k \in Nat /\ EvaluatorHeight[t] \in Nat /\ EvaluatorHeight[t] < k
    BY LowerOperands
  <2>2. Values(f, row, k) /\ g[t] = f[t]
    BY <1>1, <1>2, <2>1
  <2> HIDE DEF f
  <2>3. ASSUME NEW o \in E!Operands(t) PROVE f[o] = g[o]
    <3> DEFINE j == EvaluatorHeight[o] + 1
    <3>1. o \in E!Trees /\ EvaluatorHeight[o] \in Nat /\ j \in Nat /\ j < k /\ EvaluatorHeight[o] < j
      BY <2>1, LowerOperands
    <3>2. Values(below[j], row, j) /\ g[o] = below[j][o]
      BY <1>1, <1>2, <3>1
    <3> HIDE DEF k
    <3>3. Values(f, row, j)
      <4>1. ASSUME NEW d \in E!Trees, EvaluatorHeight[d] < j
            PROVE  f[d] = E!NodeValue(d, row, f[d.left], f[d.right])
        <5>1. EvaluatorHeight[d] < k
          BY <2>1, <3>1, <4>1, LowerOperands
        <5>2. QED BY <2>2, <5>1 DEF Values
      <4>2. QED BY <4>1 DEF Values
    <3> HIDE DEF j
    <3>4. f[o] = below[j][o]
      BY <3>1, <3>2, <3>3, ValuesAgree
    <3>5. QED BY <3>2, <3>4
  <2>4. f[t] = n(t, f)
    BY <2>1, <2>2 DEF Values
  <2>5. n(t, f) = n(t, g)
    BY <2>3, ValueLocal
  <2>6. QED BY <2>2, <2>4, <2>5
<1>5. g = [t \in E!Trees |-> n(t, g)]
  <2> HIDE DEF n
  <2>1. QED BY <1>3, <1>4
<1>6. value = [t \in E!Trees |-> n(t, value)]
  <2> HIDE DEF n
  <2>1. QED BY <1>5
<1>7. \A t : E!Evaluate(t, row) = value[t]
  BY DEF E!Evaluate
<1> HIDE DEF value
<1>8. value[e] = n(e, value)
  <2> HIDE DEF n
  <2>1. QED BY <1>6
<1>9. QED BY <1>7, <1>8

-----------------------------------------------------------------------------
\* What the loops and the kernels compute for one row.

\* A value that fits its type is no NULL, and NaN only if it is a DOUBLE.
LEMMA FitsFacts ==
  ASSUME EvaluatorGiven, NEW x
  PROVE  /\ E!Fits(x, "Boolean") <=> x \in BOOLEAN
         /\ E!Fits(x, "Int64") <=> x \in E!Int64
         /\ E!Fits(x, "Double") <=> x = NaN \/ x \in Int
         /\ \A t \in E!ValueTypes : E!Fits(x, t) => x # Null
         /\ x \in E!Int64 => x \in Int /\ x # NaN /\ E!Fits(x, "Double")
<1>1. /\ E!Fits(x, "Boolean") <=> x \in BOOLEAN
      /\ E!Fits(x, "Int64") <=> x \in E!Int64
      /\ E!Fits(x, "Double") <=> x = NaN \/ x \in Int
  BY DEF E!Fits
<1>2. x \in E!Int64 => x \in Int
  BY SpecialFacts DEF E!Int64
<1>3. x \in Int => x # NaN /\ x # Null
  BY SpecialFacts
<1>4. x \in BOOLEAN => x # Null
  BY SpecialFacts
<1>5. ASSUME NEW t \in E!ValueTypes, E!Fits(x, t) PROVE x # Null
  BY <1>1, <1>2, <1>3, <1>4, <1>5, SpecialFacts DEF E!ValueTypes
<1>6. QED BY <1>1, <1>2, <1>3, <1>5

\* reset() leaves zeroes, which fit every type.
LEMMA ZeroFits == ASSUME EvaluatorGiven, NEW t \in E!ValueTypes PROVE E!Fits(E!Zero(t), t)
<1>1. 0 \in E!Int64 /\ 0 \in Int
  BY SpecialFacts DEF E!Int64
<1>2. CASE t = "Boolean"
  BY <1>2, FitsFacts DEF E!Zero
<1>3. CASE t = "Int64"
  BY <1>1, <1>3, FitsFacts DEF E!Zero
<1>4. CASE t = "Double"
  BY <1>1, <1>4, FitsFacts DEF E!Zero
<1>5. QED BY <1>2, <1>3, <1>4 DEF E!ValueTypes

\* AND and OR on payloads and flags are the connectives of three-valued logic.
LEMMA ConnectedRight ==
  ASSUME EvaluatorGiven, NEW k \in E!Connectives, NEW x \in BOOLEAN, NEW y \in BOOLEAN,
         NEW xValid \in BOOLEAN, NEW yValid \in BOOLEAN
  PROVE  LET a == IF xValid THEN x ELSE Null
             b == IF yValid THEN y ELSE Null
             valid == E!ConnectedValid(k = "and", x, y, xValid, yValid)
             data == IF k = "and" THEN x /\ y ELSE x \/ y
         IN  /\ valid \in BOOLEAN /\ data \in BOOLEAN
             /\ (IF valid THEN data ELSE Null) = E!Connect(k, a, b)
<1>1. Null # TRUE /\ Null # FALSE
  BY SpecialFacts
<1>2. CASE k = "and"
  BY <1>1, <1>2 DEF E!ConnectedValid, E!Connect
<1>3. CASE k = "or"
  BY <1>1, <1>3 DEF E!ConnectedValid, E!Connect
<1>4. QED BY <1>2, <1>3 DEF E!Connectives

\* A comparison of two values of a type is decided.
LEMMA ComparisonTyped ==
  ASSUME EvaluatorGiven, NEW k \in E!Comparisons, NEW t \in E!ValueTypes, NEW x, NEW y, E!Fits(x, t),
         E!Fits(y, t),
         k \notin {"=", "#"} => t # "Boolean"
  PROVE  E!Compare(k, x, y) \in BOOLEAN
<1>1. CASE x = NaN \/ y = NaN
  BY <1>1 DEF E!Compare
<1>2. CASE ~ (x = NaN \/ y = NaN)
  <2>1. CASE k \in {"=", "#"}
    BY <1>2, <2>1 DEF E!Compare
  <2>2. CASE k \in {"<", "<=", ">", ">="}
    <3>1. x \in Int /\ y \in Int
      BY <1>2, <2>2, FitsFacts DEF E!ValueTypes
    <3>2. k = "<" => E!Compare(k, x, y) \in BOOLEAN
      BY <1>2, <3>1 DEF E!Compare
    <3>3. k = "<=" => E!Compare(k, x, y) \in BOOLEAN
      BY <1>2, <3>1 DEF E!Compare
    <3>4. k = ">" => E!Compare(k, x, y) \in BOOLEAN
      BY <1>2, <3>1 DEF E!Compare
    <3>5. k = ">=" => E!Compare(k, x, y) \in BOOLEAN
      BY <1>2, <3>1 DEF E!Compare
    <3>6. QED BY <2>2, <3>2, <3>3, <3>4, <3>5
  <2>3. QED BY <2>1, <2>2 DEF E!Comparisons
<1>3. QED BY <1>1, <1>2

\* The built-ins that detect overflow: the wrapped result is the exact one only in range.
LEMMA WrappedFacts ==
  ASSUME EvaluatorGiven, NEW x \in Int
  PROVE  E!Wrapped(x) \in E!Int64 /\ (E!Wrapped(x) = x <=> x \in E!Int64)
<1> DEFINE m == MaxInt + 1
           w == (x + m) % (2 * m)
<1>1. MaxInt \in Nat /\ m \in Nat /\ m > 0
  BY SpecialFacts
<1>2. E!Wrapped(x) = w - m
  <2>1. ((x + MaxInt + 1) % (2 * (MaxInt + 1))) - MaxInt - 1
          = ((x + (MaxInt + 1)) % (2 * (MaxInt + 1))) - (MaxInt + 1)
    BY <1>1
  <2>2. QED BY <2>1 DEF E!Wrapped, E!Modulus
<1>3. w \in Int /\ 0 <= w /\ w < 2 * m
  BY <1>1
<1>4. 0 <= x + m /\ x + m < 2 * m => w = x + m
  BY <1>1
<1>5. x \in E!Int64 <=> 0 <= x + m /\ x + m < 2 * m
  BY <1>1 DEF E!Int64
<1>6. w - m \in E!Int64
  BY <1>1, <1>3 DEF E!Int64
<1> HIDE DEF w, m
<1>7. QED BY <1>1, <1>2, <1>3, <1>4, <1>5, <1>6

\* A quotient of Int64s is one, but for the one that Divides() leaves out.
LEMMA QuotientOfInts ==
  ASSUME NEW x \in Int, NEW y \in Int, y # 0
  PROVE  E!Quotient(x, y) \in Int
<1>1. E!Magnitude(x) \in Int /\ E!Magnitude(y) \in Int /\ E!Magnitude(y) > 0
  BY DEF E!Magnitude
<1>2. E!Magnitude(x) \div E!Magnitude(y) \in Int
  BY <1>1
<1>3. QED BY <1>2 DEF E!Quotient

\* A quotient is a 64-bit integer exactly when Divides says so.
LEMMA QuotientRange ==
  ASSUME EvaluatorGiven, NEW x \in E!Int64, NEW y \in E!Int64, y # 0
  PROVE  E!Quotient(x, y) \in E!Int64 <=> E!Divides(x, y)
<1> DEFINE a == E!Magnitude(x)
           b == E!Magnitude(y)
           q == a \div b
<1>1. x \in Int /\ y \in Int /\ MaxInt \in Nat
  BY FitsFacts, SpecialFacts
<1>2. /\ a \in Nat /\ b \in Nat /\ b > 0 /\ a <= MaxInt + 1
      /\ a = MaxInt + 1 => x = -MaxInt - 1
      /\ x = -MaxInt - 1 => a = MaxInt + 1 /\ a > 0
      /\ b = 1 => y = 1 \/ y = -1
      /\ y = 1 \/ y = -1 => b = 1
  BY <1>1 DEF E!Magnitude, E!Int64
<1>3. E!Quotient(x, y) = IF (x < 0) = (y < 0) THEN q ELSE -q
  BY DEF E!Quotient
<1> HIDE DEF a, b
<1>4. q \in Nat /\ q <= a
  BY <1>2
<1>5. b # 1 /\ a > 0 => q < a
  <2>1. b # 1 => b > 1
    BY <1>2
  <2>2. QED BY <1>2, <2>1
<1>6. b = 1 => q = a
  BY <1>2
<1> HIDE DEF q
<1>7. CASE x = -MaxInt - 1 /\ y = -1
  <2>1. (x < 0) = (y < 0) /\ q = MaxInt + 1
    BY <1>1, <1>2, <1>6, <1>7
  <2>2. E!Quotient(x, y) \notin E!Int64
    BY <1>1, <1>3, <2>1 DEF E!Int64
  <2>3. QED BY <1>7, <2>2 DEF E!Divides
<1>8. CASE x = -MaxInt - 1 /\ y = 1
  <2>1. x < 0 /\ ~ (y < 0) /\ q = MaxInt + 1
    BY <1>1, <1>2, <1>6, <1>8
  <2>2. E!Quotient(x, y) = -q
    BY <1>3, <2>1
  <2>3. E!Quotient(x, y) \in E!Int64
    BY <1>1, <2>1, <2>2 DEF E!Int64
  <2>4. y # -1
    BY <1>8
  <2>5. QED BY <2>3, <2>4 DEF E!Divides
<1>9. CASE ~ (x = -MaxInt - 1 /\ (y = 1 \/ y = -1))
  <2>1. q <= MaxInt
    <3>1. CASE a <= MaxInt
      BY <1>1, <1>2, <1>4, <3>1
    <3>2. CASE ~ (a <= MaxInt)
      <4>1. a = MaxInt + 1 /\ b # 1 /\ a > 0
        BY <1>1, <1>2, <1>9, <3>2
      <4>2. q < MaxInt + 1
        BY <1>5, <4>1
      <4>3. QED BY <1>1, <1>4, <4>2
    <3>3. QED BY <3>1, <3>2
  <2>2. q \in E!Int64 /\ -q \in E!Int64
    BY <1>1, <1>4, <2>1 DEF E!Int64
  <2>3. E!Quotient(x, y) \in E!Int64
    BY <1>3, <2>2
  <2>4. QED BY <1>9, <2>3 DEF E!Divides
<1>10. QED BY <1>7, <1>8, <1>9

\* An exact result of integers is one.
LEMMA ExactInt ==
  ASSUME NEW k \in E!Arithmetic, NEW x \in Int, NEW y \in Int, k \in {"/", "/."} => y # 0
  PROVE  E!Exact(k, x, y) \in Int
<1>1. k \in {"+", "+."} => E!Exact(k, x, y) = x + y
  BY DEF E!Exact
<1>2. k \in {"-", "-."} => E!Exact(k, x, y) = x - y
  BY DEF E!Exact
<1>3. k \in {"*", "*."} => E!Exact(k, x, y) = x * y
  BY DEF E!Exact
<1>4. k \in {"/", "/."} => E!Exact(k, x, y) = E!Quotient(x, y)
  BY DEF E!Exact
<1>5. x + y \in Int /\ x - y \in Int /\ x * y \in Int
  OBVIOUS
<1>6. QED BY <1>1, <1>2, <1>3, <1>4, <1>5, QuotientOfInts DEF E!Arithmetic, E!Int64Arithmetic,
             E!DoubleArithmetic

\* What eval_arithmetic() leaves for two valid Int64 operands,
LEMMA Int64ResultRight ==
  ASSUME EvaluatorGiven, NEW k \in E!Int64Arithmetic, NEW x \in E!Int64, NEW y \in E!Int64
  PROVE  LET r == E!Int64Result(k, x, y)
         IN  /\ r.valid \in BOOLEAN /\ r.data \in E!Int64
             /\ (IF r.valid THEN r.data ELSE Null) = E!Compute(k, x, y)
<1> DEFINE r == E!Int64Result(k, x, y)
           z == E!Exact(k, x, y)
<1>1. x \in Int /\ y \in Int /\ x # NaN /\ y # NaN /\ 0 \in E!Int64
  BY FitsFacts, SpecialFacts DEF E!Int64
<1>2. k \in E!Arithmetic /\ k # "/."
  BY DEF E!Arithmetic, E!Int64Arithmetic
<1>3. E!Compute(k, x, y) = IF k = "/" /\ y = 0 THEN Null ELSE IF z \notin E!Int64 THEN Null ELSE z
  BY <1>1, <1>2 DEF E!Compute, E!Int64
<1>4. CASE k = "/"
  <2>1. z = E!Quotient(x, y)
    BY <1>4 DEF E!Exact
  <2>2. y # 0 => (z \in E!Int64 <=> E!Divides(x, y))
    BY <2>1, QuotientRange
  <2>3. y = 0 => ~ E!Divides(x, y)
    BY DEF E!Divides
  <2>4. E!Divides(x, y) => r.valid = TRUE /\ r.data = z
    BY <1>4, <2>1 DEF E!Int64Result
  <2>5. ~ E!Divides(x, y) => r.valid = FALSE /\ r.data = 0
    BY <1>4 DEF E!Int64Result
  <2> HIDE DEF r, z
  <2>6. QED BY <1>1, <1>3, <1>4, <2>2, <2>3, <2>4, <2>5 DEF r
<1>5. CASE k # "/"
  <2>1. z \in Int
    BY <1>1, <1>2, <1>5, ExactInt
  <2>2. r = [valid |-> E!Wrapped(z) = z, data |-> E!Wrapped(z)]
    BY <1>5 DEF E!Int64Result
  <2>3. r.valid = (E!Wrapped(z) = z) /\ r.data = E!Wrapped(z)
    <3> DEFINE b == E!Wrapped(z) = z
               w == E!Wrapped(z)
    <3>1. r = [valid |-> b, data |-> w]
      BY <2>2
    <3> HIDE DEF b, w, r
    <3>2. r.valid = b /\ r.data = w
      BY <3>1
    <3>3. QED BY <3>2 DEF b, w
  <2> HIDE DEF r, z
  <2>4. E!Wrapped(z) \in E!Int64 /\ (E!Wrapped(z) = z <=> z \in E!Int64)
    BY <2>1, WrappedFacts
  <2>5. QED BY <1>3, <1>5, <2>3, <2>4 DEF r
<1>6. QED BY <1>4, <1>5

\* and for two DOUBLEs.
LEMMA DoubleResultRight ==
  ASSUME EvaluatorGiven, NEW k \in E!DoubleArithmetic, NEW x, NEW y, E!Fits(x, "Double"), E!Fits(y,
         "Double")
  PROVE  LET r == E!DoubleResult(k, x, y)
         IN  /\ r.valid \in BOOLEAN /\ E!Fits(r.data, "Double")
             /\ (IF r.valid THEN r.data ELSE Null) = E!Compute(k, x, y)
<1> DEFINE r == E!DoubleResult(k, x, y)
           z == E!Exact(k, x, y)
<1>1. (x = NaN \/ x \in Int) /\ (y = NaN \/ y \in Int) /\ 0 \in Int
  BY FitsFacts
<1>2. k \in E!Arithmetic /\ k # "/" /\ k \notin E!Int64Arithmetic
  BY DEF E!Arithmetic, E!Int64Arithmetic, E!DoubleArithmetic
<1>3. E!Compute(k, x, y) = IF k = "/." /\ y = 0 THEN Null
                           ELSE IF x = NaN \/ y = NaN THEN NaN ELSE z
  BY <1>2 DEF E!Compute
<1>4. CASE k = "/." /\ y = 0
  <2>1. r.valid = FALSE /\ r.data = 0
    BY <1>4 DEF E!DoubleResult
  <2> HIDE DEF r, z
  <2>2. QED BY <1>1, <1>3, <1>4, <2>1, FitsFacts DEF r
<1>5. CASE ~ (k = "/." /\ y = 0)
  <2>1. r.valid = TRUE /\ r.data = IF NaN \in {x, y} THEN NaN ELSE z
    BY <1>5 DEF E!DoubleResult
  <2>2. ~ (x = NaN \/ y = NaN) => z \in Int
    BY <1>1, <1>2, <1>5, ExactInt
  <2> HIDE DEF r, z
  <2>3. QED BY <1>3, <1>5, <2>1, <2>2, FitsFacts DEF r
<1>6. QED BY <1>4, <1>5

\* The kernels and the loops after them take every row once.
LEMMA KernelRowsAll ==
  ASSUME EvaluatorGiven, NEW n \in Nat
  PROVE  E!KernelRows(n) = 1 .. n
<1> DEFINE m == Lanes * (n \div Lanes)
<1>1. Lanes \in Nat /\ Lanes > 0
  BY SpecialFacts
<1>2. m \in Nat /\ m <= n
  <2>1. n \div Lanes \in Nat /\ Lanes * (n \div Lanes) <= n
    BY <1>1
  <2>2. QED BY <1>1, <2>1
<1>3. E!KernelRows(n) = 1 .. m \cup m + 1 .. n
  BY DEF E!KernelRows, E!VectorRows
<1> HIDE DEF m
<1>4. QED BY <1>2, <1>3

-----------------------------------------------------------------------------
\* Columns.

\* A column that fits, told by its parts.
LEMMA ColumnBuilt ==
  ASSUME NEW t \in E!ValueTypes, NEW n \in Nat, NEW data, NEW valid, NEW c,
         data = [i \in 1 .. n |-> data[i]], valid = [i \in 1 .. n |-> valid[i]],
         \A i \in 1 .. n : E!Fits(data[i], t) /\ valid[i] \in BOOLEAN,
         c.type = t, c.data = data, c.valid = valid
  PROVE  E!ColumnFits(c, t, n) /\ Len(c.data) = n
<1>1. DOMAIN data = 1 .. n /\ DOMAIN valid = 1 .. n
  OBVIOUS
<1>2. Len(data) = n
  <2>1. data \in Seq({data[i] : i \in 1 .. n})
    OBVIOUS
  <2>2. QED BY <1>1, <2>1
<1>3. QED BY <1>1, <1>2 DEF E!ColumnFits

\* What reset() leaves,
LEMMA ResetFacts ==
  ASSUME EvaluatorGiven, NEW column, NEW n \in Nat, NEW t \in E!ValueTypes, column.type = t
  PROVE  /\ E!Reset(column, n) = [type |-> t, data |-> [i \in 1 .. n |-> E!Zero(t)],
                                  valid |-> [i \in 1 .. n |-> TRUE]]
         /\ E!Reset(column, n).type = t
         /\ E!Reset(column, n).data = [i \in 1 .. n |-> E!Zero(t)]
         /\ E!Reset(column, n).valid = [i \in 1 .. n |-> TRUE]
         /\ E!ColumnFits(E!Reset(column, n), t, n) /\ Len(E!Reset(column, n).data) = n
<1>1. E!Reset(column, n) = [type |-> t, data |-> [i \in 1 .. n |-> E!Zero(t)],
                            valid |-> [i \in 1 .. n |-> TRUE]]
  BY DEF E!Reset
<1> DEFINE data == [i \in 1 .. n |-> E!Zero(t)]
           valid == [i \in 1 .. n |-> TRUE]
<1>2. data = [i \in 1 .. n |-> data[i]] /\ valid = [i \in 1 .. n |-> valid[i]]
  OBVIOUS
<1>3. \A i \in 1 .. n : E!Fits(data[i], t) /\ valid[i] \in BOOLEAN
  BY ZeroFits
<1> DEFINE c == E!Reset(column, n)
<1>4. c.type = t /\ c.data = data /\ c.valid = valid
  BY <1>1
<1> HIDE DEF data, valid, c
<1>5. E!ColumnFits(c, t, n) /\ Len(c.data) = n
  BY <1>2, <1>3, <1>4, ColumnBuilt
<1>6. QED BY <1>1, <1>4, <1>5 DEF data, valid, c

\* and what the rows written into it leave: the others stay as they were.
LEMMA OverlaidFacts ==
  ASSUME NEW n \in Nat, NEW f, NEW g, DOMAIN f = 1 .. n, DOMAIN g \subseteq 1 .. n
  PROVE  /\ E!Overlay(f, g) = [i \in 1 .. n |-> E!Overlay(f, g)[i]]
         /\ \A i \in 1 .. n : E!Overlay(f, g)[i] = IF i \in DOMAIN g THEN g[i] ELSE f[i]
  BY DEF E!Overlay

\* The flags and payloads that the loops over the selection write.
Written(c, t, n, cells) ==
  /\ c.type = t
  /\ c.data = E!Overlay([i \in 1 .. n |-> E!Zero(t)], [i \in DOMAIN cells |-> cells[i].data])
  /\ c.valid = E!Overlay([i \in 1 .. n |-> TRUE], [i \in DOMAIN cells |-> cells[i].valid])

\* A column that a kernel has written has a cell in every row that it wrote.
LEMMA WrittenFacts ==
  ASSUME EvaluatorGiven, NEW t \in E!ValueTypes, NEW n \in Nat, NEW cells, DOMAIN cells \subseteq 1 .. n,
         \A i \in DOMAIN cells : E!Fits(cells[i].data, t) /\ cells[i].valid \in BOOLEAN,
         NEW c, Written(c, t, n, cells)
  PROVE  /\ E!ColumnFits(c, t, n) /\ Len(c.data) = n
         /\ \A i \in DOMAIN cells : E!ValueAt(c, i) = IF cells[i].valid THEN cells[i].data ELSE Null
<1> DEFINE zeroes == [i \in 1 .. n |-> E!Zero(t)]
           flags == [i \in 1 .. n |-> TRUE]
           newData == [i \in DOMAIN cells |-> cells[i].data]
           newValid == [i \in DOMAIN cells |-> cells[i].valid]
           data == E!Overlay(zeroes, newData)
           valid == E!Overlay(flags, newValid)
<1>1. /\ DOMAIN zeroes = 1 .. n /\ DOMAIN flags = 1 .. n
      /\ DOMAIN newData = DOMAIN cells /\ DOMAIN newValid = DOMAIN cells
      /\ \A i \in 1 .. n : zeroes[i] = E!Zero(t) /\ flags[i] = TRUE
      /\ \A i \in DOMAIN cells : newData[i] = cells[i].data /\ newValid[i] = cells[i].valid
  OBVIOUS
<1>2. c.type = t /\ c.data = data /\ c.valid = valid
  BY DEF Written
<1> HIDE DEF zeroes, flags, newData, newValid
<1>3. /\ data = [i \in 1 .. n |-> data[i]] /\ valid = [i \in 1 .. n |-> valid[i]]
      /\ \A i \in 1 .. n : /\ data[i] = IF i \in DOMAIN newData THEN newData[i] ELSE zeroes[i]
                           /\ valid[i] = IF i \in DOMAIN newValid THEN newValid[i] ELSE flags[i]
  BY <1>1, OverlaidFacts
<1> HIDE DEF data, valid
<1>4. ASSUME NEW i \in 1 .. n PROVE E!Fits(data[i], t) /\ valid[i] \in BOOLEAN
  <2>1. CASE i \in DOMAIN cells
    <3>1. data[i] = cells[i].data /\ valid[i] = cells[i].valid
      BY <1>1, <1>3, <2>1
    <3>2. QED BY <2>1, <3>1
  <2>2. CASE i \notin DOMAIN cells
    <3>1. data[i] = E!Zero(t) /\ valid[i] = TRUE
      BY <1>1, <1>3, <2>2
    <3>2. QED BY <3>1, ZeroFits
  <2>3. QED BY <2>1, <2>2
<1>5. \A i \in DOMAIN cells : data[i] = cells[i].data /\ valid[i] = cells[i].valid
  BY <1>1, <1>3
<1>6. E!ColumnFits(c, t, n) /\ Len(c.data) = n
  <2>1. data = [i \in 1 .. n |-> data[i]] /\ valid = [i \in 1 .. n |-> valid[i]]
    BY <1>3
  <2> HIDE <1>3
  <2>2. QED BY <1>2, <1>4, <2>1, ColumnBuilt
<1>7. \A i \in DOMAIN cells : E!ValueAt(c, i) = IF cells[i].valid THEN cells[i].data ELSE Null
  BY <1>2, <1>5 DEF E!ValueAt
<1>8. QED BY <1>6, <1>7

-----------------------------------------------------------------------------
\* The step of a node.

\* The column of a node has its value on every selected row.
NodeDone(column, n) ==
  LET e == nodes[n].expression
  IN  /\ E!ColumnFits(column, E!TypeOf(e), batch.size)
      /\ \A i \in E!Range(batch.rows) : E!ValueAt(column, i) = E!Evaluate(e, E!RowAt(i))
      /\ e.kind = "literal" /\ e.value = Null => \A i \in 1 .. batch.size : ~ column.valid[i]

\* The expression that the nodes compute, and what is known of them.
LEMMA NodeFacts ==
  ASSUME EvaluatorGiven, E!IInv
  PROVE  /\ nodes \in Seq(CodeNode) /\ Len(nodes) \in Nat /\ Len(nodes) # 0
         /\ DOMAIN nodes = 1 .. Len(nodes)
         /\ \A n \in DOMAIN nodes : /\ nodes[n].expression \in E!Trees
                                    /\ Links(nodes, n)
                                    /\ E!TypeOf(nodes[n].expression) \in E!ValueTypes
<1>1. PICK e \in Roots : E!TypeOf(e) # "Invalid" /\ nodes = E!Code(e)
  BY DEF E!IInv, E!Compiled
<1>2. e \in E!Trees
  BY DEF EvaluatorGiven, E!EvaluatorConstants
<1>3. CodeOf(nodes, e)
  BY <1>1, <1>2, CodeFacts
<1>4. /\ nodes \in Seq(CodeNode) /\ Len(nodes) # 0
      /\ \A n \in 1 .. Len(nodes) : Links(nodes, n) /\ E!TypeOf(nodes[n].expression) # "Invalid"
  BY <1>1, <1>3 DEF CodeOf
<1>5. Len(nodes) \in Nat /\ DOMAIN nodes = 1 .. Len(nodes)
  BY <1>4
<1>6. \A n \in 1 .. Len(nodes) : nodes[n].expression \in E!Trees
  <2>1. \A n \in 1 .. Len(nodes) : nodes[n] \in CodeNode
    BY <1>4
  <2>2. QED BY <2>1 DEF CodeNode
<1>7. \A n \in 1 .. Len(nodes) : E!TypeOf(nodes[n].expression) \in E!ValueTypes
  BY <1>4, <1>6, OperandTypes
<1>8. QED BY <1>4, <1>5, <1>6, <1>7

\* What is known of the batch in a call.
LEMMA BatchFacts ==
  ASSUME EvaluatorGiven, E!IInv, next # 0
  PROVE  /\ E!BatchFits(batch) /\ batch.size \in Nat
         /\ batch.rows \in Seq(1 .. batch.size) /\ E!Range(batch.rows) \subseteq 1 .. batch.size
         /\ DOMAIN batch.columns = E!ColumnsRead
<1>1. E!BatchFits(batch) /\ DOMAIN batch.columns = E!ColumnsRead
  BY DEF EvaluatorGiven, E!EvaluatorConstants, E!IInv, E!BatchGiven
<1>2. batch.size \in Nat /\ batch.rows \in Seq(1 .. batch.size)
  BY <1>1 DEF E!BatchFits
<1>3. E!Range(batch.rows) \subseteq 1 .. batch.size
  BY <1>2 DEF E!Range
<1>4. QED BY <1>1, <1>2, <1>3

\* The node that evaluate() is at, and its operands.
LEMMA CurrentFacts ==
  ASSUME EvaluatorGiven, E!IInv, E!InCall
  PROVE  LET e == E!Node.expression
         IN  /\ next \in 1 .. Len(nodes) /\ next # 0 /\ e \in E!Trees /\ E!TypeOf(e) \in E!ValueTypes
             /\ buffers[next].type = E!TypeOf(e)
             /\ ~ E!IsLeaf(e) => NodeDone(E!Left, E!Node.left) /\ nodes[E!Node.left].expression = e.left
             /\ E!IsBinary(e)
                  => NodeDone(E!Right, E!Node.right) /\ nodes[E!Node.right].expression = e.right
<1> DEFINE e == E!Node.expression
<1>1. next \in 1 .. Len(nodes) /\ next \in DOMAIN nodes /\ next # 0 /\ Len(nodes) \in Nat
  BY NodeFacts DEF E!InCall
<1>2. e \in E!Trees /\ E!TypeOf(e) \in E!ValueTypes /\ Links(nodes, next) /\ E!Node = nodes[next]
  BY <1>1, NodeFacts DEF E!Node
<1>3. buffers[next].type = E!TypeOf(e)
  BY <1>1 DEF E!IInv, E!TypeOK, E!ColumnFits, E!Node
<1>4. ASSUME NEW n \in 1 .. next - 1 PROVE NodeDone(E!ColumnOf(n), n)
  <2>1. n \in DOMAIN nodes /\ n < next
    BY <1>1, NodeFacts
  <2>2. E!NodesEvaluated
    BY DEF E!IInv
  <2>3. QED BY <2>1, <2>2 DEF E!NodesEvaluated, NodeDone
<1>5. ~ E!IsLeaf(e) => E!Node.left \in 1 .. next - 1 /\ nodes[E!Node.left].expression = e.left
  BY <1>2 DEF Links
<1>6. E!IsBinary(e) => E!Node.right \in 1 .. next - 1 /\ nodes[E!Node.right].expression = e.right
  BY <1>2 DEF Links
<1>7. QED BY <1>1, <1>2, <1>3, <1>4, <1>5, <1>6 DEF E!Left, E!Right

\* A node whose column has its values leaves the invariant as it is.
LEMMA Kept ==
  ASSUME EvaluatorGiven, E!IInv, E!InCall, E!Step, NEW c, buffers' = [buffers EXCEPT ![next] = c],
         E!ColumnFits(c, E!TypeOf(E!Node.expression), Len(c.data)),
         E!Kind # "column" => Len(c.data) = batch.size /\ NodeDone(c, next),
         E!Kind = "column" => NodeDone(E!ColumnOf(next), next)
  PROVE  E!IInv'
<1>1. nodes' = nodes /\ batch' = batch /\ thrown' = thrown /\ next' = next + 1
  BY DEF E!Step
<1>2. next \in 1 .. Len(nodes) /\ next # 0 /\ Len(nodes) \in Nat /\ DOMAIN nodes = 1 .. Len(nodes)
  BY CurrentFacts, NodeFacts
<1>3. \A n \in DOMAIN nodes : n < next + 1 => n < next \/ n = next
  BY <1>2
<1>4. buffers = [n \in DOMAIN nodes |-> buffers[n]]
  BY DEF E!IInv, E!Compiled
<1>5. /\ buffers' = [n \in DOMAIN nodes |-> buffers'[n]]
      /\ buffers'[next] = c
      /\ \A n \in DOMAIN nodes : n # next => buffers'[n] = buffers[n]
  BY <1>2, <1>4
<1>6. \A n \in DOMAIN nodes : n # next => E!ColumnOf(n)' = E!ColumnOf(n)
  BY <1>1, <1>5 DEF E!ColumnOf
<1>7. \A n \in DOMAIN nodes : ~ (n # next) =>
        E!ColumnOf(n)' = IF E!Kind = "column" THEN E!ColumnOf(n) ELSE c
  BY <1>1, <1>5 DEF E!ColumnOf, E!Kind, E!Node
<1>8. \A i : E!RowAt(i)' = E!RowAt(i)
  BY <1>1 DEF E!RowAt
<1>9. E!TypeOK'
  <2>1. next' \in 0 .. Len(nodes') + 1 /\ thrown' \in BOOLEAN
    BY <1>1, <1>2 DEF E!IInv, E!TypeOK
  <2>2. ASSUME NEW n \in DOMAIN nodes
        PROVE  LET size == Len(buffers'[n].data)
               IN  /\ E!ColumnFits(buffers'[n], E!TypeOf(nodes[n].expression), size)
                   /\ n < next + 1 /\ nodes[n].expression.kind # "column" => size = batch.size
    <3>1. CASE n = next
      BY <1>5, <3>1 DEF E!Kind, E!Node
    <3>2. CASE n # next
      <4>1. LET size == Len(buffers[n].data)
            IN  /\ E!ColumnFits(buffers[n], E!TypeOf(nodes[n].expression), size)
                /\ n < next /\ nodes[n].expression.kind # "column" => size = batch.size
        BY DEF E!IInv, E!TypeOK
      <4>2. n < next + 1 => n < next
        BY <1>3, <3>2
      <4>3. QED BY <1>5, <3>2, <4>1, <4>2
    <3>3. QED BY <3>1, <3>2
  <2>3. QED BY <1>1, <2>1, <2>2 DEF E!TypeOK
<1>10. E!Compiled'
  BY <1>1, <1>5 DEF E!IInv, E!Compiled
<1>11. E!BatchGiven'
  <2>1. E!ColumnsRead' = E!ColumnsRead
    BY <1>1 DEF E!ColumnsRead
  <2>2. QED BY <1>1, <1>2, <2>1 DEF E!IInv, E!BatchGiven
<1>12. E!NodesEvaluated'
  <2>1. ASSUME NEW n \in DOMAIN nodes, n < next + 1
        PROVE  NodeDone(E!ColumnOf(n)', n)
    <3>1. CASE n = next
      <4>1. /\ E!Kind = "column" => NodeDone(E!ColumnOf(n), n)
            /\ E!Kind # "column" => NodeDone(c, n)
        BY <3>1
      <4>2. E!ColumnOf(n)' = IF E!Kind = "column" THEN E!ColumnOf(n) ELSE c
        <5>1. ~ (n # next)
          BY <3>1
        <5> HIDE <3>1
        <5>2. QED BY <1>7, <5>1
      <4>3. QED BY <4>1, <4>2
    <3>2. CASE n # next
      <4>1. n < next
        BY <1>3, <2>1, <3>2
      <4>2. E!NodesEvaluated
        BY DEF E!IInv
      <4>3. NodeDone(E!ColumnOf(n), n)
        BY <4>1, <4>2 DEF E!NodesEvaluated, NodeDone
      <4>4. QED BY <1>6, <3>2, <4>3
    <3>3. QED BY <3>1, <3>2
  <2>2. ASSUME NEW n \in DOMAIN nodes, n < next + 1
        PROVE  /\ E!ColumnFits(E!ColumnOf(n)', E!TypeOf(nodes[n].expression), batch.size)
               /\ \A i \in E!Range(batch.rows) :
                    E!ValueAt(E!ColumnOf(n)', i) = E!Evaluate(nodes[n].expression, E!RowAt(i))
               /\ nodes[n].expression.kind = "literal" /\ nodes[n].expression.value = Null
                    => \A i \in 1 .. batch.size : ~ E!ColumnOf(n)'.valid[i]
    BY <2>1, <2>2 DEF NodeDone
  <2>3. QED BY <1>1, <1>8, <2>2 DEF E!NodesEvaluated
<1>13. E!ThrowsOnlyWithoutRows'
  BY <1>1 DEF E!IInv, E!ThrowsOnlyWithoutRows
<1>14. QED BY <1>9, <1>10, <1>11, <1>12, <1>13 DEF E!IInv

\* So does one that writes the cells of the selected rows, at least.
LEMMA WrittenKept ==
  ASSUME EvaluatorGiven, E!IInv, E!InCall, ~ E!IsLeaf(E!Node.expression), NEW cells,
         E!SelectedRows \subseteq DOMAIN cells, DOMAIN cells \subseteq 1 .. batch.size,
         \A i \in DOMAIN cells : /\ E!Fits(cells[i].data, E!TypeOf(E!Node.expression))
                                /\ cells[i].valid \in BOOLEAN,
         \A i \in E!SelectedRows : (IF cells[i].valid THEN cells[i].data ELSE Null)
                                    = E!Evaluate(E!Node.expression, E!RowAt(i)),
         NEW c, Written(c, E!TypeOf(E!Node.expression), batch.size, cells), E!Fill(c)
  PROVE  E!IInv'
<1> DEFINE t == E!TypeOf(E!Node.expression)
<1>1. next # 0 /\ t \in E!ValueTypes /\ batch.size \in Nat
  BY CurrentFacts, BatchFacts
<1>2. E!Kind # "column" /\ E!Kind # "literal" /\ E!Node = nodes[next]
  BY DEF E!IsLeaf, E!Kind, E!Node
<1> HIDE DEF t
<1>3. /\ E!ColumnFits(c, t, batch.size) /\ Len(c.data) = batch.size
      /\ \A i \in DOMAIN cells : E!ValueAt(c, i) = IF cells[i].valid THEN cells[i].data ELSE Null
  BY <1>1, WrittenFacts DEF t
<1>4. \A i \in E!Range(batch.rows) : E!ValueAt(c, i) = E!Evaluate(E!Node.expression, E!RowAt(i))
  BY <1>3 DEF E!SelectedRows
<1>5. NodeDone(c, next)
  BY <1>2, <1>3, <1>4 DEF NodeDone, t, E!Kind
<1>6. buffers' = [buffers EXCEPT ![next] = c] /\ E!Step
  BY DEF E!Fill
<1>7. E!ColumnFits(c, E!TypeOf(E!Node.expression), Len(c.data))
  BY <1>3 DEF t
<1>8. QED BY <1>2, <1>3, <1>5, <1>6, <1>7, Kept

\* What reset() leaves of the current node's buffer.
LEMMA OutFacts ==
  ASSUME EvaluatorGiven, E!IInv, E!InCall
  PROVE  LET t == E!TypeOf(E!Node.expression)
             n == batch.size
         IN  /\ E!Out = [type |-> t, data |-> [i \in 1 .. n |-> E!Zero(t)], valid |-> [i \in 1 .. n |-> TRUE]]
             /\ E!ColumnFits(E!Out, t, n) /\ Len(E!Out.data) = n
<1> DEFINE t == E!TypeOf(E!Node.expression)
           n == batch.size
<1>1. t \in E!ValueTypes /\ n \in Nat /\ buffers[next].type = t
  BY CurrentFacts, BatchFacts
<1> HIDE DEF t, n
<1>2. QED BY <1>1, ResetFacts DEF E!Out, t, n

\* The loops over the selection.
LEMMA SelectedKept ==
  ASSUME EvaluatorGiven, E!IInv, E!InCall, ~ E!IsLeaf(E!Node.expression), NEW cells,
         DOMAIN cells = E!SelectedRows,
         \A i \in E!SelectedRows : /\ E!Fits(cells[i].data, E!TypeOf(E!Node.expression))
                                  /\ cells[i].valid \in BOOLEAN
                                  /\ (IF cells[i].valid THEN cells[i].data ELSE Null)
                                       = E!Evaluate(E!Node.expression, E!RowAt(i)),
         E!FillSelected(cells)
  PROVE  E!IInv'
<1> DEFINE t == E!TypeOf(E!Node.expression)
           n == batch.size
<1>1. E!Out = [type |-> t, data |-> [i \in 1 .. n |-> E!Zero(t)], valid |-> [i \in 1 .. n |-> TRUE]]
  BY OutFacts
<1> DEFINE data == E!Overlay([i \in 1 .. n |-> E!Zero(t)], [i \in DOMAIN cells |-> cells[i].data])
           valid == E!Overlay([i \in 1 .. n |-> TRUE], [i \in DOMAIN cells |-> cells[i].valid])
           c == [E!Out EXCEPT !.data = data, !.valid = valid]
<1>2. E!Fill(c)
  <2>1. E!Out.data = [i \in 1 .. n |-> E!Zero(t)] /\ E!Out.valid = [i \in 1 .. n |-> TRUE]
    BY <1>1
  <2>2. QED BY <2>1 DEF E!FillSelected
<1>3. Written(c, t, n, cells)
  <2>1. c.type = t /\ c.data = data /\ c.valid = valid
    <3> HIDE DEF data, valid
    <3>1. QED BY <1>1
  <2>2. QED BY <2>1 DEF Written
<1>4. E!SelectedRows \subseteq 1 .. n
  BY CurrentFacts, BatchFacts DEF E!SelectedRows
<1> HIDE DEF c
<1>5. QED BY <1>2, <1>3, <1>4, WrittenKept

\* The kernels, which write payloads only.
LEMMA KernelKept ==
  ASSUME EvaluatorGiven, E!IInv, E!InCall, ~ E!IsLeaf(E!Node.expression), NEW new,
         DOMAIN new = E!SelectedRows,
         \A i \in E!SelectedRows : /\ E!Fits(new[i], E!TypeOf(E!Node.expression))
                                  /\ new[i] = E!Evaluate(E!Node.expression, E!RowAt(i)),
         E!Fill([E!Out EXCEPT !.data = E!Overlay(@, new)])
  PROVE  E!IInv'
<1> DEFINE t == E!TypeOf(E!Node.expression)
           n == batch.size
           zeroes == [i \in 1 .. n |-> E!Zero(t)]
           flags == [i \in 1 .. n |-> TRUE]
           cells == [i \in DOMAIN new |-> [valid |-> TRUE, data |-> new[i]]]
           newData == [i \in DOMAIN cells |-> cells[i].data]
           newValid == [i \in DOMAIN cells |-> cells[i].valid]
<1>1. E!Out = [type |-> t, data |-> zeroes, valid |-> flags]
  BY OutFacts
<1>2. E!SelectedRows \subseteq 1 .. n
  BY CurrentFacts, BatchFacts DEF E!SelectedRows
<1>3. /\ DOMAIN cells = DOMAIN new
      /\ \A i \in DOMAIN new : cells[i].valid = TRUE /\ cells[i].data = new[i]
  OBVIOUS
<1> HIDE DEF cells
<1>4. E!Overlay(zeroes, newData) = E!Overlay(zeroes, new)
  BY <1>3 DEF E!Overlay
<1>5. E!Overlay(flags, newValid) = flags
  BY <1>3 DEF E!Overlay
<1> DEFINE data == E!Overlay(zeroes, new)
           c == [E!Out EXCEPT !.data = data]
<1>6. E!Fill(c)
  <2>1. E!Out.data = zeroes
    BY <1>1
  <2>2. QED BY <2>1
<1>7. Written(c, t, n, cells)
  <2>1. c.type = t /\ c.data = data /\ c.valid = flags
    <3> HIDE DEF data, flags, zeroes
    <3>1. QED BY <1>1
  <2>2. QED BY <1>4, <1>5, <2>1 DEF Written
<1> HIDE DEF c
<1>8. QED BY <1>2, <1>3, <1>6, <1>7, WrittenKept

\* The cell of an operand on a selected row, and the operand's value there.
CellIs(column, i, t, value) ==
  /\ column.valid[i] \in BOOLEAN /\ E!Fits(column.data[i], t)
  /\ value = IF column.valid[i] THEN column.data[i] ELSE Null

\* While a node is evaluated, its operands have their values in the selected rows.
LEMMA OperandCells ==
  ASSUME EvaluatorGiven, E!IInv, E!InCall, NEW i \in E!SelectedRows
  PROVE  LET e == E!Node.expression
         IN  /\ i \in 1 .. batch.size
             /\ ~ E!IsLeaf(e) => CellIs(E!Left, i, E!TypeOf(e.left), E!Evaluate(e.left, E!RowAt(i)))
             /\ E!IsBinary(e) => CellIs(E!Right, i, E!TypeOf(e.right), E!Evaluate(e.right, E!RowAt(i)))
             /\ E!Evaluate(e, E!RowAt(i)) = E!NodeValue(e, E!RowAt(i), E!Evaluate(e.left, E!RowAt(i)),
                                                                      E!Evaluate(e.right, E!RowAt(i)))
<1>1. i \in E!Range(batch.rows) /\ i \in 1 .. batch.size
  BY CurrentFacts, BatchFacts DEF E!SelectedRows
<1>2. ASSUME NEW column, NEW n, NodeDone(column, n)
      PROVE  CellIs(column, i, E!TypeOf(nodes[n].expression), E!Evaluate(nodes[n].expression, E!RowAt(i)))
  BY <1>1, <1>2 DEF NodeDone, E!ColumnFits, E!ValueAt, CellIs
<1>3. QED BY <1>1, <1>2, CurrentFacts, EvaluateEquation

\* A column: the batch's own.
LEMMA ColumnKept == ASSUME EvaluatorGiven, E!IInv, E!ColumnNode PROVE E!IInv'
<1> DEFINE e == E!Node.expression
           c == batch.columns[e.column]
<1>1. E!InCall /\ e.kind = "column" /\ E!Step /\ buffers' = buffers
  BY DEF E!ColumnNode, E!Kind
<1>2. /\ next \in DOMAIN nodes /\ e \in E!Trees /\ E!Node = nodes[next] /\ E!BatchFits(batch)
      /\ DOMAIN batch.columns = E!ColumnsRead /\ E!TypeOf(e) \in E!ValueTypes
      /\ E!Range(batch.rows) \subseteq 1 .. batch.size
  BY <1>1, CurrentFacts, BatchFacts DEF E!InCall, E!Node
<1>3. e.column \in DOMAIN batch.columns
  BY <1>1, <1>2 DEF E!ColumnsRead
<1>4. E!ColumnOf(next) = c
  BY <1>1, <1>2 DEF E!ColumnOf
<1>5. E!TypeOf(e) = Types[e.column]
  BY <1>1, <1>2, OperandTypes, SpecialFacts DEF E!ValueTypes
<1>6. E!ColumnFits(c, E!TypeOf(e), batch.size)
  BY <1>2, <1>3, <1>5 DEF E!BatchFits
<1>7. ASSUME NEW i \in E!Range(batch.rows) PROVE E!ValueAt(c, i) = E!Evaluate(e, E!RowAt(i))
  <2>1. E!RowAt(i)[e.column] = E!ValueAt(c, i)
    BY <1>3 DEF E!RowAt
  <2>2. E!Evaluate(e, E!RowAt(i)) = E!RowAt(i)[e.column]
    BY <1>1, <1>2, EvaluateEquation, ValueCases
  <2>3. QED BY <2>1, <2>2
<1>8. NodeDone(E!ColumnOf(next), next)
  BY <1>1, <1>2, <1>4, <1>6, <1>7 DEF NodeDone
<1>9. buffers' = [buffers EXCEPT ![next] = buffers[next]]
  <2>1. buffers = [n \in DOMAIN nodes |-> buffers[n]]
    BY DEF E!IInv, E!Compiled
  <2>2. QED BY <1>1, <2>1
<1>10. E!ColumnFits(buffers[next], E!TypeOf(e), Len(buffers[next].data))
  BY <1>2 DEF E!IInv, E!TypeOK
<1>11. QED BY <1>1, <1>8, <1>9, <1>10, Kept DEF E!Kind

\* A literal, the same on every row.
LEMMA LiteralKept == ASSUME EvaluatorGiven, E!IInv, E!LiteralNode PROVE E!IInv'
<1> DEFINE e == E!Node.expression
           v == e.value
           t == E!TypeOf(e)
           n == batch.size
           data == [i \in DOMAIN E!Out.data |-> IF v = Null THEN E!Zero(E!Out.type) ELSE v]
           valid == [i \in DOMAIN E!Out.valid |-> v # Null]
           c == [E!Out EXCEPT !.data = data, !.valid = valid]
<1>1. E!InCall /\ e.kind = "literal" /\ E!Fill(c)
  BY DEF E!LiteralNode, E!Kind
<1>2. /\ next \in DOMAIN nodes /\ e \in E!Trees /\ E!Node = nodes[next]
      /\ t \in E!ValueTypes /\ n \in Nat /\ E!Range(batch.rows) \subseteq 1 .. n
  BY <1>1, CurrentFacts, BatchFacts DEF E!InCall, E!Node
<1>3. E!Out = [type |-> t, data |-> [i \in 1 .. n |-> E!Zero(t)], valid |-> [i \in 1 .. n |-> TRUE]]
  BY <1>1, OutFacts
<1>4. t = e.type /\ (v = Null \/ E!Fits(v, e.type))
  BY <1>1, <1>2, TreeFacts, OperandTypes, SpecialFacts DEF E!TreeTyped, E!ValueTypes
<1>5. c.type = t /\ c.data = data /\ c.valid = valid
  <2> HIDE DEF data, valid
  <2>1. QED BY <1>3
<1>6. DOMAIN E!Out.data = 1 .. n /\ DOMAIN E!Out.valid = 1 .. n /\ E!Out.type = t
  BY <1>3
<1>7. /\ data = [i \in 1 .. n |-> IF v = Null THEN E!Zero(t) ELSE v]
      /\ valid = [i \in 1 .. n |-> v # Null]
  BY <1>6
<1> HIDE DEF data, valid, c, t, n
<1>8. /\ data = [i \in 1 .. n |-> data[i]] /\ valid = [i \in 1 .. n |-> valid[i]]
      /\ \A i \in 1 .. n : data[i] = (IF v = Null THEN E!Zero(t) ELSE v) /\ valid[i] = (v # Null)
  BY <1>7
<1>9. \A i \in 1 .. n : E!Fits(data[i], t) /\ valid[i] \in BOOLEAN
  BY <1>2, <1>4, <1>8, ZeroFits
<1>10. E!ColumnFits(c, t, n) /\ Len(c.data) = n
  BY <1>2, <1>5, <1>8, <1>9, ColumnBuilt
<1>11. ASSUME NEW i \in E!Range(batch.rows) PROVE E!ValueAt(c, i) = E!Evaluate(e, E!RowAt(i))
  <2>1. E!Evaluate(e, E!RowAt(i)) = v
    BY <1>1, <1>2, EvaluateEquation, ValueCases
  <2>2. i \in 1 .. n
    BY <1>2
  <2>3. valid[i] = (v # Null) /\ (v # Null => data[i] = v)
    BY <1>8, <2>2
  <2>4. QED BY <1>5, <2>1, <2>3 DEF E!ValueAt
<1>12. v = Null => \A i \in 1 .. n : ~ c.valid[i]
  BY <1>5, <1>8
<1>13. NodeDone(c, next)
  BY <1>2, <1>10, <1>11, <1>12 DEF NodeDone, t, n
<1>14. buffers' = [buffers EXCEPT ![next] = c] /\ E!Step /\ E!Kind # "column"
  BY <1>1 DEF E!Fill, E!Kind
<1>15. E!ColumnFits(c, E!TypeOf(e), Len(c.data)) /\ Len(c.data) = batch.size
  BY <1>10 DEF t, n
<1>16. QED BY <1>1, <1>13, <1>14, <1>15, Kept

\* IS NULL and NOT.
LEMMA UnaryKept == ASSUME EvaluatorGiven, E!IInv, E!UnaryNode PROVE E!IInv'
<1> DEFINE e == E!Node.expression
           cells == [i \in E!SelectedRows |-> E!Unary1(i)]
<1>1. E!InCall /\ e.kind \in {"isnull", "not"} /\ E!FillSelected(cells) /\ E!Kind = e.kind
  BY DEF E!UnaryNode, E!Kind
<1>2. e \in E!Trees /\ E!TypeOf(e) \in E!ValueTypes /\ ~ E!IsLeaf(e)
  BY <1>1, CurrentFacts DEF E!IsLeaf
<1>3. E!TypeOf(e) = "Boolean" /\ (e.kind = "not" => E!TypeOf(e.left) = "Boolean")
  BY <1>1, <1>2, OperandTypes DEF E!ValueTypes
<1>4. DOMAIN cells = E!SelectedRows
  OBVIOUS
<1>5. ASSUME NEW i \in E!SelectedRows
      PROVE  /\ E!Fits(cells[i].data, E!TypeOf(e)) /\ cells[i].valid \in BOOLEAN
             /\ (IF cells[i].valid THEN cells[i].data ELSE Null) = E!Evaluate(e, E!RowAt(i))
  <2> DEFINE x == E!Evaluate(e.left, E!RowAt(i))
             flag == E!Left.valid[i]
             payload == E!Left.data[i]
  <2>1. /\ CellIs(E!Left, i, E!TypeOf(e.left), x)
        /\ E!Evaluate(e, E!RowAt(i)) = E!NodeValue(e, E!RowAt(i), x, E!Evaluate(e.right, E!RowAt(i)))
    BY <1>1, <1>2, OperandCells
  <2>2. flag \in BOOLEAN /\ E!Fits(payload, E!TypeOf(e.left)) /\ x = IF flag THEN payload ELSE Null
    BY <2>1 DEF CellIs
  <2> HIDE DEF x
  <2>3. CASE e.kind = "isnull"
    <3>1. x = Null <=> ~ flag
      <4>1. E!TypeOf(e.left) \in E!ValueTypes
        BY <1>2, <1>3, <2>3, OperandTypes, TreeFacts, TypeFacts DEF AllTypes, E!ValueTypes,
           E!Connectives,
           E!Comparisons, E!Arithmetic, E!Int64Arithmetic, E!DoubleArithmetic
      <4>2. flag => payload # Null
        BY <2>2, <4>1, FitsFacts
      <4>3. QED BY <2>2, <4>2
    <3>2. E!Evaluate(e, E!RowAt(i)) = (x = Null)
      BY <2>1, <2>3, ValueCases
    <3>3. cells[i].valid = TRUE /\ cells[i].data = ~ flag
      BY <1>1, <2>3 DEF E!Unary1
    <3>4. E!Fits(~ flag, "Boolean")
      BY FitsFacts
    <3>5. QED BY <1>3, <3>1, <3>2, <3>3, <3>4
  <2>4. CASE e.kind = "not"
    <3>1. payload \in BOOLEAN
      BY <1>3, <2>2, <2>4, FitsFacts
    <3>2. E!Evaluate(e, E!RowAt(i)) = IF x = Null THEN Null ELSE ~ x
      BY <2>1, <2>4, ValueCases
    <3>3. cells[i].valid = flag /\ cells[i].data = ~ payload
      BY <1>1, <2>4 DEF E!Unary1
    <3>4. E!Fits(~ payload, "Boolean") /\ payload # Null
      BY <3>1, FitsFacts, SpecialFacts
    <3>5. (IF flag THEN ~ payload ELSE Null) = IF x = Null THEN Null ELSE ~ x
      BY <2>2, <3>4
    <3>6. QED BY <1>3, <2>2, <3>2, <3>3, <3>4, <3>5
  <2>5. QED BY <1>1, <2>3, <2>4
<1> HIDE DEF cells
<1>6. QED BY <1>1, <1>2, <1>4, <1>5, SelectedKept

\* The operands of a node with two.
LEMMA BinaryCells ==
  ASSUME EvaluatorGiven, E!IInv, E!InCall, E!IsBinary(E!Node.expression), NEW i \in E!SelectedRows
  PROVE  LET e == E!Node.expression
             x == E!Evaluate(e.left, E!RowAt(i))
             y == E!Evaluate(e.right, E!RowAt(i))
         IN  /\ CellIs(E!Left, i, E!TypeOf(e.left), x) /\ CellIs(E!Right, i, E!TypeOf(e.right), y)
             /\ E!Evaluate(e, E!RowAt(i)) = E!NodeValue(e, E!RowAt(i), x, y)
<1>1. E!Node.expression \in E!Trees /\ ~ E!IsLeaf(E!Node.expression)
  BY CurrentFacts, TreeFacts
<1>2. QED BY <1>1, OperandCells

\* AND and OR.
LEMMA ConnectiveKept == ASSUME EvaluatorGiven, E!IInv, E!ConnectiveNode PROVE E!IInv'
<1> DEFINE e == E!Node.expression
           k == e.kind
           cells == [i \in E!SelectedRows |-> E!Connected(i)]
<1>1. E!InCall /\ k \in E!Connectives /\ E!FillSelected(cells) /\ E!Kind = k
  BY DEF E!ConnectiveNode, E!Kind
<1>2. e \in E!Trees /\ E!TypeOf(e) \in E!ValueTypes /\ ~ E!IsLeaf(e) /\ E!IsBinary(e)
  BY <1>1, CurrentFacts DEF E!IsLeaf, E!IsBinary, E!Connectives
<1>3. E!TypeOf(e) = "Boolean" /\ E!TypeOf(e.left) = "Boolean" /\ E!TypeOf(e.right) = "Boolean"
  BY <1>1, <1>2, OperandTypes DEF E!ValueTypes
<1>4. DOMAIN cells = E!SelectedRows
  OBVIOUS
<1>5. ASSUME NEW i \in E!SelectedRows
      PROVE  /\ E!Fits(cells[i].data, E!TypeOf(e)) /\ cells[i].valid \in BOOLEAN
             /\ (IF cells[i].valid THEN cells[i].data ELSE Null) = E!Evaluate(e, E!RowAt(i))
  <2> DEFINE x == E!Left.data[i]
             y == E!Right.data[i]
             xValid == E!Left.valid[i]
             yValid == E!Right.valid[i]
             a == IF xValid THEN x ELSE Null
             b == IF yValid THEN y ELSE Null
             valid == E!ConnectedValid(k = "and", x, y, xValid, yValid)
             data == IF k = "and" THEN x /\ y ELSE x \/ y
  <2>1. /\ CellIs(E!Left, i, E!TypeOf(e.left), E!Evaluate(e.left, E!RowAt(i)))
        /\ CellIs(E!Right, i, E!TypeOf(e.right), E!Evaluate(e.right, E!RowAt(i)))
        /\ E!Evaluate(e, E!RowAt(i)) = E!NodeValue(e, E!RowAt(i), E!Evaluate(e.left, E!RowAt(i)),
                                                                 E!Evaluate(e.right, E!RowAt(i)))
    BY <1>1, <1>2, BinaryCells
  <2>2. /\ x \in BOOLEAN /\ y \in BOOLEAN /\ xValid \in BOOLEAN /\ yValid \in BOOLEAN
        /\ E!Evaluate(e.left, E!RowAt(i)) = a /\ E!Evaluate(e.right, E!RowAt(i)) = b
    BY <1>3, <2>1, FitsFacts DEF CellIs
  <2>3. E!Evaluate(e, E!RowAt(i)) = E!Connect(k, a, b)
    BY <1>1, <2>1, <2>2, ValueCases
  <2>4. cells[i] = [data |-> data, valid |-> valid]
    BY <1>1 DEF E!Connected
  <2>5. /\ valid \in BOOLEAN /\ data \in BOOLEAN
        /\ (IF valid THEN data ELSE Null) = E!Connect(k, a, b)
    <3> HIDE DEF x, y, xValid, yValid, k
    <3>1. /\ k \in E!Connectives /\ x \in BOOLEAN /\ y \in BOOLEAN
          /\ xValid \in BOOLEAN /\ yValid \in BOOLEAN
      BY <1>1, <2>2
    <3>2. QED BY <3>1, ConnectedRight
  <2> HIDE DEF valid, data
  <2>6. cells[i].valid = valid /\ cells[i].data = data
    BY <2>4
  <2>7. E!Fits(data, "Boolean")
    BY <2>5, FitsFacts
  <2> HIDE DEF a, b, cells
  <2>8. QED BY <1>3, <2>3, <2>5, <2>6, <2>7
<1> HIDE DEF cells
<1>6. QED BY <1>1, <1>2, <1>4, <1>5, SelectedKept

\* Comparisons, one row at a time.
LEMMA ComparisonKept == ASSUME EvaluatorGiven, E!IInv, E!ComparisonNode PROVE E!IInv'
<1> DEFINE e == E!Node.expression
           k == e.kind
           t == E!TypeOf(e.left)
           cells == [i \in E!SelectedRows |-> E!Compared(i)]
<1>1. E!InCall /\ k \in E!Comparisons /\ E!FillSelected(cells) /\ E!Kind = k
  BY DEF E!ComparisonNode, E!Kind
<1>2. e \in E!Trees /\ E!TypeOf(e) \in E!ValueTypes /\ ~ E!IsLeaf(e) /\ E!IsBinary(e)
  BY <1>1, CurrentFacts DEF E!IsLeaf, E!IsBinary, E!Comparisons
<1>3. E!TypeOf(e) = "Boolean" /\ t \in E!ValueTypes /\ E!TypeOf(e.right) = t
  BY <1>1, <1>2, OperandTypes, SpecialFacts DEF E!ValueTypes
<1>4. k \notin {"=", "#"} => t # "Boolean"
  BY <1>1, <1>2, TreeFacts DEF E!TreeTyped
<1>5. DOMAIN cells = E!SelectedRows
  OBVIOUS
<1>6. ASSUME NEW i \in E!SelectedRows
      PROVE  /\ E!Fits(cells[i].data, E!TypeOf(e)) /\ cells[i].valid \in BOOLEAN
             /\ (IF cells[i].valid THEN cells[i].data ELSE Null) = E!Evaluate(e, E!RowAt(i))
  <2> DEFINE x == E!Left.data[i]
             y == E!Right.data[i]
             a == E!Evaluate(e.left, E!RowAt(i))
             b == E!Evaluate(e.right, E!RowAt(i))
             valid == E!Left.valid[i] /\ E!Right.valid[i]
             data == valid /\ E!Compare(k, x, y)
  <2>1. /\ CellIs(E!Left, i, t, a) /\ CellIs(E!Right, i, t, b)
        /\ E!Evaluate(e, E!RowAt(i)) = E!NodeValue(e, E!RowAt(i), a, b)
    BY <1>1, <1>2, <1>3, BinaryCells
  <2>2. /\ E!Fits(x, t) /\ E!Fits(y, t) /\ E!Left.valid[i] \in BOOLEAN /\ E!Right.valid[i] \in BOOLEAN
        /\ a = (IF E!Left.valid[i] THEN x ELSE Null) /\ b = (IF E!Right.valid[i] THEN y ELSE Null)
    BY <2>1 DEF CellIs
  <2>3. E!Evaluate(e, E!RowAt(i)) = IF a = Null \/ b = Null THEN Null ELSE E!Compare(k, a, b)
    BY <1>1, <2>1, ValueCases
  <2>4. x # Null /\ y # Null
    BY <1>3, <2>2, FitsFacts
  <2> HIDE DEF a, b
  <2>5. E!Evaluate(e, E!RowAt(i)) = IF valid THEN E!Compare(k, x, y) ELSE Null
    BY <2>2, <2>3, <2>4
  <2>6. E!Compare(k, x, y) \in BOOLEAN
    <3> HIDE DEF x, y, k, t
    <3>1. k \in E!Comparisons /\ t \in E!ValueTypes /\ E!Fits(x, t) /\ E!Fits(y, t)
          /\ (k \notin {"=", "#"} => t # "Boolean")
      BY <1>1, <1>3, <1>4, <2>2
    <3>2. QED BY <3>1, ComparisonTyped
  <2>7. cells[i] = [valid |-> valid, data |-> data]
    BY <1>1 DEF E!Compared
  <2>8. valid \in BOOLEAN /\ data \in BOOLEAN /\ (valid => data = E!Compare(k, x, y))
    BY <2>6
  <2> HIDE DEF valid, data
  <2>9. cells[i].valid = valid /\ cells[i].data = data
    BY <2>7
  <2>10. E!Fits(data, "Boolean")
    BY <2>8, FitsFacts
  <2> HIDE DEF x, y, cells
  <2>11. QED BY <1>3, <2>5, <2>8, <2>9, <2>10
<1> HIDE DEF cells
<1>7. QED BY <1>1, <1>2, <1>5, <1>6, SelectedKept

\* Arithmetic, one row at a time.
LEMMA ArithmeticKept == ASSUME EvaluatorGiven, E!IInv, E!ArithmeticNode PROVE E!IInv'
<1> DEFINE e == E!Node.expression
           k == e.kind
           t == E!TypeOf(e)
           cells == [i \in E!SelectedRows |-> E!Computed(i)]
<1>1. E!InCall /\ k \in E!Arithmetic /\ E!FillSelected(cells) /\ E!Kind = k
  BY DEF E!ArithmeticNode, E!Kind
<1>2. e \in E!Trees /\ E!TypeOf(e) \in E!ValueTypes /\ ~ E!IsLeaf(e) /\ E!IsBinary(e)
  BY <1>1, CurrentFacts DEF E!IsLeaf, E!IsBinary, E!Arithmetic, E!Int64Arithmetic, E!DoubleArithmetic
<1>3. /\ E!TypeOf(e.left) = t /\ E!TypeOf(e.right) = t /\ t \in E!ValueTypes
      /\ \/ t = "Int64" /\ k \in E!Int64Arithmetic
         \/ t = "Double" /\ k \in E!DoubleArithmetic
  <2>1. E!TypeOf(e) # "Invalid"
    BY <1>2 DEF E!ValueTypes
  <2>2. QED BY <1>1, <1>2, <2>1, OperandTypes DEF E!Arithmetic
<1>4. DOMAIN cells = E!SelectedRows
  OBVIOUS
<1>5. E!Left.type = t
  BY <1>1, <1>2, <1>3, CurrentFacts DEF NodeDone, E!ColumnFits
<1>6. E!Fits(0, t)
  <2>1. 0 \in E!Int64 /\ 0 \in Int
    BY SpecialFacts DEF E!Int64
  <2>2. QED BY <1>3, <2>1, FitsFacts
<1>7. ASSUME NEW i \in E!SelectedRows
      PROVE  /\ E!Fits(cells[i].data, E!TypeOf(e)) /\ cells[i].valid \in BOOLEAN
             /\ (IF cells[i].valid THEN cells[i].data ELSE Null) = E!Evaluate(e, E!RowAt(i))
  <2> DEFINE x == E!Left.data[i]
             y == E!Right.data[i]
             a == E!Evaluate(e.left, E!RowAt(i))
             b == E!Evaluate(e.right, E!RowAt(i))
             both == E!Left.valid[i] /\ E!Right.valid[i]
             r == IF t = "Int64" THEN E!Int64Result(k, x, y) ELSE E!DoubleResult(k, x, y)
  <2>1. /\ CellIs(E!Left, i, t, a) /\ CellIs(E!Right, i, t, b)
        /\ E!Evaluate(e, E!RowAt(i)) = E!NodeValue(e, E!RowAt(i), a, b)
    BY <1>1, <1>2, <1>3, BinaryCells
  <2>2. /\ E!Fits(x, t) /\ E!Fits(y, t) /\ E!Left.valid[i] \in BOOLEAN /\ E!Right.valid[i] \in BOOLEAN
        /\ a = (IF E!Left.valid[i] THEN x ELSE Null) /\ b = (IF E!Right.valid[i] THEN y ELSE Null)
    BY <2>1 DEF CellIs
  <2>3. E!Evaluate(e, E!RowAt(i)) = IF a = Null \/ b = Null THEN Null ELSE E!Compute(k, a, b)
    BY <1>1, <2>1, ValueCases
  <2>4. x # Null /\ y # Null
    BY <1>3, <2>2, FitsFacts
  <2> HIDE DEF a, b
  <2>5. E!Evaluate(e, E!RowAt(i)) = IF both THEN E!Compute(k, x, y) ELSE Null
    BY <2>2, <2>3, <2>4
  <2>6. both => cells[i] = r
    BY <1>1, <1>5 DEF E!Computed
  <2>7. ~ both => cells[i].valid = FALSE /\ cells[i].data = 0
    BY <1>1 DEF E!Computed
  <2>8. /\ r.valid \in BOOLEAN /\ E!Fits(r.data, t)
        /\ (IF r.valid THEN r.data ELSE Null) = E!Compute(k, x, y)
    <3> HIDE DEF x, y, k, t
    <3>1. CASE t = "Int64" /\ k \in E!Int64Arithmetic
      <4>1. x \in E!Int64 /\ y \in E!Int64
        BY <2>2, <3>1, FitsFacts
      <4> DEFINE s == E!Int64Result(k, x, y)
      <4>2. /\ s.valid \in BOOLEAN /\ s.data \in E!Int64
            /\ (IF s.valid THEN s.data ELSE Null) = E!Compute(k, x, y)
        BY <3>1, <4>1, Int64ResultRight
      <4>3. r = s
        BY <3>1
      <4> HIDE DEF s, r
      <4>4. QED BY <3>1, <4>2, <4>3, FitsFacts
    <3>2. CASE t = "Double" /\ k \in E!DoubleArithmetic
      <4> DEFINE s == E!DoubleResult(k, x, y)
      <4>1. E!Fits(x, "Double") /\ E!Fits(y, "Double")
        BY <2>2, <3>2
      <4>2. /\ s.valid \in BOOLEAN /\ E!Fits(s.data, "Double")
            /\ (IF s.valid THEN s.data ELSE Null) = E!Compute(k, x, y)
        BY <3>2, <4>1, DoubleResultRight
      <4>3. r = s
        BY <3>2
      <4> HIDE DEF s, r
      <4>4. QED BY <3>2, <4>2, <4>3
    <3>3. QED BY <1>3, <3>1, <3>2 DEF k, t
  <2> HIDE DEF r, cells, both, x, y
  <2>9. CASE both
    BY <2>5, <2>6, <2>8, <2>9
  <2>10. CASE ~ both
    BY <1>6, <2>5, <2>7, <2>10
  <2>11. QED BY <2>9, <2>10
<1> HIDE DEF cells
<1>8. QED BY <1>1, <1>2, <1>4, <1>7, SelectedKept

\* The rows of a dense selection are the first ones, which the kernels take.
LEMMA DenseRows ==
  ASSUME EvaluatorGiven, E!IInv, E!InCall, E!DenseValid
  PROVE  /\ E!KernelRows(Len(batch.rows)) = E!SelectedRows
         /\ \A i \in E!SelectedRows : /\ i \in DOMAIN E!Left.valid => E!Left.valid[i]
                                      /\ i \in DOMAIN E!Right.valid => E!Right.valid[i]
<1>1. E!BatchFits(batch) /\ batch.rows \in Seq(1 .. batch.size)
  BY CurrentFacts, BatchFacts
<1>2. \A i \in DOMAIN batch.rows : batch.rows[i] = i
  BY <1>1 DEF E!BatchFits, E!DenseValid
<1>3. DOMAIN batch.rows = 1 .. Len(batch.rows) /\ Len(batch.rows) \in Nat
  BY <1>1
<1>4. E!SelectedRows = 1 .. Len(batch.rows)
  BY <1>2, <1>3 DEF E!SelectedRows, E!Range
<1>5. E!KernelRows(Len(batch.rows)) = 1 .. Len(batch.rows)
  BY <1>3, KernelRowsAll
<1>6. QED BY <1>4, <1>5 DEF E!DenseValid, E!AllValid

\* Where neither operand has a NULL, a selected row has the payloads for values.
LEMMA KernelCells ==
  ASSUME EvaluatorGiven, E!IInv, E!InCall, E!IsBinary(E!Node.expression), E!DenseValid,
         NEW i \in E!SelectedRows
  PROVE  LET e == E!Node.expression
         IN  /\ E!Fits(E!Left.data[i], E!TypeOf(e.left)) /\ E!Evaluate(e.left, E!RowAt(i)) = E!Left.data[i]
             /\ E!Fits(E!Right.data[i], E!TypeOf(e.right)) /\ E!Evaluate(e.right, E!RowAt(i)) = E!Right.data[i]
             /\ E!Evaluate(e, E!RowAt(i)) = E!NodeValue(e, E!RowAt(i), E!Left.data[i], E!Right.data[i])
<1> DEFINE e == E!Node.expression
<1>1. e \in E!Trees /\ ~ E!IsLeaf(e) /\ i \in 1 .. batch.size
  BY CurrentFacts, TreeFacts, OperandCells
<1>2. i \in DOMAIN E!Left.valid /\ i \in DOMAIN E!Right.valid
  BY <1>1, CurrentFacts DEF NodeDone, E!ColumnFits
<1>3. E!Left.valid[i] /\ E!Right.valid[i]
  BY <1>2, DenseRows
<1>4. /\ CellIs(E!Left, i, E!TypeOf(e.left), E!Evaluate(e.left, E!RowAt(i)))
      /\ CellIs(E!Right, i, E!TypeOf(e.right), E!Evaluate(e.right, E!RowAt(i)))
      /\ E!Evaluate(e, E!RowAt(i)) = E!NodeValue(e, E!RowAt(i), E!Evaluate(e.left, E!RowAt(i)),
                                                               E!Evaluate(e.right, E!RowAt(i)))
  BY BinaryCells
<1>5. QED BY <1>3, <1>4 DEF CellIs

\* The node of column < literal and its operands.
LEMMA LessFacts ==
  ASSUME EvaluatorGiven, E!IInv, E!TakesLess
  PROVE  LET e == E!Node.expression
         IN  /\ E!InCall /\ E!DenseValid /\ e.kind = "<" /\ ~ E!IsLeaf(e) /\ E!IsBinary(e)
             /\ e.right \in E!Trees /\ e.right.kind = "literal"
             /\ E!TypeOf(e) = "Boolean" /\ E!TypeOf(e.left) = "Int64"
             /\ e.right.value = Null \/ e.right.value \in E!Int64
<1> DEFINE e == E!Node.expression
<1>1. /\ E!InCall /\ E!DenseValid /\ e.kind = "<" /\ e.right.kind = "literal" /\ E!Left.type = "Int64"
  BY DEF E!TakesLess, E!Kind
<1>2. e \in E!Trees /\ E!TypeOf(e) \in E!ValueTypes
  BY <1>1, CurrentFacts
<1>3. ~ E!IsLeaf(e) /\ E!IsBinary(e) /\ e.kind \in E!Comparisons
  BY <1>1 DEF E!IsLeaf, E!IsBinary, E!Comparisons
<1>4. e.right \in E!Trees
  BY <1>2, <1>3, TreeFacts
<1>5. E!TypeOf(e) = "Boolean" /\ E!TypeOf(e.left) = E!TypeOf(e.right)
  BY <1>2, <1>3, OperandTypes, SpecialFacts DEF E!ValueTypes
<1>6. E!TypeOf(e.left) = "Int64"
  BY <1>1, <1>3, CurrentFacts DEF NodeDone, E!ColumnFits
<1>7. e.right.type = "Int64"
  <2>1. E!TypeOf(e.right) = "Int64" /\ E!TypeOf(e.right) # "Invalid"
    BY <1>5, <1>6
  <2>2. QED BY <1>1, <1>4, <2>1, OperandTypes
<1>8. e.right.value = Null \/ E!Fits(e.right.value, "Int64")
  BY <1>1, <1>4, <1>7, TreeFacts DEF E!TreeTyped
<1>9. QED BY <1>1, <1>3, <1>4, <1>5, <1>6, <1>8, FitsFacts

\* Column < literal, in the kernel.
LEMMA LessKept == ASSUME EvaluatorGiven, E!IInv, E!LessConstant PROVE E!IInv'
<1> DEFINE e == E!Node.expression
           v == e.right.value
           new == [i \in E!KernelRows(Len(batch.rows)) |-> E!Left.data[i] < v]
<1>1. E!TakesLess /\ v # Null /\ E!Fill([E!Out EXCEPT !.data = E!Overlay(@, new)])
  BY DEF E!LessConstant
<1>2. /\ E!InCall /\ E!DenseValid /\ e.kind = "<" /\ ~ E!IsLeaf(e) /\ E!IsBinary(e)
      /\ e.right \in E!Trees /\ e.right.kind = "literal"
      /\ E!TypeOf(e) = "Boolean" /\ E!TypeOf(e.left) = "Int64" /\ v \in E!Int64
  BY <1>1, LessFacts
<1>3. DOMAIN new = E!SelectedRows
  BY <1>2, DenseRows
<1>4. ASSUME NEW i \in E!SelectedRows
      PROVE  E!Fits(new[i], E!TypeOf(e)) /\ new[i] = E!Evaluate(e, E!RowAt(i))
  <2> DEFINE x == E!Left.data[i]
  <2>1. /\ E!Fits(x, "Int64") /\ E!Evaluate(e.left, E!RowAt(i)) = x
        /\ E!Evaluate(e.right, E!RowAt(i)) = E!Right.data[i]
        /\ E!Evaluate(e, E!RowAt(i)) = E!NodeValue(e, E!RowAt(i), x, E!Right.data[i])
    BY <1>2, KernelCells
  <2>2. E!Right.data[i] = v
    BY <1>2, <2>1, EvaluateEquation, ValueCases
  <2>3. x \in E!Int64 /\ x \in Int /\ v \in Int /\ x # NaN /\ v # NaN /\ x # Null /\ v # Null
    BY <1>2, <2>1, FitsFacts, SpecialFacts
  <2>4. E!Evaluate(e, E!RowAt(i)) = E!Compare("<", x, v)
    BY <1>2, <2>1, <2>2, <2>3, ValueCases DEF E!Comparisons
  <2>5. E!Compare("<", x, v) = (x < v)
    <3> HIDE DEF x, v
    <3>1. QED BY <2>3 DEF E!Compare
  <2>6. new[i] = (x < v)
    BY <1>3
  <2>7. E!Fits(x < v, "Boolean")
    <3> HIDE DEF x, v
    <3>1. (x < v) \in BOOLEAN
      BY <2>3
    <3>2. QED BY <3>1, FitsFacts
  <2>8. QED BY <1>2, <2>4, <2>5, <2>6, <2>7
<1> HIDE DEF new
<1>5. QED BY <1>1, <1>2, <1>3, <1>4, KernelKept

\* The sum of two DOUBLE columns, in the kernel.
LEMMA AddKept == ASSUME EvaluatorGiven, E!IInv, E!AddDoubles PROVE E!IInv'
<1> DEFINE e == E!Node.expression
           new == [i \in E!KernelRows(Len(batch.rows)) |->
                     IF NaN \in {E!Left.data[i], E!Right.data[i]} THEN NaN ELSE E!Left.data[i] + E!Right.data[i]]
<1>1. E!InCall /\ E!DenseValid /\ e.kind = "+." /\ E!Fill([E!Out EXCEPT !.data = E!Overlay(@, new)])
  BY DEF E!AddDoubles, E!TakesAdd, E!Kind
<1>2. e \in E!Trees /\ E!TypeOf(e) \in E!ValueTypes
  BY <1>1, CurrentFacts
<1>3. /\ ~ E!IsLeaf(e) /\ E!IsBinary(e) /\ e.kind \in E!DoubleArithmetic /\ e.kind \in E!Arithmetic
      /\ e.kind \notin E!Int64Arithmetic
  BY <1>1 DEF E!IsLeaf, E!IsBinary, E!Arithmetic, E!Int64Arithmetic, E!DoubleArithmetic
<1>4. E!TypeOf(e) = "Double" /\ E!TypeOf(e.left) = "Double" /\ E!TypeOf(e.right) = "Double"
  BY <1>2, <1>3, OperandTypes, SpecialFacts DEF E!ValueTypes
<1>5. DOMAIN new = E!SelectedRows
  BY <1>1, DenseRows
<1>6. ASSUME NEW i \in E!SelectedRows
      PROVE  E!Fits(new[i], E!TypeOf(e)) /\ new[i] = E!Evaluate(e, E!RowAt(i))
  <2> DEFINE x == E!Left.data[i]
             y == E!Right.data[i]
  <2>1. /\ E!Fits(x, "Double") /\ E!Fits(y, "Double")
        /\ E!Evaluate(e, E!RowAt(i)) = E!NodeValue(e, E!RowAt(i), x, y)
    BY <1>1, <1>3, <1>4, KernelCells
  <2>2. (x = NaN \/ x \in Int) /\ (y = NaN \/ y \in Int) /\ x # Null /\ y # Null
    BY <2>1, FitsFacts, SpecialFacts
  <2>3. E!Evaluate(e, E!RowAt(i)) = E!Compute("+.", x, y)
    BY <1>1, <1>3, <2>1, <2>2, ValueCases
  <2>4. E!Compute("+.", x, y) = IF x = NaN \/ y = NaN THEN NaN ELSE x + y
    BY DEF E!Compute, E!Exact, E!Int64Arithmetic
  <2>5. new[i] = IF x = NaN \/ y = NaN THEN NaN ELSE x + y
    BY <1>5
  <2>6. ~ (x = NaN \/ y = NaN) => x + y \in Int
    BY <2>2
  <2> HIDE DEF x, y, new
  <2>7. E!Fits(new[i], "Double")
    BY <2>5, <2>6, FitsFacts
  <2>8. QED BY <1>4, <2>3, <2>4, <2>5, <2>7
<1> HIDE DEF new
<1>7. QED BY <1>1, <1>3, <1>5, <1>6, KernelKept

-----------------------------------------------------------------------------
\* The other steps.

\* A call that throws: a NULL literal has marked every row, and the kernel is only
\* taken where no row is marked.
LEMMA ThrowsKept == ASSUME EvaluatorGiven, E!IInv, E!LessThrows PROVE E!IInv'
<1> DEFINE e == E!Node.expression
<1>1. /\ E!TakesLess /\ e.right.value = Null /\ buffers' = [buffers EXCEPT ![next] = E!Out]
      /\ next' = 0 /\ thrown' = TRUE /\ nodes' = nodes /\ batch' = batch
  BY DEF E!LessThrows
<1>2. E!InCall /\ E!DenseValid /\ E!IsBinary(e) /\ e.right.kind = "literal"
  BY <1>1, LessFacts
<1>3. batch.size = 0
  <2>1. NodeDone(E!Right, E!Node.right) /\ nodes[E!Node.right].expression = e.right
    BY <1>2, CurrentFacts
  <2>2. DOMAIN E!Right.valid = 1 .. batch.size /\ \A i \in 1 .. batch.size : ~ E!Right.valid[i]
    BY <1>1, <1>2, <2>1 DEF NodeDone, E!ColumnFits
  <2>3. \A i \in DOMAIN E!Right.valid : E!Right.valid[i]
    BY <1>2 DEF E!DenseValid, E!AllValid
  <2>4. batch.size \in Nat
    BY <1>2, CurrentFacts, BatchFacts
  <2>5. 1 .. batch.size = {}
    BY <2>2, <2>3
  <2>6. QED BY <2>4, <2>5
<1>4. next \in DOMAIN nodes /\ E!ColumnFits(E!Out, E!TypeOf(e), batch.size) /\ Len(E!Out.data) = batch.size
  BY <1>2, OutFacts DEF E!InCall
<1>5. buffers = [n \in DOMAIN nodes |-> buffers[n]]
  BY DEF E!IInv, E!Compiled
<1>6. /\ buffers' = [n \in DOMAIN nodes |-> buffers'[n]]
      /\ \A n \in DOMAIN nodes : buffers'[n] = IF n = next THEN E!Out ELSE buffers[n]
  BY <1>1, <1>4, <1>5
<1>7. E!TypeOK'
  <2>1. DOMAIN nodes = 1 .. Len(nodes) /\ Len(nodes) \in Nat
    BY NodeFacts
  <2>2. \A n \in DOMAIN nodes : E!ColumnFits(buffers[n], E!TypeOf(nodes[n].expression), Len(buffers[n].data))
    BY DEF E!IInv, E!TypeOK
  <2>3. \A n \in DOMAIN nodes : E!ColumnFits(buffers'[n], E!TypeOf(nodes[n].expression), Len(buffers'[n].data))
    BY <1>4, <1>6, <2>2 DEF E!Node
  <2>4. \A n \in DOMAIN nodes : ~ (n < 0)
    BY <2>1
  <2>5. 0 \in 0 .. Len(nodes) + 1
    BY <2>1
  <2>6. QED BY <1>1, <2>3, <2>4, <2>5 DEF E!TypeOK
<1>8. E!NodesEvaluated'
  <2>1. \A n \in DOMAIN nodes : ~ (n < 0)
    BY NodeFacts
  <2>2. QED BY <1>1, <2>1 DEF E!NodesEvaluated
<1>9. E!Compiled' /\ E!BatchGiven' /\ E!ThrowsOnlyWithoutRows'
  BY <1>1, <1>3, <1>6 DEF E!IInv, E!Compiled, E!BatchGiven, E!ThrowsOnlyWithoutRows
<1>10. QED BY <1>7, <1>8, <1>9 DEF E!IInv

\* Before a call and after one no node of it has been evaluated.
LEMMA CallKept == ASSUME EvaluatorGiven, E!IInv, NEW b \in EvaluatorBatches, E!Call(b) PROVE E!IInv'
<1>1. /\ next = 0 /\ next' = 1 /\ thrown' = FALSE /\ nodes' = nodes /\ buffers' = buffers
      /\ batch' = b /\ DOMAIN b.columns = E!ColumnsRead
  BY DEF E!Call
<1>2. DOMAIN nodes = 1 .. Len(nodes) /\ Len(nodes) \in Nat /\ \A n \in DOMAIN nodes : ~ (n < 1)
  BY NodeFacts
<1>3. \A n \in DOMAIN nodes : E!ColumnFits(buffers[n], E!TypeOf(nodes[n].expression), Len(buffers[n].data))
  BY DEF E!IInv, E!TypeOK
<1>4. 1 \in 0 .. Len(nodes) + 1
  BY <1>2
<1>5. E!TypeOK'
  BY <1>1, <1>2, <1>3, <1>4 DEF E!TypeOK
<1>6. E!Compiled' /\ E!ThrowsOnlyWithoutRows'
  BY <1>1 DEF E!IInv, E!Compiled, E!ThrowsOnlyWithoutRows
<1>7. E!BatchGiven'
  BY <1>1 DEF E!BatchGiven, E!ColumnsRead
<1>8. E!NodesEvaluated'
  BY <1>1, <1>2 DEF E!NodesEvaluated
<1>9. QED BY <1>5, <1>6, <1>7, <1>8 DEF E!IInv

\* evaluate() returns.
LEMMA ReturnKept == ASSUME EvaluatorGiven, E!IInv, E!Return PROVE E!IInv'
<1>1. next' = 0 /\ batch' = E!NoBatch /\ nodes' = nodes /\ buffers' = buffers /\ thrown' = thrown
  BY DEF E!Return
<1>2. DOMAIN nodes = 1 .. Len(nodes) /\ Len(nodes) \in Nat /\ \A n \in DOMAIN nodes : ~ (n < 0)
  BY NodeFacts
<1>3. \A n \in DOMAIN nodes : E!ColumnFits(buffers[n], E!TypeOf(nodes[n].expression), Len(buffers[n].data))
  BY DEF E!IInv, E!TypeOK
<1>4. 0 \in 0 .. Len(nodes) + 1 /\ thrown \in BOOLEAN
  BY <1>2 DEF E!IInv, E!TypeOK
<1>5. E!TypeOK'
  BY <1>1, <1>2, <1>3, <1>4 DEF E!TypeOK
<1>6. E!Compiled' /\ E!ThrowsOnlyWithoutRows' /\ E!BatchGiven'
  BY <1>1 DEF E!IInv, E!Compiled, E!ThrowsOnlyWithoutRows, E!BatchGiven, E!NoBatch
<1>7. E!NodesEvaluated'
  BY <1>1, <1>2 DEF E!NodesEvaluated
<1>8. QED BY <1>5, <1>6, <1>7 DEF E!IInv

\* The invariant holds before the first call.
LEMMA InitIInv == ASSUME EvaluatorGiven, E!Init PROVE E!IInv
<1>1. PICK e \in Roots : /\ E!TypeOf(e) # "Invalid" /\ nodes = E!Code(e) /\ next = 0 /\ thrown = FALSE
                         /\ buffers = [n \in DOMAIN nodes |-> E!Empty(E!TypeOf(nodes[n].expression))]
  BY DEF E!Init
<1>2. CodeOf(nodes, e)
  BY <1>1, CodeFacts DEF EvaluatorGiven, E!EvaluatorConstants
<1>3. DOMAIN nodes = 1 .. Len(nodes) /\ Len(nodes) \in Nat /\ \A n \in DOMAIN nodes : ~ (n < 0)
  BY <1>2 DEF CodeOf
<1>4. \A n \in DOMAIN nodes : /\ Len(buffers[n].data) = 0
                              /\ E!ColumnFits(buffers[n], E!TypeOf(nodes[n].expression), 0)
  <2>1. \A n \in DOMAIN nodes : buffers[n] = E!Empty(E!TypeOf(nodes[n].expression))
    BY <1>1
  <2>2. \A t : /\ E!Empty(t).type = t /\ E!Empty(t).data = << >> /\ E!Empty(t).valid = << >>
    BY DEF E!Empty
  <2>3. Len(<< >>) = 0 /\ DOMAIN << >> = 1 .. 0 /\ 1 .. 0 = {}
    OBVIOUS
  <2>4. \A t : E!ColumnFits(E!Empty(t), t, 0) /\ Len(E!Empty(t).data) = 0
    BY <2>2, <2>3 DEF E!ColumnFits
  <2>5. QED BY <2>1, <2>4
<1>5. E!TypeOK
  <2>1. 0 \in 0 .. Len(nodes) + 1
    BY <1>3
  <2>2. QED BY <1>1, <1>3, <1>4, <2>1 DEF E!TypeOK
<1>6. E!Compiled /\ E!BatchGiven /\ E!ThrowsOnlyWithoutRows
  BY <1>1 DEF E!Compiled, E!BatchGiven, E!ThrowsOnlyWithoutRows
<1>7. E!NodesEvaluated
  BY <1>1, <1>3 DEF E!NodesEvaluated
<1>8. QED BY <1>5, <1>6, <1>7 DEF E!IInv

\* A step that changes nothing keeps it.
LEMMA StutterKept == ASSUME E!IInv, UNCHANGED E!vars PROVE E!IInv'
<1>1. /\ nodes' = nodes /\ buffers' = buffers /\ batch' = batch /\ next' = next
      /\ thrown' = thrown
  BY DEF E!vars
<1>2. E!TypeOK' /\ E!Compiled' /\ E!ThrowsOnlyWithoutRows'
  BY <1>1 DEF E!IInv, E!TypeOK, E!Compiled, E!ThrowsOnlyWithoutRows
<1>3. E!BatchGiven'
  BY <1>1 DEF E!IInv, E!BatchGiven, E!ColumnsRead
<1>4. E!NodesEvaluated'
  BY <1>1 DEF E!IInv, E!NodesEvaluated, E!ColumnOf, E!RowAt
<1>5. QED BY <1>2, <1>3, <1>4 DEF E!IInv

\* Every step keeps it.
LEMMA NextKept == ASSUME EvaluatorGiven, E!IInv, [E!Next]_E!vars PROVE E!IInv'
<1>1. ASSUME NEW b \in EvaluatorBatches, E!Call(b) PROVE E!IInv'
  BY <1>1, CallKept
<1>2. CASE E!ColumnNode
  BY <1>2, ColumnKept
<1>3. CASE E!LiteralNode
  BY <1>3, LiteralKept
<1>4. CASE E!LessThrows
  BY <1>4, ThrowsKept
<1>5. CASE E!LessConstant
  BY <1>5, LessKept
<1>6. CASE E!AddDoubles
  BY <1>6, AddKept
<1>7. CASE E!UnaryNode
  BY <1>7, UnaryKept
<1>8. CASE E!ConnectiveNode
  BY <1>8, ConnectiveKept
<1>9. CASE E!ComparisonNode
  BY <1>9, ComparisonKept
<1>10. CASE E!ArithmeticNode
  BY <1>10, ArithmeticKept
<1>11. CASE E!Return
  BY <1>11, ReturnKept
<1>12. CASE UNCHANGED E!vars
  BY <1>12, StutterKept
<1>13. QED
  BY <1>1, <1>2, <1>3, <1>4, <1>5, <1>6, <1>7, <1>8, <1>9, <1>10, <1>11, <1>12 DEF E!Next

-----------------------------------------------------------------------------

\* The inductive invariant of the evaluator: every node that is done has, in the
\* selected rows, the value that its expression has there.
THEOREM EvaluatorInvariant ==
  ASSUME EvaluatorGiven
  PROVE  E!Spec => []E!IInv
<1>1. E!Init => E!IInv
  BY InitIInv
<1>2. E!IInv /\ [E!Next]_E!vars => E!IInv'
  BY NextKept
<1>3. QED BY <1>1, <1>2, PTL DEF E!Spec

\* Every buffer is a column of the type and the length it should have
\* (expression.cpp: evaluate).
THEOREM EvaluatorTypes ==
  ASSUME EvaluatorGiven
  PROVE  E!Spec => []E!TypeOK
<1>1. E!IInv => E!TypeOK
  BY DEF E!IInv
<1>2. QED BY <1>1, EvaluatorInvariant, PTL

\* The column that evaluate() returns has the value of the expression in every
\* selected row (expression.cpp:107-151), whatever the trees and the batches.
THEOREM EvaluatorRight ==
  ASSUME EvaluatorGiven
  PROVE  E!Spec => []E!SelectedRowsEvaluated
<1>1. ASSUME E!IInv, next = Len(nodes) + 1, NEW i \in E!Range(batch.rows)
      PROVE  E!ValueAt(E!ColumnOf(Len(nodes)), i) = E!Evaluate(E!Tree, E!RowAt(i))
  <2>1. Len(nodes) \in DOMAIN nodes /\ Len(nodes) < next
    BY <1>1, NodeFacts
  <2>2. QED BY <1>1, <2>1 DEF E!IInv, E!NodesEvaluated, E!Tree
<1>2. E!IInv => E!SelectedRowsEvaluated
  BY <1>1 DEF E!SelectedRowsEvaluated
<1>3. QED BY <1>2, EvaluatorInvariant, PTL

\* evaluate() throws for no batch that has a row: the kernel for column < literal is
\* never taken with a NULL literal there (expression.cpp:119-122).
THEOREM EvaluatorThrows ==
  ASSUME EvaluatorGiven
  PROVE  E!Spec => []E!ThrowsOnlyWithoutRows
<1>1. E!IInv => E!ThrowsOnlyWithoutRows
  BY DEF E!IInv
<1>2. QED BY <1>1, EvaluatorInvariant, PTL
=============================================================================
