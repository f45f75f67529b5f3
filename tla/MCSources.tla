----------------------------- MODULE MCSources -----------------------------
(***************************************************************************)
(* Batches of two cells with none, one or both selected; row groups of up  *)
(* to two cells with every footer that is right about them; and every      *)
(* comparison of the column with a literal below, at or above its values,  *)
(* IS NULL and the Boolean literals, negated and connected.                *)
(***************************************************************************)
EXTENDS Sources

Cells == {1, 2, NaN, Null}
MCBatches == {[cells |-> c, selection |-> s] :
                c \in TupleOf(Cells, 2), s \in {<< >>, <<2>>, <<1, 2>>}}

\* A count of NULLs or none; bounds or none, the upper one loose or not.  A
\* column without a number has no bounds.
Footers(c) ==
  {f \in [nulls : {None, NullsIn(c)}, minimum : {None} \cup 1 .. 2, maximum : {None} \cup 1 .. 3] :
     \/ f.minimum = None /\ f.maximum = None
     \/ /\ Numbers(c) # {}
        /\ f.minimum = Min(Numbers(c))
        /\ f.maximum \in {Max(Numbers(c)), 3}}
MCRowGroups == UNION {{[cells |-> c, footer |-> f] : f \in Footers(c)} :
                        c \in BoundedSeq(Cells, 2)}

X == Column("x")
Numeric == {TypedLiteral("Double", v) : v \in {0, 1, 2, NaN, Null}}
Number(n) == TypedLiteral("Double", n)
Truth(v) == TypedLiteral("Boolean", v)
Atoms == {Binary(k, X, v) : k \in Comparisons, v \in Numeric}
           \cup {Binary(k, v, X) : k \in Comparisons, v \in Numeric}
           \cup {Unary("isnull", X), Binary("=", X, X)}
           \cup {Truth(v) : v \in {TRUE, FALSE, Null}}
Left == {Binary("<", X, Number(1)), Binary("#", X, Number(2)), Unary("isnull", X)}
Right == {Binary("<", X, Number(2)), Binary(">", Number(1), X), Unary("isnull", X),
          Truth(TRUE), Truth(Null)}
Pairs == {Binary(k, a, b) : k \in Connectives, a \in Left, b \in Right}
MCPredicates == Atoms \cup {Unary("not", a) : a \in Atoms} \cup Pairs

\* The predicates, their operands and the operands of these, which are leaves.
Grown(trees) == trees \cup UNION {Operands(e) : e \in trees}
MCTrees == {e : e \in Grown(Grown(MCPredicates))}
MCHeight[e \in MCTrees] == IF IsLeaf(e) THEN 0 ELSE 1 + Max({MCHeight[o] : o \in Operands(e)})
=============================================================================
