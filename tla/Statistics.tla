----------------------------- MODULE Statistics -----------------------------
(***************************************************************************)
(* ColumnStatistics (src/statistics.cpp) of one numeric column: how they   *)
(* are computed from a batch and merged, and how may_match decides from    *)
(* them alone whether a predicate can be true of some row.                 *)
(***************************************************************************)
EXTENDS Evaluation, Sequences, SequencesExt, FiniteSetsExt

Cell == Int \cup {NaN, Null}

\* What expression_type() accepts over a numeric column.  BOOLEANs have no order
\* here, so they are only compared for equality.
IsTruth(e) == \/ e.kind \in {"isnull", "not"} \cup Connectives \cup Comparisons
              \/ e.kind = "literal" /\ e.type = "Boolean"
WellTyped(e) ==
  /\ e.kind = "column" => e.column = "x"
  /\ e.kind = "literal" => e.value \in IF e.type = "Boolean" THEN BOOLEAN \cup {Null} ELSE Cell
  /\ e.kind \in Connectives \cup {"not"} => \A o \in Operands(e) : IsTruth(o)
  /\ e.kind \in Arithmetic => \A o \in Operands(e) : ~ IsTruth(o)
  /\ e.kind \in Comparisons => \/ \A o \in Operands(e) : ~ IsTruth(o)
                               \/ e.kind \in {"=", "#"} /\ \A o \in Operands(e) : IsTruth(o)

ASSUME StatisticsAssumption ==
  /\ Null \notin Int \cup BOOLEAN /\ NaN \notin Int \cup BOOLEAN /\ Null # NaN
  /\ \A e \in Trees : WellTyped(e)

None == Null      \* an empty optional<Value>

Unknown == [rows |-> 0, nulls |-> 0, nullsKnown |-> TRUE, hasNaN |-> FALSE,
            minimum |-> None, maximum |-> None]

\* analyze(): NULLs are counted, NaN is noted, and neither bounds the column.
Numbers(cells) == Range(cells) \ {Null, NaN}
NullsIn(cells) == Cardinality({i \in DOMAIN cells : cells[i] = Null})
Analyze(cells) ==
  [rows |-> Len(cells),
   nulls |-> NullsIn(cells),
   nullsKnown |-> TRUE,
   hasNaN |-> NaN \in Range(cells),
   minimum |-> IF Numbers(cells) = {} THEN None ELSE Min(Numbers(cells)),
   maximum |-> IF Numbers(cells) = {} THEN None ELSE Max(Numbers(cells))]

\* merge_statistics(): an absent bound takes the other one.
LowerKeptFirst(a, b) == IF a = None THEN b ELSE a      \* mutant: the earlier bound kept
Lower(a, b) == IF a = None THEN b ELSE IF b = None THEN a ELSE Min({a, b})
Upper(a, b) == IF a = None THEN b ELSE IF b = None THEN a ELSE Max({a, b})
RowsMerged(a, b) == a.rows + b.rows
Merge(a, b) ==
  [rows |-> RowsMerged(a, b),
   nulls |-> a.nulls + b.nulls,
   nullsKnown |-> a.nullsKnown /\ b.nullsKnown,
   hasNaN |-> a.hasNaN \/ b.hasNaN,
   minimum |-> Lower(a.minimum, b.minimum),
   maximum |-> Upper(a.maximum, b.maximum)]

-----------------------------------------------------------------------------
\* simple(): column OP literal, or literal OP column with the order turned round.
FlipForgotten(k) == k                                  \* mutant: order not turned round
Flip(k) == CASE k = "<" -> ">" [] k = ">" -> "<" [] k = "<=" -> ">=" [] k = ">=" -> "<="
             [] OTHER -> k
IsSimple(e) == /\ e.kind \in Comparisons
               /\ {e.left.kind, e.right.kind} = {"column", "literal"}
KindOf(e) == IF e.left.kind = "column" THEN e.kind ELSE Flip(e.kind)
ValueOf(e) == IF e.left.kind = "column" THEN e.right.value ELSE e.left.value

\* The bounds against the literal: can some number of the column satisfy it?
BoundsAllow(k, s, v) ==
  CASE k = "=" -> s.minimum <= v /\ v <= s.maximum
    [] k = "#" -> s.hasNaN \/ s.minimum # v \/ s.maximum # v
    [] k = "<" -> s.minimum < v
    [] k = "<=" -> s.minimum <= v
    [] k = ">" -> s.maximum > v
    [] k = ">=" -> s.maximum >= v

SimpleMayMatch(k, v, s) ==
  IF v = Null \/ (s.nullsKnown /\ s.nulls = s.rows) THEN FALSE
  ELSE IF v = NaN THEN k = "#"
  ELSE s.minimum = None \/ s.maximum = None \/ BoundsAllow(k, s, v)

\* What the metadata says of a node, from what it says, a and b, of its operands.
NodeMayMatch(e, a, b, s) ==
  CASE e.kind = "literal" -> e.value = TRUE
    [] e.kind = "and" -> a /\ b
    [] e.kind = "or" -> a \/ b
    [] e.kind = "isnull" /\ e.left.kind = "column" -> ~ s.nullsKnown \/ s.nulls # 0
    [] IsSimple(e) -> SimpleMayMatch(KindOf(e), ValueOf(e), s)
    [] OTHER -> TRUE

MayMatch(e, s) ==
  LET may[t \in Trees] == NodeMayMatch(t, may[t.left], may[t.right], s)
  IN  may[e]
=============================================================================
