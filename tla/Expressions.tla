---------------------------- MODULE Expressions ----------------------------
(***************************************************************************)
(* Scalar expressions (src/expression.cpp): the syntax tree and the value  *)
(* of a node on one row, in three-valued logic with IEEE comparisons.  A   *)
(* row maps column identifiers to cells: an integer, a BOOLEAN, NaN or     *)
(* Null.  A double is NaN or a small whole number, so its sums, products   *)
(* and (where a model's values divide) quotients are exact.                *)
(***************************************************************************)
EXTENDS Integers

CONSTANTS Null, NaN,
          MaxInt       \* the largest Int64

ASSUME ExpressionsAssumption == MaxInt \in Nat

Column(c) == [kind |-> "column", column |-> c]
TypedLiteral(t, v) == [kind |-> "literal", type |-> t, value |-> v]
Literal(v) == [kind |-> "literal", value |-> v]
Unary(k, a) == [kind |-> k, left |-> a]
Binary(k, a, b) == [kind |-> k, left |-> a, right |-> b]

Comparisons == {"=", "#", "<", "<=", ">", ">="}
Connectives == {"and", "or"}
\* The kind of an arithmetic node says whether its operands are Int64 or DOUBLE
\* (a dot): expression_type() has checked that they are the same.
Int64Arithmetic == {"+", "-", "*", "/"}
DoubleArithmetic == {"+.", "-.", "*.", "/."}
Arithmetic == Int64Arithmetic \cup DoubleArithmetic
IsLeaf(e) == e.kind \in {"column", "literal"}
IsBinary(e) == e.kind \in Comparisons \cup Connectives \cup Arithmetic

Operands(e) == IF IsLeaf(e) THEN {} ELSE IF IsBinary(e) THEN {e.left, e.right} ELSE {e.left}

\* compare(): NaN equals nothing, not even itself, and has no order.
Compare(k, x, y) ==
  IF x = NaN \/ y = NaN THEN k = "#"
  ELSE CASE k = "=" -> x = y
         [] k = "#" -> x # y
         [] k = "<" -> x < y
         [] k = "<=" -> x <= y
         [] k = ">" -> x > y
         [] k = ">=" -> x >= y

\* AND and OR: a decisive operand settles the value, whatever the other is.
Connect(k, x, y) ==
  LET decisive == k = "or"
  IN  IF x = decisive \/ y = decisive THEN decisive
      ELSE IF x = Null \/ y = Null THEN Null
      ELSE ~ decisive

\* C++ division truncates towards zero.
Magnitude(x) == IF x < 0 THEN -x ELSE x
Quotient(x, y) == LET q == Magnitude(x) \div Magnitude(y)
                  IN  IF (x < 0) = (y < 0) THEN q ELSE -q
Exact(k, x, y) == CASE k \in {"+", "+."} -> x + y
                    [] k \in {"-", "-."} -> x - y
                    [] k \in {"*", "*."} -> x * y
                    [] k \in {"/", "/."} -> Quotient(x, y)

\* Division by zero and a result that is no Int64 are NULL.
Compute(k, x, y) ==
  IF k \in {"/", "/."} /\ y = 0 THEN Null
  ELSE IF x = NaN \/ y = NaN THEN NaN
  ELSE IF k \in Int64Arithmetic /\ Exact(k, x, y) \notin (-MaxInt - 1) .. MaxInt THEN Null
  ELSE Exact(k, x, y)

\* The value of a node on a row, from the values x and y of its operands.
NodeValue(e, row, x, y) ==
  CASE e.kind = "column" -> row[e.column]
    [] e.kind = "literal" -> e.value
    [] e.kind = "isnull" -> x = Null
    [] e.kind = "not" -> IF x = Null THEN Null ELSE ~ x
    [] e.kind \in Connectives -> Connect(e.kind, x, y)
    [] OTHER -> IF x = Null \/ y = Null THEN Null
                ELSE IF e.kind \in Arithmetic THEN Compute(e.kind, x, y)
                ELSE Compare(e.kind, x, y)
=============================================================================
