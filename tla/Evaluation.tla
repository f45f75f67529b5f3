----------------------------- MODULE Evaluation -----------------------------
(***************************************************************************)
(* The value of every tree of a set that has the operands of its members,  *)
(* and in which no tree is part of itself: expressions are built from      *)
(* shared pointers to const trees, so their heights are finite.            *)
(***************************************************************************)
EXTENDS Expressions

CONSTANT Height    \* how high each expression is, and all that it is made of
Trees == DOMAIN Height

Kinds == {"column", "literal", "isnull", "not"} \cup Connectives \cup Comparisons \cup Arithmetic

TreesRight ==
  /\ Height \in [Trees -> Nat]
  /\ \A e \in Trees :
       /\ e.kind \in Kinds
       /\ \A o \in Operands(e) : o \in Trees /\ Height[o] < Height[e]
ASSUME TreesAssumption == TreesRight

Evaluate(e, row) ==
  LET value[t \in Trees] == NodeValue(t, row, value[t.left], value[t.right])
  IN  value[e]

\* Filter keeps a row whose predicate is valid and true.
Keeps(e, row) == Evaluate(e, row) = TRUE
=============================================================================
