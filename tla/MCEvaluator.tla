---------------------------- MODULE MCEvaluator ----------------------------
(***************************************************************************)
(* Trees that reach every path.  A batch is one row with any cells, or up  *)
(* to three of three chosen rows, all selected, cut short by a limit, or   *)
(* filtered.                                                               *)
(***************************************************************************)
EXTENDS Evaluator, FiniteSetsExt

MCTypes == [c \in {"i", "j", "d", "g", "b", "p"} |->
              CASE c \in {"i", "j"} -> "Int64" [] c \in {"d", "g"} -> "Double" [] OTHER -> "Boolean"]
I == Column("i")
J == Column("j")
D == Column("d")
G == Column("g")
B == Column("b")
P == Column("p")
MCRoots ==
  {Binary("<", I, TypedLiteral("Int64", 1)),
   Binary("<", I, TypedLiteral("Int64", Null)),
   Binary("<", Binary("/", I, J), TypedLiteral("Int64", 1)),
   Unary("isnull", Binary("*", Binary("+", I, J), J)),
   Binary("or", B, Binary("<", Binary("-", I, J), TypedLiteral("Int64", 0))),
   Binary("=", Binary("+.", D, G), TypedLiteral("Double", 1)),
   Binary("<=", Binary("+.", Binary("*.", D, G), G), Binary("/.", D, G)),
   Binary("#", Binary("-.", D, G), D),
   Unary("not", Binary("and", B, P)),
   Binary("and", Unary("not", P), Binary("or", B, P)),
   Binary(">=", I, Binary("<", I, J))}

\* The roots and all that they are made of.
Grown(trees) == trees \cup UNION {Operands(e) : e \in trees}
MCTrees == {e : e \in Grown(Grown(Grown(MCRoots)))}
MCHeight[e \in MCTrees] == IF IsLeaf(e) THEN 0 ELSE 1 + Max({MCHeight[o] : o \in Operands(e)})

\* The cells of a type, numbered so that rows are functions into numbers.
Cell(x, v) == [data |-> x, valid |-> v]
Cells(t) ==
  CASE t = "Boolean" -> <<Cell(TRUE, TRUE), Cell(FALSE, TRUE), Cell(TRUE, FALSE), Cell(FALSE, FALSE)>>
    [] t = "Int64" -> <<Cell(0, TRUE), Cell(-4, TRUE), Cell(3, FALSE), Cell(-1, TRUE), Cell(2, TRUE)>>
    [] t = "Double" -> <<Cell(1, TRUE), Cell(NaN, TRUE), Cell(1, FALSE), Cell(-1, TRUE), Cell(0, TRUE)>>
CellOf(c, row) == Cells(Types[c])[row[c]]
Rows(columns) == {r \in [columns -> 1 .. 5] : \A c \in columns : r[c] \in DOMAIN Cells(Types[c])}

\* Three rows: the second of each pair of columns meets every kind of cell.
Chosen(columns, n) == [c \in columns |-> IF c \in {"i", "d", "b"} THEN n ELSE <<4, 1, 2>>[n]]

MCSelections(n) ==
  {[dense |-> TRUE, rows |-> [i \in 1 .. k |-> i]] : k \in {n, n - 1} \cap 0 .. n}
    \cup {[dense |-> FALSE, rows |-> r] : r \in {<<2>>, <<1, 3>>} \cap BoundedSeq(1 .. n, 2)}

BatchOf(rows, columns, s) ==
  [size |-> Len(rows), dense |-> s.dense, rows |-> s.rows,
   columns |-> [c \in columns |-> [type |-> Types[c],
                                   data |-> [i \in DOMAIN rows |-> CellOf(c, rows[i]).data],
                                   valid |-> [i \in DOMAIN rows |-> CellOf(c, rows[i]).valid]]]]

BatchesOf(columns) ==
  LET few == {Chosen(columns, n) : n \in {1, 3}}
  IN  UNION {{BatchOf(rows, columns, s) : s \in MCSelections(Len(rows))} :
               rows \in BoundedSeq(few, 3) \cup {<<r>> : r \in Rows(columns)}}
MCBatches == UNION {BatchesOf(columns) : columns \in {{"i"}, {"i", "j"}, {"i", "j", "b"}, {"d", "g"}, {"b", "p"}}}
=============================================================================
