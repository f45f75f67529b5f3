----------------------------- MODULE Evaluator -----------------------------
(***************************************************************************)
(* vqe::Evaluator (src/expression.cpp, src/kernels.cpp): an expression     *)
(* compiled into nodes in postorder, each with a buffer it keeps from one  *)
(* batch to the next.  One action evaluates one node.  A column is a       *)
(* payload and a validity flag per physical row, numbered from 1; under a  *)
(* NULL the payload may be anything.                                       *)
(***************************************************************************)
EXTENDS Evaluation, Sequences, SequencesExt

CONSTANTS Types,        \* the schema: the type of each column
          Roots,        \* the expressions evaluators are built from
          Batches,      \* batches of the columns an expression refers to
          Lanes         \* values the kernels take at once, 1 when scalar

ValueTypes == {"Boolean", "Int64", "Double"}
Int64 == (-MaxInt - 1) .. MaxInt
Fits(x, t) == CASE t = "Boolean" -> x \in BOOLEAN
                [] t = "Int64" -> x \in Int64
                [] t = "Double" -> x = NaN \/ x \in Int

VARIABLES nodes,    \* nodes_: expression, operands' indices
          buffers,  \* the buffer of each node
          batch,    \* evaluate()'s argument
          next,     \* the node evaluate() is at, 0 outside of a call
          thrown    \* whether evaluate() threw

vars == <<nodes, buffers, batch, next, thrown>>

NoBatch == [size |-> 0, columns |-> << >>, dense |-> TRUE, rows |-> << >>]

-----------------------------------------------------------------------------
\* expression_type(): "Invalid" where it throws; x and y are the operands' types.
AllowedTypes(e) == CASE e.kind \in Connectives -> {"Boolean"}
                     [] e.kind \in Int64Arithmetic -> {"Int64"}
                     [] e.kind \in DoubleArithmetic -> {"Double"}
                     [] e.kind \in Comparisons -> ValueTypes
NodeType(e, x, y) ==
  CASE e.kind = "column" -> Types[e.column]
    [] e.kind = "literal" -> e.type
    [] e.kind = "isnull" -> IF x = "Invalid" THEN "Invalid" ELSE "Boolean"
    [] e.kind = "not" -> IF x = "Boolean" THEN "Boolean" ELSE "Invalid"
    [] OTHER -> IF x # y \/ x \notin AllowedTypes(e) THEN "Invalid"
                ELSE IF e.kind \in Arithmetic THEN x ELSE "Boolean"

TypeOf(e) == LET type[t \in Trees] == NodeType(t, type[t.left], type[t.right])
             IN  type[e]

\* compile(): the nodes of the operands come before the node, which links to the
\* last of each.
Shift(link, n) == IF link = 0 THEN 0 ELSE link + n
Shifted(code, n) == [i \in DOMAIN code |-> [expression |-> code[i].expression,
                                            left |-> Shift(code[i].left, n),
                                            right |-> Shift(code[i].right, n)]]
NodeCode(e, l, r) ==
  IF IsLeaf(e) THEN <<[expression |-> e, left |-> 0, right |-> 0]>>
  ELSE IF IsBinary(e) THEN Append(l \o Shifted(r, Len(l)),
                                  [expression |-> e, left |-> Len(l), right |-> Len(l) + Len(r)])
  ELSE Append(l, [expression |-> e, left |-> Len(l), right |-> 0])

Code(e) == LET code[t \in Trees] == NodeCode(t, code[t.left], code[t.right])
           IN  code[e]

-----------------------------------------------------------------------------
\* Literals have values of their types, and batches as many rows as they say; a
\* dense selection is of the first rows.  BOOLEANs have no order here, so they
\* are only compared for equality.
TreeTyped(e) ==
  /\ e.kind = "column" => e.column \in DOMAIN Types
  /\ e.kind = "literal" => /\ e.type \in ValueTypes
                           /\ e.value = Null \/ Fits(e.value, e.type)
  /\ e.kind \in Comparisons \ {"=", "#"} => TypeOf(e.left) # "Boolean"
ColumnFits(column, t, n) ==
  /\ column.type = t
  /\ DOMAIN column.data = 1 .. n /\ DOMAIN column.valid = 1 .. n
  /\ \A i \in 1 .. n : Fits(column.data[i], t) /\ column.valid[i] \in BOOLEAN
BatchFits(b) ==
  /\ b.size \in Nat
  /\ b.rows \in Seq(1 .. b.size)
  /\ b.dense => Len(b.rows) <= b.size /\ \A i \in DOMAIN b.rows : b.rows[i] = i
  /\ DOMAIN b.columns \subseteq DOMAIN Types
  /\ \A c \in DOMAIN b.columns : ColumnFits(b.columns[c], Types[c], b.size)

EvaluatorConstants ==
  /\ Lanes \in Nat \ {0}
  /\ Null \notin Int \cup BOOLEAN /\ NaN \notin Int \cup BOOLEAN /\ Null # NaN
  /\ Types \in [DOMAIN Types -> ValueTypes]
  /\ Roots \subseteq Trees
  /\ \A e \in Trees : TreeTyped(e)
  /\ \A b \in Batches : BatchFits(b)
ASSUME EvaluatorAssumption == EvaluatorConstants

-----------------------------------------------------------------------------
Zero(t) == IF t = "Boolean" THEN FALSE ELSE 0
Empty(t) == [type |-> t, data |-> << >>, valid |-> << >>]

\* Column::reset(n): n rows, none of them NULL, whatever the column held.
ResetKept(column, n) ==   \* mutant: resize() only, old rows and flags stay
  [type |-> column.type,
   data |-> [i \in 1 .. n |-> IF i <= Len(column.data) THEN column.data[i] ELSE Zero(column.type)],
   valid |-> [i \in 1 .. n |-> IF i <= Len(column.valid) THEN column.valid[i] ELSE TRUE]]
Reset(column, n) ==
  [type |-> column.type,
   data |-> [i \in 1 .. n |-> Zero(column.type)],
   valid |-> [i \in 1 .. n |-> TRUE]]

ValueAt(column, i) == IF column.valid[i] THEN column.data[i] ELSE Null
AllValid(column) == \A i \in DOMAIN column.valid : column.valid[i]

Init == \E e \in Roots :
          /\ TypeOf(e) # "Invalid"
          /\ nodes = Code(e)
          /\ buffers = [i \in DOMAIN nodes |-> Empty(TypeOf(nodes[i].expression))]
          /\ batch = NoBatch
          /\ next = 0
          /\ thrown = FALSE

-----------------------------------------------------------------------------
\* values_[i]: a column of the batch or the node's own buffer.
ColumnOf(i) == LET e == nodes[i].expression
               IN  IF e.kind = "column" THEN batch.columns[e.column] ELSE buffers[i]

Tree == nodes[Len(nodes)].expression
Node == nodes[next]
Kind == Node.expression.kind
Left == ColumnOf(Node.left)
Right == ColumnOf(Node.right)
Out == Reset(buffers[next], batch.size)
InCall == next \in DOMAIN nodes

ColumnsRead == {nodes[n].expression.column : n \in {m \in DOMAIN nodes : nodes[m].expression.kind = "column"}}
Call(b) == /\ next = 0
           /\ DOMAIN b.columns = ColumnsRead
           /\ batch' = b
           /\ next' = 1
           /\ thrown' = FALSE
           /\ UNCHANGED <<nodes, buffers>>

Step == /\ next' = next + 1
        /\ UNCHANGED <<nodes, batch, thrown>>
Fill(column) == /\ buffers' = [buffers EXCEPT ![next] = column]
                /\ Step

ColumnNode == InCall /\ Kind = "column" /\ Step /\ UNCHANGED buffers

LiteralNode ==
  /\ InCall /\ Kind = "literal"
  /\ LET v == Node.expression.value
     IN  Fill([Out EXCEPT !.data = [i \in DOMAIN @ |-> IF v = Null THEN Zero(Out.type) ELSE v],
                          !.valid = [i \in DOMAIN @ |-> v # Null]])

-----------------------------------------------------------------------------
\* dense_valid: the rows are the first ones and no operand has a NULL.
LeftValid == batch.dense /\ AllValid(Left)       \* mutant: the right operand unchecked
DenseValid == batch.dense /\ AllValid(Left) /\ AllValid(Right)

\* The kernels take Lanes rows at a time, then the rest one by one.
VectorRows(n) == 1 .. Lanes * (n \div Lanes)
KernelRows(n) == VectorRows(n) \cup (Lanes * (n \div Lanes)) + 1 .. n

Overlay(data, new) == [i \in DOMAIN data |-> IF i \in DOMAIN new THEN new[i] ELSE data[i]]

TakesLess == /\ InCall /\ Kind = "<" /\ DenseValid
             /\ Left.type = "Int64"
             /\ Node.expression.right.kind = "literal"
TakesAdd == InCall /\ Kind = "+." /\ DenseValid

\* std::get<int64_t>() of a literal that is NULL: no row, so no NULL was seen.
LessThrows == /\ TakesLess /\ Node.expression.right.value = Null
              /\ buffers' = [buffers EXCEPT ![next] = Out]
              /\ next' = 0
              /\ thrown' = TRUE
              /\ UNCHANGED <<nodes, batch>>

LessConstant ==
  /\ TakesLess /\ Node.expression.right.value # Null
  /\ LET less == [i \in KernelRows(Len(batch.rows)) |-> Left.data[i] < Node.expression.right.value]
     IN  Fill([Out EXCEPT !.data = Overlay(@, less)])

AddDoubles ==
  /\ TakesAdd
  /\ LET sum == [i \in KernelRows(Len(batch.rows)) |->
                   IF NaN \in {Left.data[i], Right.data[i]} THEN NaN ELSE Left.data[i] + Right.data[i]]
     IN  Fill([Out EXCEPT !.data = Overlay(@, sum)])

-----------------------------------------------------------------------------
Modulus == 2 * (MaxInt + 1)
Unwrapped(x) == x                                \* mutant: no width
Wrapped(x) == ((x + MaxInt + 1) % Modulus) - MaxInt - 1

\* eval_arithmetic() on two valid operands: the flag and what it leaves in r.
Divides(x, y) == y # 0 /\ ~ (x = -MaxInt - 1 /\ y = -1)

Int64Result(k, x, y) ==
  IF k = "/" THEN IF Divides(x, y) THEN [valid |-> TRUE, data |-> Quotient(x, y)]
                                   ELSE [valid |-> FALSE, data |-> 0]
  ELSE [valid |-> Wrapped(Exact(k, x, y)) = Exact(k, x, y), data |-> Wrapped(Exact(k, x, y))]

DoubleResult(k, x, y) ==
  IF k = "/." /\ y = 0 THEN [valid |-> FALSE, data |-> 0]
  ELSE [valid |-> TRUE, data |-> IF NaN \in {x, y} THEN NaN ELSE Exact(k, x, y)]

\* AND and OR compute on the payloads, even on those under a NULL.
ConnectedValid(isAnd, x, y, xValid, yValid) ==
  (xValid /\ yValid) \/ (xValid /\ x # isAnd) \/ (yValid /\ y # isAnd)

Unary1(i) == IF Kind = "isnull" THEN [valid |-> TRUE, data |-> ~ Left.valid[i]]
             ELSE [valid |-> Left.valid[i], data |-> ~ Left.data[i]]
Connected(i) ==
  LET x == Left.data[i]
      y == Right.data[i]
      isAnd == Kind = "and"
  IN  [data |-> IF isAnd THEN x /\ y ELSE x \/ y,
       valid |-> ConnectedValid(isAnd, x, y, Left.valid[i], Right.valid[i])]
Compared(i) ==
  LET valid == Left.valid[i] /\ Right.valid[i]
  IN  [valid |-> valid, data |-> valid /\ Compare(Kind, Left.data[i], Right.data[i])]
Computed(i) ==
  IF ~ (Left.valid[i] /\ Right.valid[i]) THEN [valid |-> FALSE, data |-> 0]
  ELSE IF Left.type = "Int64" THEN Int64Result(Kind, Left.data[i], Right.data[i])
  ELSE DoubleResult(Kind, Left.data[i], Right.data[i])

\* The loops over the selection: the other rows stay as reset() left them.
FillSelected(cells) ==
  Fill([Out EXCEPT !.data = Overlay(@, [i \in DOMAIN cells |-> cells[i].data]),
                   !.valid = Overlay(@, [i \in DOMAIN cells |-> cells[i].valid])])

SelectedRows == Range(batch.rows)
UnaryNode == /\ InCall /\ Kind \in {"isnull", "not"}
             /\ FillSelected([i \in SelectedRows |-> Unary1(i)])
ConnectiveNode == /\ InCall /\ Kind \in Connectives
                  /\ FillSelected([i \in SelectedRows |-> Connected(i)])
ComparisonNode == /\ InCall /\ Kind \in Comparisons /\ ~ TakesLess
                  /\ FillSelected([i \in SelectedRows |-> Compared(i)])
ArithmeticNode == /\ InCall /\ Kind \in Arithmetic /\ ~ TakesAdd
                  /\ FillSelected([i \in SelectedRows |-> Computed(i)])

Return == /\ next = Len(nodes) + 1
          /\ next' = 0
          /\ batch' = NoBatch
          /\ UNCHANGED <<nodes, buffers, thrown>>

Next == \/ \E b \in Batches : Call(b)
        \/ ColumnNode \/ LiteralNode
        \/ LessThrows \/ LessConstant \/ AddDoubles
        \/ UnaryNode \/ ConnectiveNode \/ ComparisonNode \/ ArithmeticNode
        \/ Return

Spec == Init /\ [][Next]_vars

-----------------------------------------------------------------------------
\* Every buffer has payloads of its node's type and as many flags, of as many rows
\* as the batch has once its node has been evaluated.
TypeOK ==
  /\ next \in 0 .. Len(nodes) + 1
  /\ thrown \in BOOLEAN
  /\ \A n \in DOMAIN nodes :
       LET size == Len(buffers[n].data)
       IN  /\ ColumnFits(buffers[n], TypeOf(nodes[n].expression), size)
           /\ n < next /\ nodes[n].expression.kind # "column" => size = batch.size

\* Whatever paths the nodes take and whatever their buffers held before, the
\* column that evaluate() returns has the value of the expression on every
\* selected row: three-valued logic, and NULL for an overflow or a division by
\* zero (expression.cpp:107-151).
RowAt(i) == [c \in DOMAIN batch.columns |-> ValueAt(batch.columns[c], i)]
SelectedRowsEvaluated ==
  next = Len(nodes) + 1 =>
    \A i \in Range(batch.rows) : ValueAt(ColumnOf(Len(nodes)), i) = Evaluate(Tree, RowAt(i))

\* evaluate() throws for no batch that has a row: the kernel for column < literal
\* is taken only with a literal that is not NULL, a NULL literal making its column
\* have NULLs unless it is empty (expression.cpp:119-122).
ThrowsOnlyWithoutRows == thrown => batch.size = 0

-----------------------------------------------------------------------------
\* The invariant that makes them so.
Compiled == /\ \E e \in Roots : TypeOf(e) # "Invalid" /\ nodes = Code(e)
            /\ buffers = [n \in DOMAIN nodes |-> buffers[n]]
BatchGiven == next # 0 => batch \in Batches /\ DOMAIN batch.columns = ColumnsRead
\* The values of the nodes behind the one evaluate() is at; a NULL literal has
\* marked every row, selected or not.
NodesEvaluated ==
  \A n \in DOMAIN nodes : n < next =>
    /\ ColumnFits(ColumnOf(n), TypeOf(nodes[n].expression), batch.size)
    /\ \A i \in Range(batch.rows) : ValueAt(ColumnOf(n), i) = Evaluate(nodes[n].expression, RowAt(i))
    /\ nodes[n].expression.kind = "literal" /\ nodes[n].expression.value = Null
         => \A i \in 1 .. batch.size : ~ ColumnOf(n).valid[i]

IInv == TypeOK /\ Compiled /\ BatchGiven /\ NodesEvaluated /\ ThrowsOnlyWithoutRows
=============================================================================
