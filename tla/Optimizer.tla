----------------------------- MODULE Optimizer -----------------------------
(***************************************************************************)
(* Planning (src/plan.cpp): optimize() rewrites a logical plan, prunes the *)
(* columns nobody asks for and rewrites it again; lower() makes it a       *)
(* physical plan, giving each scan under filters a predicate by which its  *)
(* row groups may be skipped.  Estimates only order filters and pick the   *)
(* build side of a join, so both are left open here.                       *)
(*   A field is [id, name]; a row maps column ids to cells.                *)
(***************************************************************************)
EXTENDS Expressions, Sequences, SequencesExt, FiniteSetsExt, Functions

CONSTANTS Queries,   \* the logical plans given to optimize()
          Sources    \* the sources: [fields, rows] of each source name

VARIABLES query,     \* the plan as written
          plan,      \* the plan so far
          phase,     \* the pass done last
          reversed   \* whether estimates turn round the order of the filters

vars == <<query, plan, phase, reversed>>

-----------------------------------------------------------------------------
\* Expressions, which the passes make new ones of.
RECURSIVE ReferencedColumns(_)
ReferencedColumns(e) ==
  IF e.kind = "column" THEN {e.column} ELSE UNION {ReferencedColumns(o) : o \in Operands(e)}

RECURSIVE Evaluate(_, _)
Evaluate(e, row) == NodeValue(e, row, Evaluate(e.left, row), Evaluate(e.right, row))

\* Filter keeps a row whose predicate is valid and true.
Keeps(e, row) == Evaluate(e, row) = TRUE

-----------------------------------------------------------------------------
\* Plan nodes, as the functions of namespace logical build them.
FieldsOf(s) == Sources[s].fields
Ids(fields) == {f.id : f \in Range(fields)}
Scan(s) == [kind |-> "scan", source |-> s, columns |-> [i \in DOMAIN FieldsOf(s) |-> FieldsOf(s)[i].id]]
Filter(p, e) == [kind |-> "filter", left |-> p, predicate |-> e]
Project(p, x) == [kind |-> "project", left |-> p, expressions |-> x]  \* of [field, expression]
Aggregate(p, k, a) == [kind |-> "aggregate", left |-> p, keys |-> k, aggregates |-> a] \* of [output, input]
Join(l, r, lk, rk) == [kind |-> "join", left |-> l, right |-> r, keys |-> lk, rightKeys |-> rk]
Sort(p, k) == [kind |-> "sort", left |-> p, sortKeys |-> k]
Limit(p, n) == [kind |-> "limit", left |-> p, count |-> n]

FieldOf(fields, c) == CHOOSE f \in Range(fields) : f.id = c
FieldsFor(fields, columns) == [i \in DOMAIN columns |-> FieldOf(fields, columns[i])]

RECURSIVE OutputSchema(_)
OutputSchema(p) ==
  CASE p.kind = "scan" -> FieldsFor(FieldsOf(p.source), p.columns)
    [] p.kind = "project" -> [i \in DOMAIN p.expressions |-> p.expressions[i].field]
    [] p.kind = "aggregate" -> FieldsFor(OutputSchema(p.left), p.keys)
                                 \o [i \in DOMAIN p.aggregates |-> p.aggregates[i].output]
    [] p.kind = "join" -> OutputSchema(p.left) \o OutputSchema(p.right)
    [] OTHER -> OutputSchema(p.left)
OutputIds(p) == Ids(OutputSchema(p))

-----------------------------------------------------------------------------
\* simplify_expression: constants folded by the evaluator, decisive and neutral
\* operands and a double negation removed.
Constant(e) == e.kind = "literal" /\ e.value \in BOOLEAN
Other(a, b) == IF Constant(a) THEN b ELSE a
Value(a, b) == IF Constant(a) THEN a.value ELSE b.value
WithConstant(e, a, b) ==
  IF Value(a, b) = (e.kind = "or") THEN Literal(e.kind = "or") ELSE Other(a, b)

RECURSIVE Simplify(_)
Simplify(e) ==
  IF IsLeaf(e) THEN e
  ELSE LET a == Simplify(e.left)
           b == Simplify(e.right)
           result == IF IsBinary(e) THEN Binary(e.kind, a, b) ELSE Unary(e.kind, a)
       IN  CASE ReferencedColumns(result) = {} -> Literal(Evaluate(result, << >>))
             [] e.kind \in Connectives /\ a = b -> a
             [] e.kind \in Connectives /\ (Constant(a) \/ Constant(b)) -> WithConstant(e, a, b)
             [] e.kind = "not" /\ a.kind = "not" -> a.left
             [] OTHER -> result

RECURSIVE Conjuncts(_)
Conjuncts(e) == IF e.kind = "and" THEN Conjuncts(e.left) \o Conjuncts(e.right) ELSE <<e>>

\* The predicates of a chain of filters, outermost first, and what is under it.
RECURSIVE ChainPredicates(_)
ChainPredicates(p) ==
  IF p.kind # "filter" THEN << >>
  ELSE Conjuncts(Simplify(p.predicate)) \o ChainPredicates(p.left)
RECURSIVE UnderChain(_)
UnderChain(p) == IF p.kind = "filter" THEN UnderChain(p.left) ELSE p

\* Predicates that are TRUE and repeated ones go.
Unique(es) ==
  FoldLeft(LAMBDA u, e : IF e = Literal(TRUE) \/ e \in Range(u) THEN u ELSE Append(u, e),
           << >>, es)

IdentityIgnoringNames(p) ==   \* mutant: a renaming counts as an identity
  /\ Len(p.expressions) = Len(OutputSchema(p.left))
  /\ \A i \in DOMAIN p.expressions :
       /\ p.expressions[i].expression = Column(OutputSchema(p.left)[i].id)
       /\ p.expressions[i].field.id = OutputSchema(p.left)[i].id
IdentityProjection(p) ==
  /\ Len(p.expressions) = Len(OutputSchema(p.left))
  /\ \A i \in DOMAIN p.expressions :
       /\ p.expressions[i].expression = Column(OutputSchema(p.left)[i].id)
       /\ p.expressions[i].field = OutputSchema(p.left)[i]

\* The columns a projection passes on, and the expression in terms of its input.
Passed(p) == {x \in Range(p.expressions) : x.expression.kind = "column"}
RECURSIVE Substitute(_, _)
Substitute(e, passed) ==
  CASE e.kind = "column" -> (CHOOSE x \in passed : x.field.id = e.column).expression
    [] e.kind = "literal" -> e
    [] IsBinary(e) -> Binary(e.kind, Substitute(e.left, passed), Substitute(e.right, passed))
    [] OTHER -> Unary(e.kind, Substitute(e.left, passed))

\* rewrite(): may the predicate go below the node, to its left or right input?
GoesLeftThroughGroups(p, refs) ==   \* mutant: a global aggregate is no barrier
  CASE p.kind = "join" -> refs # {} /\ refs \subseteq OutputIds(p.left)
    [] p.kind = "sort" -> TRUE
    [] p.kind = "aggregate" -> refs \subseteq Range(p.keys)
    [] p.kind = "project" -> refs \subseteq {x.field.id : x \in Passed(p)}
    [] OTHER -> FALSE
GoesLeft(p, refs) ==
  CASE p.kind = "join" -> refs # {} /\ refs \subseteq OutputIds(p.left)
    [] p.kind = "sort" -> TRUE
    [] p.kind = "aggregate" -> refs # {} /\ refs \subseteq Range(p.keys)
    [] p.kind = "project" -> refs \subseteq {x.field.id : x \in Passed(p)}
    [] OTHER -> FALSE
GoesRight(p, refs) == p.kind = "join" /\ refs # {} /\ refs \subseteq OutputIds(p.right)
Below(p, e) == IF p.kind = "project" THEN Substitute(e, Passed(p)) ELSE e

\* The filters that stay, in the order the estimates give, innermost first.
Ordered(es) == IF reversed THEN Reverse(es) ELSE es

RECURSIVE Rewrite(_)
Push(state, e) ==
  LET p == state.child
      refs == ReferencedColumns(e)
  IN  CASE GoesLeft(p, refs) ->
             [state EXCEPT !.child.left = Rewrite(Filter(p.left, Below(p, e)))]
        [] ~ GoesLeft(p, refs) /\ GoesRight(p, refs) ->
             [state EXCEPT !.child.right = Rewrite(Filter(p.right, e))]
        [] OTHER -> [state EXCEPT !.remaining = Append(@, e)]
RewriteFilter(p) ==
  LET pushed == FoldLeft(Push, [child |-> UnderChain(p), remaining |-> << >>],
                         Unique(ChainPredicates(p)))
  IN  FoldLeft(Filter, pushed.child, Ordered(pushed.remaining))
RewriteProjection(p) ==
  LET q == [p EXCEPT !.expressions =
              [i \in DOMAIN @ |-> [@[i] EXCEPT !.expression = Simplify(@)]]]
  IN  IF IdentityProjection(q) THEN q.left ELSE q
RewriteInputsShort(p) ==     \* mutant: nothing is rewritten under a LIMIT
  CASE p.kind \in {"scan", "limit"} -> p
    [] p.kind = "join" -> [p EXCEPT !.left = Rewrite(@), !.right = Rewrite(@)]
    [] OTHER -> [p EXCEPT !.left = Rewrite(@)]
RewriteInputs(p) ==
  CASE p.kind = "scan" -> p
    [] p.kind = "join" -> [p EXCEPT !.left = Rewrite(@), !.right = Rewrite(@)]
    [] OTHER -> [p EXCEPT !.left = Rewrite(@)]
Rewrite(p) ==
  LET q == RewriteInputs(p)
  IN  CASE p.kind = "project" -> RewriteProjection(q)
        [] p.kind = "filter" -> RewriteFilter(q)
        [] OTHER -> q

-----------------------------------------------------------------------------
\* prune(): what a node needs from below to give the required columns.
Kept(p, required) ==
  CASE p.kind = "project" ->
         [p EXCEPT !.expressions = SelectSeq(@, LAMBDA x : x.field.id \in required)]
    [] p.kind = "aggregate" ->
         [p EXCEPT !.aggregates = SelectSeq(@, LAMBDA a : a.output.id \in required)]
    [] OTHER -> p
NoColumns(p) == {}                        \* mutant: sort keys not asked for
SortColumns(p) == {k.column : k \in Range(p.sortKeys)}
Needed(p, required) ==
  CASE p.kind = "project" ->
         UNION {ReferencedColumns(x.expression) : x \in Range(p.expressions)}
    [] p.kind = "aggregate" ->
         Range(p.keys) \cup ({a.input : a \in Range(p.aggregates)} \ {Null})
    [] p.kind = "filter" -> required \cup ReferencedColumns(p.predicate)
    [] p.kind = "sort" -> required \cup SortColumns(p)
    [] p.kind = "join" -> required \cup Range(p.keys) \cup Range(p.rightKeys)
    [] OTHER -> required

RECURSIVE Prune(_, _)
Prune(p, required) ==
  LET q == Kept(p, required)
      needed == Needed(q, required)
  IN  CASE p.kind = "scan" -> [p EXCEPT !.columns = SelectSeq(@, LAMBDA c : c \in required)]
        [] p.kind = "join" -> [p EXCEPT !.left = Prune(@, needed \cap OutputIds(@)),
                                        !.right = Prune(@, needed \cap OutputIds(@))]
        [] OTHER -> [q EXCEPT !.left = Prune(@, needed)]

-----------------------------------------------------------------------------
\* lower(): the predicates of the filters right above a scan, inner ones first,
\* become its pruning predicate too; the filters stay.
WithPruning(p, e) ==
  IF p.kind = "scan"
  THEN IF "pruning" \in DOMAIN p THEN [p EXCEPT !.pruning = Binary("and", @, e)]
       ELSE p @@ [pruning |-> e]
  ELSE p
ThroughAnything(p) == p.kind \in {"filter", "sort", "limit"}    \* mutant: the walk passes other nodes
ThroughFilters(p) == p.kind = "filter"
RECURSIVE PruneUnder(_, _)
PruneUnder(p, e) ==
  IF ThroughFilters(p) THEN [p EXCEPT !.left = PruneUnder(@, e)] ELSE WithPruning(p, e)
RECURSIVE Lower(_)
Lower(p) ==
  CASE p.kind = "scan" -> p
    [] p.kind = "join" -> [p EXCEPT !.left = Lower(@), !.right = Lower(@)]
    [] p.kind = "filter" -> [p EXCEPT !.left = PruneUnder(Lower(@), p.predicate)]
    [] OTHER -> [p EXCEPT !.left = Lower(@)]

-----------------------------------------------------------------------------
Init == /\ query \in Queries
        /\ plan = query
        /\ phase = "written"
        /\ reversed \in BOOLEAN

FirstRewrite == /\ phase = "written"
                /\ plan' = Rewrite(plan)
                /\ phase' = "rewritten"
                /\ UNCHANGED <<query, reversed>>

PruneColumns == /\ phase = "rewritten"
                /\ plan' = Prune(plan, OutputIds(query))
                /\ phase' = "pruned"
                /\ UNCHANGED <<query, reversed>>

SecondRewrite == /\ phase = "pruned"
                 /\ plan' = Rewrite(plan)
                 /\ phase' = "optimized"
                 /\ UNCHANGED <<query, reversed>>

\* lower() takes a plan that was optimized or not.
LowerPlan == /\ phase \in {"written", "optimized"}
             /\ plan' = Lower(plan)
             /\ phase' = "lowered"
             /\ UNCHANGED <<query, reversed>>

Next == FirstRewrite \/ PruneColumns \/ SecondRewrite \/ LowerPlan

Spec == Init /\ [][Next]_vars

-----------------------------------------------------------------------------
\* The rows a plan gives when every join stores its right, or its left, input
\* and a scan skips all the rows its pruning predicate lets it skip.
Groups(rows, keys) ==
  LET keyOf(r) == [i \in DOMAIN keys |-> r[keys[i]]]
      seen == FoldLeft(LAMBDA g, r : IF keyOf(r) \in Range(g) THEN g ELSE Append(g, keyOf(r)),
                       << >>, rows)
  IN  IF keys = << >> THEN << rows >>
      ELSE [g \in DOMAIN seen |-> SelectSeq(rows, LAMBDA r : keyOf(r) = seen[g])]

\* An aggregate is represented by COUNT, of its input or of all rows.
CountOf(rows, input) ==
  Len(IF input = Null THEN rows ELSE SelectSeq(rows, LAMBDA r : r[input] # Null))

\* A sort key is [column, ascending]; NULL comes last.
SortsBefore(r, s, keys) ==
  \E k \in DOMAIN keys :
    LET c == keys[k].column
    IN  /\ \A j \in 1 .. k - 1 : r[keys[j].column] = s[keys[j].column]
        /\ r[c] # s[c] /\ r[c] # Null
        /\ s[c] = Null \/ IF keys[k].ascending THEN r[c] < s[c] ELSE r[c] > s[c]
Sorted(rows, keys) ==
  LET ids == SortSeq([i \in DOMAIN rows |-> i],
                     LAMBDA i, j : \/ SortsBefore(rows[i], rows[j], keys)
                                   \/ ~ SortsBefore(rows[j], rows[i], keys) /\ i < j)
  IN  [i \in DOMAIN ids |-> rows[ids[i]]]

JoinsWith(p, l, r) ==
  \A i \in DOMAIN p.keys : l[p.keys[i]] # Null /\ l[p.keys[i]] = r[p.rightKeys[i]]
Joined(p, left, right, buildRight) ==
  IF buildRight
  THEN FlattenSeq([i \in DOMAIN left |->
         LET m == SelectSeq(right, LAMBDA r : JoinsWith(p, left[i], r))
         IN  [j \in DOMAIN m |-> left[i] @@ m[j]]])
  ELSE FlattenSeq([i \in DOMAIN right |->
         LET m == SelectSeq(left, LAMBDA l : JoinsWith(p, l, right[i]))
         IN  [j \in DOMAIN m |-> m[j] @@ right[i]]])

RECURSIVE Execute(_, _)
Execute(p, buildRight) ==
  LET input == Execute(p.left, buildRight)
  IN  CASE p.kind = "scan" ->
             LET rows == Sources[p.source].rows
                 kept == IF "pruning" \in DOMAIN p
                         THEN SelectSeq(rows, LAMBDA r : Keeps(p.pruning, r)) ELSE rows
             IN  [i \in DOMAIN kept |-> Restrict(kept[i], Range(p.columns))]
        [] p.kind = "filter" -> SelectSeq(input, LAMBDA r : Keeps(p.predicate, r))
        [] p.kind = "project" ->
             [i \in DOMAIN input |->
                [c \in OutputIds(p) |->
                   Evaluate((CHOOSE x \in Range(p.expressions) : x.field.id = c).expression,
                            input[i])]]
        [] p.kind = "aggregate" ->
             LET groups == Groups(input, p.keys)
             IN  [g \in DOMAIN groups |->
                    [c \in OutputIds(p) |->
                       IF c \in Range(p.keys) THEN groups[g][1][c]
                       ELSE CountOf(groups[g],
                              (CHOOSE a \in Range(p.aggregates) : a.output.id = c).input)]]
        [] p.kind = "join" ->
             Joined(p, input, Execute(p.right, buildRight), buildRight)
        [] p.kind = "sort" -> Sorted(input, p.sortKeys)
        [] p.kind = "limit" -> SubSeq(input, 1, Min({p.count, Len(input)}))

\* The result a caller sees: cells by position in the output schema.
Result(p, buildRight) ==
  LET rows == Execute(p, buildRight)
      schema == OutputSchema(p)
  IN  [i \in DOMAIN rows |-> [j \in DOMAIN schema |-> rows[i][schema[j].id]]]

-----------------------------------------------------------------------------
\* Every column a node names is in the schema of its input.
RECURSIVE WellFormed(_)
WellFormed(p) ==
  CASE p.kind = "scan" -> Range(p.columns) \subseteq Ids(FieldsOf(p.source))
    [] p.kind = "join" -> /\ WellFormed(p.left) /\ WellFormed(p.right)
                          /\ Range(p.keys) \subseteq OutputIds(p.left)
                          /\ Range(p.rightKeys) \subseteq OutputIds(p.right)
    [] p.kind = "limit" -> WellFormed(p.left)
    [] p.kind = "filter" -> /\ WellFormed(p.left)
                            /\ ReferencedColumns(p.predicate) \subseteq OutputIds(p.left)
    [] p.kind = "sort" -> /\ WellFormed(p.left)
                          /\ {k.column : k \in Range(p.sortKeys)} \subseteq OutputIds(p.left)
    [] OTHER -> WellFormed(p.left) /\ Needed(p, {}) \subseteq OutputIds(p.left)

TypeOK == /\ phase \in {"written", "rewritten", "pruned", "optimized", "lowered"}
          /\ WellFormed(plan)

\* No pass changes what the query is called to answer: the fields, their names
\* and their order.
SchemaUnchanged == OutputSchema(plan) = OutputSchema(query)

\* No pass changes the rows or their order: not with NULLs, a filter moved below
\* a sort, a join, a grouping or a renaming, nor above a limit or a global
\* aggregate where it must stay; whatever order the estimates give the filters.
ResultUnchanged ==
  phase # "lowered" => \A side \in BOOLEAN : Result(plan, side) = Result(query, side)

\* What a lowered plan lets its scans skip is never part of the answer.
SkippedRowsNotMissed ==
  phase = "lowered" => \A side \in BOOLEAN : Result(plan, side) = Result(query, side)

\* One node to which no rule of rewrite() applies any more.
Settled(p) ==
  CASE p.kind = "project" -> ~ IdentityProjection(p)
    [] p.kind = "filter" ->
         /\ p.predicate # Literal(TRUE)
         /\ p.predicate \notin Range(ChainPredicates(p.left))
         /\ LET under == UnderChain(p)
                refs == ReferencedColumns(p.predicate)
            IN  ~ GoesLeft(under, refs) /\ ~ GoesRight(under, refs)
    [] OTHER -> TRUE
RECURSIVE AllSettled(_)
AllSettled(p) ==
  CASE p.kind = "scan" -> TRUE
    [] p.kind = "join" -> AllSettled(p.left) /\ AllSettled(p.right)
    [] OTHER -> Settled(p) /\ AllSettled(p.left)

\* optimize() leaves nothing for another round: every predicate is as far down
\* as the rules take it, and no true or repeated filter or identity projection
\* is left, those that pruning brought about included.
RulesExhausted == phase = "optimized" => AllSettled(plan)
=============================================================================
