---------------------------- MODULE MCOptimizer ----------------------------
(***************************************************************************)
(* Every query of three nodes over a scan of two columns, each of them a   *)
(* filter, projection, grouping, join, sort or limit on the first or last  *)
(* column below it, and a filter on top of it all.                         *)
(***************************************************************************)
EXTENDS Optimizer

Field(c) == [id |-> c, name |-> c]
AB(a, b) == [c \in {"a", "b"} |-> IF c = "a" THEN a ELSE b]
SourceA == [fields |-> <<Field("a"), Field("b")>>,
            rows |-> <<AB(2, 1), AB(1, Null), AB(Null, 1), AB(1, 2), AB(1, 1)>>]
Right(n, x, y) == ("c" \o n :> x) @@ ("d" \o n :> y)
SourceC(n) == [fields |-> <<Field("c" \o n), Field("d" \o n)>>,
               rows |-> <<Right(n, 1, 2), Right(n, Null, 1), Right(n, 1, 1), Right(n, 2, Null)>>]
MCSources == [s \in {"A", "1", "2", "3"} |-> IF s = "A" THEN SourceA ELSE SourceC(s)]

FirstColumn(p) == Column(OutputSchema(p)[1].id)
LastColumn(p) == Column(OutputSchema(p)[Len(OutputSchema(p))].id)
Small(c) == Binary("<", c, Literal(2))

\* A conjunction over both ends, a predicate of each end (one wrapped up in
\* redundancies, one that accepts NULL), and one without a column, which is NULL.
Predicates(p) ==
  {Binary("and", Small(FirstColumn(p)), Unary("not", Unary("isnull", LastColumn(p)))),
   Unary("not", Unary("not", Binary("and", Literal(TRUE), Small(FirstColumn(p))))),
   Binary("or", Unary("isnull", LastColumn(p)), Binary("=", LastColumn(p), Literal(1))),
   Binary("or", Binary("=", Binary("/", Literal(1), Literal(0)), Literal(1)), Literal(FALSE))}

Renamed(p, n) == [i \in DOMAIN OutputSchema(p) |->
                    [field |-> [id |-> OutputSchema(p)[i].id, name |-> n],
                     expression |-> Column(OutputSchema(p)[i].id)]]
Identity(p) == [i \in DOMAIN OutputSchema(p) |->
                  [field |-> OutputSchema(p)[i], expression |-> Column(OutputSchema(p)[i].id)]]
Computed(p, n) == <<[field |-> Field("p" \o n), expression |-> LastColumn(p)],
                    [field |-> Field("q" \o n), expression |-> FirstColumn(p)],
                    [field |-> Field("r" \o n), expression |-> Literal(1)]>>
FirstOnly(p) == SubSeq(Identity(p), 1, 1)

Filters(p) == {Filter(p, e) : e \in Predicates(p)}
Over(p, n) ==
  Filters(p) \cup
  {Project(p, x) : x \in {Identity(p), Renamed(p, n), Computed(p, n), FirstOnly(p)}} \cup
  {Aggregate(p, <<FirstColumn(p).column>>, <<[output |-> Field("n" \o n), input |-> LastColumn(p).column]>>),
   Aggregate(p, << >>, <<[output |-> Field("n" \o n), input |-> Null]>>),
   Join(p, Scan(n), <<FirstColumn(p).column>>, <<"c" \o n>>),
   Sort(p, <<[column |-> LastColumn(p).column, ascending |-> FALSE]>>),
   Limit(p, 2)}

MCQueries ==
  LET One == Over(Scan("A"), "1")
      Two == UNION {Over(p, "2") : p \in One}
      Three == UNION {Over(p, "3") : p \in Two}
  IN  Three \cup UNION {Filters(p) : p \in Two}
=============================================================================
