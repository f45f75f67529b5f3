--------------------------- MODULE MCHashAggregate ---------------------------
(***************************************************************************)
(* An INT64 column three bits wide (-4 to 3): four rows overflow a COUNT   *)
(* and 3 + 1 a SUM.  A DOUBLE column with NaN.  Three groups, which take   *)
(* two batches.                                                            *)
(***************************************************************************)
EXTENDS HashAggregate

CONSTANTS k1, k2, k3

RowsOver(keys, values) == [key : keys, value : values]
Columns(type, kinds, rows) == {[type |-> type, kinds |-> kinds, rows |-> r] : r \in rows}

MCInputs ==
  Columns("int", <<"sum", "rows", "count", "min", "max">>,
          BoundedSeq(RowsOver({k1, k2}, {-4, 1, 3, Null}), 3)
            \cup TupleOf(RowsOver({k1}, {1, 3, Null}), 4))
    \cup Columns("double", <<"sum", "count", "min", "max">>,
                 BoundedSeq(RowsOver({k1, k2}, {-1, 2, NaN, Null}), 3))
    \cup Columns("int", <<"count", "max">>, TupleOf(RowsOver({k1, k2, k3}, {2, Null}), 3))
=============================================================================
