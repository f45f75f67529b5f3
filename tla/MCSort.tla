------------------------------- MODULE MCSort -------------------------------
(***************************************************************************)
(* Up to four rows of one cell, and up to three rows of two: NULL and NaN  *)
(* with one or two numbers, under every direction and place of NULL (the   *)
(* second of two keys ascends).  With three rows, of any three of the four *)
(* cells, a comparator that is not transitive shows it; with four, two     *)
(* tie, and two batches are full.                                          *)
(***************************************************************************)
EXTENDS Sort

Key == [ascending : BOOLEAN, nullsFirst : BOOLEAN]
MCSortKeys == TupleOf(Key, 1) \cup {<<k, l>> : k \in Key, l \in [ascending : {TRUE}, nullsFirst : BOOLEAN]}

OneCell == BoundedSeq(TupleOf({1, 2, NaN, Null}, 1), 3) \cup TupleOf(TupleOf({1, NaN, Null}, 1), 4)
TwoCells == BoundedSeq({<<x, y>> : x \in {1, NaN, Null}, y \in {1, Null}}, 3)
MCInputs == OneCell \cup TwoCells
=============================================================================
