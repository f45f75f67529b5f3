----------------------------- MODULE MCPipeline -----------------------------
(***************************************************************************)
(* Two row groups of up to three rows, or three groups with four rows      *)
(* together: with batches of two rows a batch spans groups and a group     *)
(* spans batches.                                                          *)
(***************************************************************************)
EXTENDS Pipeline

TablesUpTo(groups, rows) == BoundedSeq(BoundedSeq(BOOLEAN, rows) \ {<< >>}, groups)
MCTables == TablesUpTo(2, 3) \cup {t \in TablesUpTo(3, 2) : Len(FlattenSeq(t)) <= 4}
=============================================================================
