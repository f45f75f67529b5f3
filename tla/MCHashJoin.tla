----------------------------- MODULE MCHashJoin -----------------------------
(***************************************************************************)
(* Both inputs range over every sequence of at most MaxRows rows with two  *)
(* keys and NULL, so a key repeats on both sides while others are missing. *)
(***************************************************************************)
EXTENDS HashJoin, SequencesExt

CONSTANT MaxRows    \* bound: rows of each input
MCInputs == BoundedSeq(Keys \cup {NullKey}, MaxRows)
=============================================================================
