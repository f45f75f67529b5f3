----------------------------- MODULE MCHashIndex -----------------------------
(***************************************************************************)
(* A table that starts with two buckets, so that the second and the third  *)
(* key make it grow.  The hashes give a full collision (a and b), keys that *)
(* part when the array doubles (7, 3, 15) and probes that wrap around, onto *)
(* the home of another key (e).  Rows beyond the fifth repeat a key.       *)
(***************************************************************************)
EXTENDS HashIndex, TLC

CONSTANTS a, b, c, d, e

MCKeys == {a, b, c, d, e}
MCHashes == a :> 7 @@ b :> 7 @@ c :> 3 @@ d :> 15 @@ e :> 0
=============================================================================
