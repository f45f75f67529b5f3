------------------------------ MODULE MCColumn ------------------------------
(***************************************************************************)
(* Two columns of up to three rows and words of two bits: a range starts   *)
(* at either bit of a word and reaches into the next, in the source and in *)
(* the destination, and an arena of three bytes fills up.                  *)
(***************************************************************************)
EXTENDS Column

MCStrings == {<< >>, <<"a">>, <<"b", "a">>}
=============================================================================
