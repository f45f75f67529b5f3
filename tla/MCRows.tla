------------------------------- MODULE MCRows -------------------------------
(***************************************************************************)
(* Two columns, so that a throw can part them; batches of three rows, so   *)
(* that a filtered batch can be filtered again and five source rows go     *)
(* into a second batch; and two throws, so that another could hide what    *)
(* the first one left.                                                     *)
(***************************************************************************)
EXTENDS Rows
=============================================================================
