----------------------------- MODULE MCValidity -----------------------------
(***************************************************************************)
(* Two objects and words of three bits: four rows start at any bit of a    *)
(* word and reach into the next, in the source and in the destination.     *)
(***************************************************************************)
EXTENDS Validity
=============================================================================
