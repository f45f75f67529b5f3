---------------------------- MODULE PullContract ----------------------------
(***************************************************************************)
(* What every vqe::Operator promises the caller of next(Batch&): the rows  *)
(* of its result, once each and in one order, in nonempty batches of at    *)
(* most the execution batch size, and then, after finitely many calls,     *)
(* false for ever.  A call may throw instead; after that only the rows     *)
(* already handed over stand.                                              *)
(***************************************************************************)
EXTENDS Naturals, Sequences, SequencesExt

CONSTANT Capacity    \* options_.batch_size

VARIABLES answer,    \* the rows of the operator's result, in order
          delivered, \* the rows of the batches returned so far
          verdict    \* what the latest call said: "more", "end" or "threw"

Init == /\ delivered = << >>
        /\ verdict = "more"

\* next returns true: one batch, the next rows of the answer.
Deliver == /\ verdict = "more"
           /\ Len(delivered') - Len(delivered) \in 1 .. Capacity
           /\ IsPrefix(delivered, delivered')
           /\ IsPrefix(delivered', answer)
           /\ UNCHANGED <<answer, verdict>>

\* next returns false, when and only when every row has been delivered.
Finish == /\ verdict = "more"
          /\ verdict' = "end"
          /\ delivered = answer
          /\ UNCHANGED <<answer, delivered>>

\* next throws, and hands over nothing.
Throw == /\ verdict = "more"
         /\ verdict' = "threw"
         /\ UNCHANGED <<answer, delivered>>

\* A caller that goes on after an exception: no row is taken back.
Salvage == /\ verdict = "threw"
           /\ IsPrefix(delivered, delivered')
           /\ UNCHANGED <<answer, verdict>>

Next == Deliver \/ Finish \/ Throw \/ Salvage

Safety == Init /\ [][Next]_<<answer, delivered, verdict>>

\* A caller that keeps pulling is told the end, unless something threw.
Ends == <>(verdict # "more")

Spec == Safety /\ Ends
=============================================================================
