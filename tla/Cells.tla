-------------------------------- MODULE Cells --------------------------------
(***************************************************************************)
(* What vqe::Column promises those who fill and read columns: a sequence   *)
(* of cells, each a string and a flag, FALSE for NULL.  Column.tla, one    *)
(* arena of bytes with offsets and packed flags, is shown to implement it. *)
(***************************************************************************)
EXTENDS Naturals, Sequences

CONSTANTS Objects,   \* the columns of a program
          Strings,   \* the strings a caller appends
          MaxRows    \* bound: rows of a column

VARIABLE cells       \* the cells of each column

Init == cells = [o \in Objects |-> << >>]

\* reset(n): empty strings that are not NULL.
Reset(o, n) ==
  cells' = [cells EXCEPT ![o] = [i \in 1 .. n |-> [string |-> << >>, valid |-> TRUE]]]

SetValid(o, i, valid) == cells' = [cells EXCEPT ![o][i].valid = valid]

AppendCell(o, cell) == cells' = [cells EXCEPT ![o] = Append(@, cell)]

\* A range of cells of another column goes to the end, in one piece.
AppendRange(o, source, first, last) ==
  cells' = [cells EXCEPT ![o] = @ \o SubSeq(cells[source], first, last)]

Next ==
  \E o \in Objects :
    \/ \E n \in 0 .. MaxRows : Reset(o, n)
    \/ \E valid \in BOOLEAN : \/ \E i \in DOMAIN cells[o] : SetValid(o, i, valid)
                              \/ \E s \in Strings \cup {<< >>} : AppendCell(o, [string |-> s, valid |-> valid])
    \/ \E source \in Objects \ {o} : \E first, last \in DOMAIN cells[source] :
         AppendRange(o, source, first, last)

Spec == Init /\ [][Next]_cells
=============================================================================
