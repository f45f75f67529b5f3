------------------------------- MODULE Column -------------------------------
(***************************************************************************)
(* vqe::Column (include/vqe/vector.hpp, src/vector.cpp) of strings: every  *)
(* string in one arena of bytes, the offsets where rows begin and end, and *)
(* the NULL flags of Validity.tla.  A row of another type is a string of   *)
(* one byte.  Rows are numbered from 0 as in Validity.tla.                 *)
(***************************************************************************)
EXTENDS Integers, Sequences

CONSTANTS Objects, Width, MaxRows,   \* of Validity.tla
          Strings,                   \* strings a caller appends
          ArenaLimit                 \* the largest offset, 2^32 - 1 in the code

ASSUME ColumnAssumption == /\ Width \in Nat \ {0}
                           /\ {MaxRows, ArenaLimit} \subseteq Nat
                           /\ Strings \subseteq Seq(STRING)     \* of bytes

VARIABLES bytes, offsets,                    \* StringBuffer of each column
          bits, size, nulls, preset, copy    \* Validity of each column

Flags == INSTANCE Validity WITH Mixed <- FALSE

strings == <<bytes, offsets>>
vars == <<bytes, offsets, bits, size, nulls, preset, copy>>

Truncated(x) == x % (ArenaLimit + 1)
FitsAlways(o, n) == TRUE              \* mutant: the arena may exceed its offsets
Fits(o, n) == n <= ArenaLimit - Len(bytes[o])

\* string_at()
StringAt(o, row) == SubSeq(bytes[o], offsets[o][row + 1] + 1, offsets[o][row + 2])

Init == /\ Flags!Init
        /\ bytes = [o \in Objects |-> << >>]
        /\ offsets = [o \in Objects |-> <<0>>]

-----------------------------------------------------------------------------
Reset(o, n) ==
  /\ Flags!Reset(o, n, TRUE)
  /\ offsets' = [offsets EXCEPT ![o] = [i \in 1 .. n + 1 |-> 0]]
  /\ bytes' = [bytes EXCEPT ![o] = << >>]

\* validity().set(), as the evaluator uses it.
SetValid(o, row, valid) == Flags!Set(o, row, valid) /\ UNCHANGED strings

\* append_string(): length_error, and no change, when the arena is full.
AppendString(o, s, valid) ==
  /\ Fits(o, Len(s))
  /\ bytes' = [bytes EXCEPT ![o] = @ \o s]
  /\ offsets' = [offsets EXCEPT ![o] = Append(@, Truncated(Len(bytes[o]) + Len(s)))]
  /\ Flags!Append_(o, valid)

AppendNull(o) == AppendString(o, << >>, FALSE)

AppendFrom(o, source, row) ==
  /\ source # o /\ row < size[source]
  /\ AppendString(o, StringAt(source, row), Flags!IsValid(source, row))

\* append_range(): the bytes in one piece, the offsets moved from where the range
\* begins in the source to where it lands, then the flags, a word at a time.
Landed(base, first, offset) == base + offset - first

AppendRange(o, source, start, count) ==
  LET first == offsets[source][start + 1]
      last == offsets[source][start + count + 1]
      base == Len(bytes[o])
  IN  /\ Flags!StartCopy(o, source, start, count)
      /\ Fits(o, last - first)
      /\ bytes' = [bytes EXCEPT ![o] = @ \o SubSeq(bytes[source], first + 1, last)]
      /\ offsets' = [offsets EXCEPT ![o] = @ \o
           [i \in 1 .. count |-> Truncated(Landed(base, first, offsets[source][start + i + 1]))]]

AppendFlags == Flags!CopyChunk /\ UNCHANGED strings

Call == \E o \in Objects :
          \/ \E n \in 0 .. MaxRows : Reset(o, n)
          \/ \E row \in 0 .. MaxRows - 1, valid \in BOOLEAN : SetValid(o, row, valid)
          \/ \E s \in Strings, valid \in BOOLEAN : AppendString(o, s, valid)
          \/ AppendNull(o)
          \/ \E source \in Objects, start \in 0 .. MaxRows - 1 :
               \/ AppendFrom(o, source, start)
               \/ \E count \in 1 .. MaxRows - start : AppendRange(o, source, start, count)

Next == Call \/ AppendFlags

Spec == Init /\ [][Next]_vars

-----------------------------------------------------------------------------
TypeOK == /\ Flags!TypeOK
          /\ bytes \in [Objects -> Seq(STRING)]
          /\ offsets \in [Objects -> Seq(0 .. ArenaLimit)]
          /\ \A o \in Objects :
               /\ Len(bytes[o]) <= ArenaLimit
               /\ Len(offsets[o]) = 1 + IF Flags!Idle \/ copy.into # o THEN size[o]
                                        ELSE size[o] + copy.count
               /\ \A i, j \in 1 .. Len(offsets[o]) : i <= j => offsets[o][i] <= offsets[o][j]
               /\ offsets[o][1] = 0
               /\ offsets[o][Len(offsets[o])] = Len(bytes[o])

\* The count of NULLs is exact however rows arrive: all_valid() sends the evaluator
\* and append_range() down paths that read no flag (vector.cpp:34-67).
NullCountExact == Flags!NullCountExact

\* The cells a caller sees; those of a copy in progress are not there yet.
CellsOf(o) == [i \in 1 .. IF ~ Flags!Idle /\ copy.into = o THEN copy.base ELSE size[o] |->
                 [string |-> StringAt(o, i - 1), valid |-> Flags!IsValid(o, i - 1)]]
Abstract == INSTANCE Cells WITH cells <- [o \in Objects |-> CellsOf(o)]

\* Arena, offsets and packed words are a sequence of cells: an append disturbs no
\* row before it, and a range copied out of the middle of a column arrives whole,
\* in order and with its flags (vector.cpp:97-160).
ImplementsCells == Abstract!Spec

-----------------------------------------------------------------------------
\* What makes the invariants above inductive.

\* append() trusts that the bits behind the last row are zero.
BitsBehindClear ==
  \A o \in Objects : ~ preset[o] =>
    \A i \in size[o] .. Width * Len(bits[o]) - 1 : ~ Flags!IsValid(o, i)

\* A range under way: the strings of all its rows have landed, and the flags of
\* those behind which the next word's worth starts.
RangeUnderWay ==
  ~ Flags!Idle =>
    /\ copy.into # copy.source
    /\ ~ preset[copy.into]
    /\ size[copy.into] + copy.count <= MaxRows
    /\ copy.base <= size[copy.into]
    /\ copy.start = copy.first + (size[copy.into] - copy.base)
    /\ \A j \in copy.base .. size[copy.into] - 1 :
         Flags!IsValid(copy.into, j) = Flags!IsValid(copy.source, copy.first + (j - copy.base))
    /\ \A j \in copy.base .. size[copy.into] + copy.count - 1 :
         StringAt(copy.into, j) = StringAt(copy.source, copy.first + (j - copy.base))

\* After any calls, and between the chunks of a copy: counts are exact, no bit behind
\* the rows is set, and of a range under way what has landed is what was there.
IInv == TypeOK /\ NullCountExact /\ BitsBehindClear /\ RangeUnderWay
=============================================================================
