------------------------------ MODULE Validity ------------------------------
(***************************************************************************)
(* vqe::Validity (include/vqe/vector.hpp, src/vector.cpp): the NULL flags  *)
(* of a column, packed `Width' to a word, with a running count of NULLs.   *)
(* Rows and bits are numbered from 0; a word is the set of its one bits.   *)
(* append_range copies a word-sized chunk per step.                        *)
(***************************************************************************)
EXTENDS Integers, Sequences, FiniteSets, FiniteSetsExt

CONSTANTS Objects,   \* the Validity objects of a program
          Width,     \* bits of a word, 64 in the code
          Mixed,     \* may rows that reset(n) made be followed by appended ones?
          MaxRows    \* bound: rows of an object

VARIABLES bits, size, nulls,  \* bits_, size_ and null_count_ of each object
          preset,             \* whether reset(n) with n > 0 made the rows
          copy                \* the append_range in progress

vars == <<bits, size, nulls, preset, copy>>

Bits == 0 .. Width - 1
AllOnes == Bits
NoCopy == [into |-> "none"]
Idle == copy = NoCopy

WordsFor(n) == (n + Width - 1) \div Width
WordOf(i) == i \div Width + 1
BitOf(i) == i % Width
IsValid(o, i) == BitOf(i) \in bits[o][WordOf(i)]
AllValid(o) == nulls[o] = 0

ShiftLeft(word, s) == {b + s : b \in word} \cap Bits
ShiftRight(word, s) == {b - s : b \in word} \cap Bits
Ones(n) == 0 .. n - 1

Init == /\ bits = [o \in Objects |-> << >>]
        /\ size = [o \in Objects |-> 0]
        /\ nulls = [o \in Objects |-> 0]
        /\ preset = [o \in Objects |-> FALSE]
        /\ copy = NoCopy

-----------------------------------------------------------------------------
\* reset(n, valid): every bit of every word is written.
Reset(o, n, valid) ==
  /\ Idle
  /\ size' = [size EXCEPT ![o] = n]
  /\ nulls' = [nulls EXCEPT ![o] = IF valid THEN 0 ELSE n]
  /\ bits' = [bits EXCEPT ![o] = [w \in 1 .. WordsFor(n) |-> IF valid THEN AllOnes ELSE {}]]
  /\ preset' = [preset EXCEPT ![o] = n > 0]
  /\ UNCHANGED copy

\* set() on a row of the given words: the new words and the new count.
WithBit(words, i, valid) ==
  [words EXCEPT ![WordOf(i)] = IF valid THEN @ \cup {BitOf(i)} ELSE @ \ {BitOf(i)}]
CountAfter(words, n, i, valid) ==
  IF (BitOf(i) \in words[WordOf(i)]) = valid THEN n ELSE IF valid THEN n - 1 ELSE n + 1

Set(o, i, valid) ==
  /\ Idle
  /\ i < size[o]
  /\ bits' = [bits EXCEPT ![o] = WithBit(@, i, valid)]
  /\ nulls' = [nulls EXCEPT ![o] = CountAfter(bits[o], @, i, valid)]
  /\ UNCHANGED <<size, preset, copy>>

Appendable(o) == Mixed \/ ~ preset[o]

\* append(valid): the row counts as NULL until set() has written its bit.
Append_(o, valid) ==
  /\ Idle
  /\ Appendable(o)
  /\ size[o] < MaxRows
  /\ LET words == IF size[o] % Width = 0 THEN Append(bits[o], {}) ELSE bits[o]
     IN  /\ bits' = [bits EXCEPT ![o] = WithBit(words, size[o], valid)]
         /\ nulls' = [nulls EXCEPT ![o] = CountAfter(words, @ + 1, size[o], valid)]
  /\ size' = [size EXCEPT ![o] = @ + 1]
  /\ UNCHANGED <<preset, copy>>

-----------------------------------------------------------------------------
\* append_range(source, start, count): room for all the rows first.
StartCopy(o, source, start, count) ==
  /\ Idle
  /\ Appendable(o)
  /\ source # o
  /\ count > 0 /\ start + count <= size[source]
  /\ size[o] + count <= MaxRows
  /\ bits' = [bits EXCEPT ![o] =
                [w \in 1 .. WordsFor(size[o] + count) |-> IF w <= Len(@) THEN @[w] ELSE {}]]
  /\ copy' = [into |-> o, source |-> source, start |-> start, count |-> count,
              base |-> size[o], first |-> start]
  /\ UNCHANGED <<size, nulls, preset>>

\* The bits of the source from row `start' on: the rest of their word and, when
\* more are wanted, the beginning of the next one.
OneWord(words, start, take) ==     \* mutant: the next word forgotten
  ShiftRight(words[WordOf(start)], BitOf(start)) \cap Ones(take)
Gathered(words, start, take) ==
  LET shift == BitOf(start)
      value == ShiftRight(words[WordOf(start)], shift)
      more == IF shift # 0 /\ take > Width - shift
              THEN ShiftLeft(words[WordOf(start) + 1], Width - shift) ELSE {}
  IN  (value \cup more) \cap Ones(take)

\* One turn of the loop: as many rows as the destination's word has room for.
Merged(word, mask, value, shift) ==
  (word \ ShiftLeft(mask, shift)) \cup ShiftLeft(value, shift)

Room(shift) == Width - shift

NullsMissed(take, value) == 0              \* mutant: NULLs of a range not counted
NullsTaken(take, value) == take - Cardinality(value)

CopyChunk ==
  /\ ~ Idle
  /\ LET o == copy.into
         shift == BitOf(size[o])
         take == Min({copy.count, Room(shift)})
         value == IF AllValid(copy.source) THEN Ones(take)
                  ELSE Gathered(bits[copy.source], copy.start, take)
     IN  /\ bits' = [bits EXCEPT ![o][WordOf(size[o])] = Merged(@, Ones(take), value, shift)]
         /\ nulls' = [nulls EXCEPT ![o] = @ + NullsTaken(take, value)]
         /\ size' = [size EXCEPT ![o] = @ + take]
         /\ copy' = IF copy.count = take THEN NoCopy
                    ELSE [copy EXCEPT !.start = @ + take, !.count = @ - take]
  /\ UNCHANGED preset

Call == \E o \in Objects :
          \/ \E valid \in BOOLEAN : \/ \E n \in 0 .. MaxRows : Reset(o, n, valid)
                                    \/ \E i \in 0 .. MaxRows - 1 : Set(o, i, valid)
                                    \/ Append_(o, valid)
          \/ \E source \in Objects, start \in 0 .. MaxRows, count \in 1 .. MaxRows :
               StartCopy(o, source, start, count)

Next == Call \/ CopyChunk

Spec == Init /\ [][Next]_vars

-----------------------------------------------------------------------------
TypeOK == /\ bits \in [Objects -> Seq(SUBSET Bits)]
          /\ size \in [Objects -> 0 .. MaxRows]
          /\ nulls \in [Objects -> 0 .. MaxRows]
          /\ \A o \in Objects :
               /\ nulls[o] <= size[o]
               /\ Len(bits[o]) = WordsFor(IF ~ Idle /\ copy.into = o
                                          THEN size[o] + copy.count ELSE size[o])
          /\ preset \in [Objects -> BOOLEAN]
          /\ \/ Idle
             \/ /\ copy \in [into : Objects, source : Objects, start : Nat, count : Nat \ {0},
                             base : Nat, first : Nat]
                /\ copy.start + copy.count <= size[copy.source]

\* null_count() is the number of NULL rows: all_valid() lets kernels skip the
\* validity check of every row, and append_range skip reading the source.
NullCountExact ==
  \A o \in Objects : nulls[o] = Cardinality({i \in 0 .. size[o] - 1 : ~ IsValid(o, i)})
=============================================================================
