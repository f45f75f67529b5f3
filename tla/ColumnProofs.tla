---------------------------- MODULE ColumnProofs ----------------------------
(***************************************************************************)
(* Proofs about Column for every word width, any number of columns and     *)
(* rows, any strings and any arena: null counts are exact, the arena and   *)
(* its offsets fit together, and the packed representation implements the  *)
(* sequence of cells of Cells.tla.                                         *)
(***************************************************************************)
EXTENDS Column, SequenceTheorems, FiniteSetTheorems, TLAPS

-----------------------------------------------------------------------------
\* The constants.
LEMMA Constants_ ==
  /\ Width \in Nat /\ Width >= 1 /\ Width # 0 /\ MaxRows \in Nat /\ ArenaLimit \in Nat
  /\ Strings \subseteq Seq(STRING)
  BY ColumnAssumption

\* Row i is bit i % Width of word i \div Width + 1.
LEMMA DivMod ==
  ASSUME NEW i \in Nat
  PROVE  /\ i = Width * (i \div Width) + (i % Width)
         /\ i % Width \in 0 .. Width - 1 /\ i \div Width \in Nat
<1>1. Width \in Nat \ {0}
  BY ColumnAssumption
<1>2. QED BY <1>1, Z3

LEMMA Located ==
  ASSUME NEW q \in Nat, NEW r \in 0 .. Width - 1
  PROVE  (Width * q + r) \div Width = q /\ (Width * q + r) % Width = r
<1>1. Width \in Nat \ {0}
  BY ColumnAssumption
<1>2. QED BY <1>1, Z3

\* The word and the bit of a row.
LEMMA WordAndBit ==
  ASSUME NEW i \in Nat
  PROVE  /\ Flags!WordOf(i) \in Nat /\ Flags!WordOf(i) >= 1
         /\ Flags!BitOf(i) \in 0 .. Width - 1 /\ Flags!BitOf(i) \in Nat
         /\ Flags!BitOf(i) \in Flags!Bits
         /\ i = Width * (Flags!WordOf(i) - 1) + Flags!BitOf(i)
<1>1. Flags!WordOf(i) = i \div Width + 1 /\ Flags!BitOf(i) = i % Width
  BY DEF Flags!WordOf, Flags!BitOf
<1>2. i \div Width \in Nat /\ i % Width \in 0 .. Width - 1 /\ Width \in Nat
  BY DivMod, Constants_
<1>3. i % Width \in Nat
  BY <1>2
<1>4. i = Width * (i \div Width) + (i % Width)
  BY DivMod
<1>5. (i \div Width + 1) - 1 = i \div Width
  BY <1>2
<1>6. QED BY <1>1, <1>2, <1>3, <1>4, <1>5 DEF Flags!Bits

\* A row with a word and a bit.
LEMMA RowAt ==
  ASSUME NEW i \in Nat, NEW w \in Nat, w >= 1, NEW b \in 0 .. Width - 1,
         i = Width * (w - 1) + b
  PROVE  Flags!WordOf(i) = w /\ Flags!BitOf(i) = b
<1>1. w - 1 \in Nat
  OBVIOUS
<1>2. i \div Width = w - 1 /\ i % Width = b
  BY <1>1, Located
<1>3. QED BY <1>2 DEF Flags!WordOf, Flags!BitOf

\* No two rows share a bit.
LEMMA OneBitEach ==
  ASSUME NEW i \in Nat, NEW j \in Nat,
         Flags!WordOf(i) = Flags!WordOf(j), Flags!BitOf(i) = Flags!BitOf(j)
  PROVE  i = j
  BY WordAndBit

\* The rows that k words have room for.
LEMMA InWords ==
  ASSUME NEW i \in Nat, NEW k \in Nat
  PROVE  Flags!WordOf(i) <= k <=> i < Width * k
<1>1. /\ Flags!WordOf(i) \in Nat /\ Flags!WordOf(i) >= 1 /\ Flags!BitOf(i) \in 0 .. Width - 1
      /\ i = Width * (Flags!WordOf(i) - 1) + Flags!BitOf(i)
  BY WordAndBit
<1> DEFINE w == Flags!WordOf(i)
           b == Flags!BitOf(i)
<1>2. w \in Nat /\ w >= 1 /\ b \in 0 .. Width - 1 /\ i = Width * (w - 1) + b
  BY <1>1
<1> HIDE DEF w, b
<1>3. Width \in Nat /\ Width >= 1
  BY Constants_
<1>4. w <= k => i < Width * k
  <2> SUFFICES ASSUME w <= k PROVE i < Width * k
    OBVIOUS
  <2>1. Width * w <= Width * k
    BY <1>2, <1>3, Z3
  <2>2. i < Width * w
    BY <1>2, <1>3, Z3
  <2>3. Width * w \in Nat /\ Width * k \in Nat
    BY <1>2, <1>3
  <2>4. QED BY <2>1, <2>2, <2>3
<1>5. w > k => ~ (i < Width * k)
  <2> SUFFICES ASSUME w > k PROVE i >= Width * k
    <3>1. Width * k \in Nat
      BY <1>3
    <3>2. QED BY <3>1
  <2>1. Width * (w - 1) >= Width * k
    BY <1>2, <1>3, Z3
  <2>2. i >= Width * (w - 1)
    BY <1>2, <1>3, Z3
  <2>3. Width * (w - 1) \in Int /\ Width * k \in Int
    BY <1>2, <1>3
  <2>4. QED BY <2>1, <2>2, <2>3
<1>6. QED BY <1>2, <1>4, <1>5 DEF w

\* The words that n rows need: as many as hold them, and not one more.
LEMMA WordsForIs ==
  ASSUME NEW n \in Nat, NEW k \in Nat, n <= Width * k, n + Width > Width * k
  PROVE  Flags!WordsFor(n) = k
<1>1. Width \in Nat /\ Width >= 1
  BY Constants_
<1> DEFINE r == (n + Width - 1) - Width * k
<1>2. Width * k \in Nat
  BY <1>1
<1>3. r \in 0 .. Width - 1 /\ Width * k + r = n + Width - 1
  BY <1>1, <1>2
<1> HIDE DEF r
<1>4. (n + Width - 1) \div Width = k
  BY <1>3, Located
<1>5. QED BY <1>4 DEF Flags!WordsFor

LEMMA WordsForBounds ==
  ASSUME NEW n \in Nat
  PROVE  /\ Flags!WordsFor(n) \in Nat
         /\ n <= Width * Flags!WordsFor(n)
         /\ n + Width > Width * Flags!WordsFor(n)
<1>1. Width \in Nat /\ Width >= 1
  BY Constants_
<1>2. n + Width - 1 \in Nat
  BY <1>1
<1> DEFINE q == (n + Width - 1) \div Width
           r == (n + Width - 1) % Width
<1>3. n + Width - 1 = Width * q + r /\ r \in 0 .. Width - 1 /\ q \in Nat
  BY <1>2, DivMod
<1>4. Flags!WordsFor(n) = q
  BY DEF Flags!WordsFor
<1> HIDE DEF q, r
<1>5. Width * q \in Nat
  BY <1>1, <1>3
<1>6. QED BY <1>1, <1>3, <1>4, <1>5

LEMMA WordsForMonotone ==
  ASSUME NEW m \in Nat, NEW n \in Nat, m <= n
  PROVE  Flags!WordsFor(m) <= Flags!WordsFor(n)
<1> DEFINE a == Flags!WordsFor(m)
           b == Flags!WordsFor(n)
<1>1. /\ a \in Nat /\ b \in Nat /\ m + Width > Width * a /\ n <= Width * b
      /\ Width \in Nat /\ Width >= 1
  BY WordsForBounds, Constants_
<1> HIDE DEF a, b
<1>2. Width * a \in Nat /\ Width * b \in Nat
  BY <1>1
<1>3. Width * a < Width * b + Width
  BY <1>1, <1>2
<1>4. Width * b + Width = Width * (b + 1)
  BY <1>1, Z3
<1>5. a < b + 1
  BY <1>1, <1>3, <1>4, Z3
<1>6. QED BY <1>1, <1>5 DEF a, b

\* A row that comes behind the last one needs a new word when its bit is the first.
LEMMA WordsForNext ==
  ASSUME NEW n \in Nat
  PROVE  /\ Flags!WordOf(n) = Flags!WordsFor(n + 1)
         /\ n % Width = 0 => Flags!WordsFor(n + 1) = Flags!WordsFor(n) + 1
         /\ n % Width # 0 => Flags!WordsFor(n + 1) = Flags!WordsFor(n)
<1> DEFINE w == Flags!WordOf(n)
           b == Flags!BitOf(n)
<1>1. /\ w \in Nat /\ w >= 1 /\ b \in 0 .. Width - 1 /\ n = Width * (w - 1) + b
      /\ Width \in Nat /\ Width >= 1 /\ b = n % Width
  BY WordAndBit, Constants_ DEF Flags!BitOf
<1>2. n + 1 \in Nat
  OBVIOUS
<1> HIDE DEF w, b
<1>3. Width * (w - 1) \in Nat /\ Width * w \in Nat /\ Width * w = Width * (w - 1) + Width
  BY <1>1, Z3
<1>4. Flags!WordsFor(n + 1) = w
  <2>1. n + 1 <= Width * w /\ (n + 1) + Width > Width * w
    BY <1>1, <1>3
  <2>2. QED BY <1>1, <1>2, <2>1, WordsForIs
<1>5. n % Width = 0 => Flags!WordsFor(n) = w - 1
  <2> SUFFICES ASSUME n % Width = 0 PROVE Flags!WordsFor(n) = w - 1
    OBVIOUS
  <2>1. w - 1 \in Nat /\ n <= Width * (w - 1) /\ n + Width > Width * (w - 1)
    BY <1>1, <1>3
  <2>2. QED BY <2>1, WordsForIs
<1>6. n % Width # 0 => Flags!WordsFor(n) = w
  <2> SUFFICES ASSUME n % Width # 0 PROVE Flags!WordsFor(n) = w
    OBVIOUS
  <2>1. n <= Width * w /\ n + Width > Width * w
    BY <1>1, <1>3
  <2>2. QED BY <1>1, <2>1, WordsForIs
<1>7. QED BY <1>1, <1>4, <1>5, <1>6 DEF w

\* The rows that follow row i, within its word and in the next one.
LEMMA Neighbours ==
  ASSUME NEW i \in Nat, NEW j \in Nat
  PROVE  /\ Flags!BitOf(i) + j < Width =>
              /\ Flags!WordOf(i + j) = Flags!WordOf(i)
              /\ Flags!BitOf(i + j) = Flags!BitOf(i) + j
         /\ Flags!BitOf(i) + j >= Width /\ j <= Width =>
              /\ Flags!WordOf(i + j) = Flags!WordOf(i) + 1
              /\ Flags!BitOf(i + j) = Flags!BitOf(i) + j - Width
<1> DEFINE w == Flags!WordOf(i)
           b == Flags!BitOf(i)
<1>1. /\ w \in Nat /\ w >= 1 /\ b \in 0 .. Width - 1 /\ i = Width * (w - 1) + b
      /\ Width \in Nat /\ Width >= 1
  BY WordAndBit, Constants_
<1>2. i + j \in Nat
  OBVIOUS
<1> HIDE DEF w, b
<1>3. Width * (w - 1) \in Nat /\ Width * ((w + 1) - 1) = Width * (w - 1) + Width
  BY <1>1, Z3
<1>4. ASSUME b + j < Width PROVE Flags!WordOf(i + j) = w /\ Flags!BitOf(i + j) = b + j
  <2>1. b + j \in 0 .. Width - 1 /\ i + j = Width * (w - 1) + (b + j)
    BY <1>1, <1>3, <1>4
  <2>2. QED BY <1>1, <1>2, <2>1, RowAt
<1>5. ASSUME b + j >= Width, j <= Width
      PROVE  Flags!WordOf(i + j) = w + 1 /\ Flags!BitOf(i + j) = b + j - Width
  <2>1. b + j - Width \in 0 .. Width - 1
    BY <1>1, <1>5
  <2>2. i + j = Width * ((w + 1) - 1) + (b + j - Width)
    BY <1>1, <1>3
  <2>3. w + 1 \in Nat /\ w + 1 >= 1
    BY <1>1
  <2>4. QED BY <1>2, <2>1, <2>2, <2>3, RowAt
<1>6. QED BY <1>4, <1>5 DEF w, b

\* A range of rows that crosses the end of a word needs the next one.
LEMMA NextWord ==
  ASSUME NEW i \in Nat, NEW take \in 1 .. Width, take > Width - Flags!BitOf(i)
  PROVE  Flags!WordOf(i + (take - 1)) = Flags!WordOf(i) + 1
<1> DEFINE b == Flags!BitOf(i)
           j == take - 1
<1>1. b \in Nat /\ take \in Nat /\ j \in Nat /\ j <= Width /\ Width \in Nat /\ take > Width - b
  BY WordAndBit, Constants_
<1>2. b + j >= Width
  <2> HIDE DEF b
  <2>1. QED BY <1>1
<1> HIDE DEF j
<1>3. QED BY <1>1, <1>2, Neighbours DEF j

\* The smaller of two numbers.
LEMMA MinOfTwo ==
  ASSUME NEW a \in Int, NEW b \in Int
  PROVE  Flags!Min({a, b}) = IF a <= b THEN a ELSE b
<1>1. CASE a <= b
  BY <1>1 DEF Flags!Min
<1>2. CASE ~ (a <= b)
  BY <1>2 DEF Flags!Min
<1>3. QED BY <1>1, <1>2

-----------------------------------------------------------------------------
\* The flag of row i in packed words, and the rows among the first n without it.
Flag(words, i) == Flags!BitOf(i) \in words[Flags!WordOf(i)]
NullRows(words, n) == {i \in 0 .. n - 1 : ~ Flag(words, i)}
Words == Seq(SUBSET Flags!Bits)

\* set() changes the flag of its row only.
LEMMA BitWritten ==
  ASSUME NEW words \in Words, NEW i \in Nat, Flags!WordOf(i) <= Len(words), NEW valid \in BOOLEAN
  PROVE  /\ Flags!WithBit(words, i, valid) \in Words
         /\ Len(Flags!WithBit(words, i, valid)) = Len(words)
         /\ \A j \in Nat : Flags!WordOf(j) <= Len(words) =>
              (Flag(Flags!WithBit(words, i, valid), j) <=> IF j = i THEN valid ELSE Flag(words, j))
<1> DEFINE w == Flags!WordOf(i)
           b == Flags!BitOf(i)
           word == IF valid THEN words[w] \cup {b} ELSE words[w] \ {b}
           new == [words EXCEPT ![w] = word]
<1>1. w \in Nat /\ w >= 1 /\ b \in Flags!Bits /\ Len(words) \in Nat
  BY WordAndBit, LenProperties DEF Words
<1>2. w \in 1 .. Len(words)
  BY <1>1
<1>3. words[w] \in SUBSET Flags!Bits
  BY <1>2, ElementOfSeq DEF Words
<1>4. word \in SUBSET Flags!Bits
  BY <1>1, <1>3
<1>5. Flags!WithBit(words, i, valid) = new
  BY DEF Flags!WithBit
<1>6. b \in word <=> valid
  OBVIOUS
<1>7. \A c : c # b => (c \in word <=> c \in words[w])
  OBVIOUS
<1> HIDE DEF word
<1>8. new \in Words /\ Len(new) = Len(words) /\ new[w] = word
      /\ \A k \in 1 .. Len(words) : k # w => new[k] = words[k]
  <2> HIDE DEF w
  <2>1. QED BY <1>2, <1>4, ExceptSeq, LenProperties DEF Words
<1> HIDE DEF new
<1>9. ASSUME NEW j \in Nat, Flags!WordOf(j) <= Len(words)
      PROVE  Flag(new, j) <=> IF j = i THEN valid ELSE Flag(words, j)
  <2>1. CASE j = i
    BY <1>6, <1>8, <2>1 DEF Flag
  <2>2. CASE j # i /\ Flags!WordOf(j) = w
    <3>1. Flags!BitOf(j) # b
      BY <2>2, OneBitEach
    <3>2. QED BY <1>7, <1>8, <2>2, <3>1 DEF Flag
  <2>3. CASE j # i /\ Flags!WordOf(j) # w
    <3>1. Flags!WordOf(j) \in 1 .. Len(words)
      BY <1>1, <1>9, WordAndBit
    <3>2. QED BY <1>8, <2>3, <3>1 DEF Flag
  <2>4. QED BY <2>1, <2>2, <2>3
<1>10. QED BY <1>5, <1>8, <1>9

\* The NULL rows are finitely many, and at most all of them.
LEMMA NullRowsFinite ==
  ASSUME NEW words, NEW n \in Nat
  PROVE  /\ IsFiniteSet(NullRows(words, n)) /\ Cardinality(NullRows(words, n)) \in Nat
         /\ Cardinality(NullRows(words, n)) <= n
<1>1. IsFiniteSet(0 .. n - 1) /\ Cardinality(0 .. n - 1) = n
  <2>1. 0 \in Int /\ n - 1 \in Int
    OBVIOUS
  <2>2. IsFiniteSet(0 .. n - 1) /\ Cardinality(0 .. n - 1) = IF 0 > n - 1 THEN 0 ELSE (n - 1) - 0 + 1
    BY <2>1, FS_Interval
  <2>3. QED BY <2>2
<1>2. NullRows(words, n) \in SUBSET (0 .. n - 1)
  BY DEF NullRows
<1>3. QED BY <1>1, <1>2, FS_Subset, FS_CardinalityType

\* No NULL row is counted when and only when every row has its flag.
LEMMA NoNullRows ==
  ASSUME NEW words, NEW n \in Nat, Cardinality(NullRows(words, n)) = 0
  PROVE  \A i \in 0 .. n - 1 : Flag(words, i)
<1>1. NullRows(words, n) = {}
  BY NullRowsFinite, FS_EmptySet
<1>2. QED BY <1>1 DEF NullRows

\* The count follows a flag that is written.
LEMMA CountedSet ==
  ASSUME NEW words, NEW new, NEW n \in Nat, NEW i \in 0 .. n - 1, NEW valid \in BOOLEAN,
         \A j \in 0 .. n - 1 : Flag(new, j) <=> IF j = i THEN valid ELSE Flag(words, j)
  PROVE  Cardinality(NullRows(new, n)) =
           Flags!CountAfter(words, Cardinality(NullRows(words, n)), i, valid)
<1> DEFINE old == NullRows(words, n)
           now == NullRows(new, n)
<1>1. IsFiniteSet(old) /\ Cardinality(old) \in Nat
  BY NullRowsFinite
<1>2. i \in old <=> ~ Flag(words, i)
  BY DEF NullRows
<1>3. now = IF valid THEN old \ {i} ELSE old \cup {i}
  BY DEF NullRows
<1>4. Flags!CountAfter(words, Cardinality(old), i, valid)
        = IF Flag(words, i) = valid THEN Cardinality(old)
          ELSE IF valid THEN Cardinality(old) - 1 ELSE Cardinality(old) + 1
  BY DEF Flags!CountAfter, Flag
<1>5. Flag(words, i) \in BOOLEAN
  BY DEF Flag
<1> HIDE DEF old, now
<1>6. CASE valid
  <2>1. now = old \ {i}
    BY <1>3, <1>6
  <2>2. Cardinality(now) = IF i \in old THEN Cardinality(old) - 1 ELSE Cardinality(old)
    BY <1>1, <2>1, FS_RemoveElement
  <2>3. QED BY <1>2, <1>4, <1>5, <1>6, <2>2 DEF old, now
<1>7. CASE ~ valid
  <2>1. now = old \cup {i}
    BY <1>3, <1>7
  <2>2. Cardinality(now) = IF i \in old THEN Cardinality(old) ELSE Cardinality(old) + 1
    BY <1>1, <2>1, FS_AddElement
  <2>3. QED BY <1>2, <1>4, <1>5, <1>7, <2>2 DEF old, now
<1>8. QED BY <1>6, <1>7

\* Rows are added at the end, those in `valid' with the flag.
Lengthened(words, new, n, take, valid) ==
  /\ n \in Nat /\ take \in Nat /\ valid \in SUBSET (0 .. take - 1)
  /\ \A i \in 0 .. n - 1 : Flag(new, i) <=> Flag(words, i)
  /\ \A j \in 0 .. take - 1 : Flag(new, n + j) <=> j \in valid

\* The count of the null rows then grows by the others.
LEMMA CountedRange ==
  ASSUME NEW words, NEW new, NEW n, NEW take, NEW valid, Lengthened(words, new, n, take, valid)
  PROVE  /\ Cardinality(NullRows(new, n + take))
              = Cardinality(NullRows(words, n)) + (take - Cardinality(valid))
         /\ Cardinality(valid) \in Nat /\ Cardinality(valid) <= take
<1> DEFINE rest == (0 .. take - 1) \ valid
           image == {n + j : j \in rest}
           f == [j \in rest |-> n + j]
           old == NullRows(words, n)
<1>0. /\ n \in Nat /\ take \in Nat /\ valid \in SUBSET (0 .. take - 1)
      /\ \A i \in 0 .. n - 1 : Flag(new, i) <=> Flag(words, i)
      /\ \A j \in 0 .. take - 1 : Flag(new, n + j) <=> j \in valid
  BY DEF Lengthened
<1> USE <1>0
<1>1. IsFiniteSet(0 .. take - 1) /\ Cardinality(0 .. take - 1) = take
  <2>1. IsFiniteSet(0 .. take - 1)
        /\ Cardinality(0 .. take - 1) = IF 0 > take - 1 THEN 0 ELSE (take - 1) - 0 + 1
    BY FS_Interval
  <2>2. QED BY <2>1
<1> DEFINE all == 0 .. take - 1
<1>2. /\ IsFiniteSet(valid) /\ Cardinality(valid) <= take /\ Cardinality(valid) \in Nat
  <2>1. IsFiniteSet(all) /\ Cardinality(all) = take /\ valid \in SUBSET all
    BY <1>1
  <2> HIDE DEF all
  <2>2. IsFiniteSet(valid) /\ Cardinality(valid) <= Cardinality(all)
    BY <2>1, FS_Subset
  <2>3. QED BY <2>1, <2>2, FS_CardinalityType
<1>3. IsFiniteSet(rest) /\ Cardinality(rest) = take - Cardinality(valid)
  <2>1. all \cap valid = valid /\ rest = all \ valid
    OBVIOUS
  <2>2. IsFiniteSet(all) /\ Cardinality(all) = take
    BY <1>1
  <2> HIDE DEF all, rest
  <2>3. IsFiniteSet(all \ valid) /\ Cardinality(all \ valid) = Cardinality(all) - Cardinality(all \cap valid)
    BY <2>2, FS_Difference
  <2>4. QED BY <2>1, <2>2, <2>3
<1>4. f \in Bijection(rest, image)
  <2>1. f \in [rest -> image]
    OBVIOUS
  <2>2. \A a, b \in rest : f[a] = f[b] => a = b
    OBVIOUS
  <2>3. \A t \in image : \E a \in rest : f[a] = t
    OBVIOUS
  <2>4. QED BY <2>1, <2>2, <2>3 DEF Bijection, Injection, Surjection, IsInjective
<1>5. IsFiniteSet(image) /\ Cardinality(image) = Cardinality(rest)
  <2>1. ExistsBijection(rest, image)
    BY <1>4 DEF ExistsBijection
  <2> HIDE DEF rest, image
  <2>2. QED BY <1>3, <2>1, FS_Bijection
<1>6. IsFiniteSet(old) /\ Cardinality(old) \in Nat
  BY NullRowsFinite
<1>7. old \cap image = {}
  BY DEF NullRows
<1>8. NullRows(new, n + take) = old \cup image
  <2>1. ASSUME NEW i \in NullRows(new, n + take) PROVE i \in old \cup image
    <3>1. i \in 0 .. n + take - 1 /\ ~ Flag(new, i)
      BY <2>1 DEF NullRows
    <3>2. CASE i < n
      BY <3>1, <3>2 DEF NullRows
    <3>3. CASE i >= n
      <4>1. i - n \in 0 .. take - 1 /\ n + (i - n) = i
        BY <3>1, <3>3
      <4>2. i - n \in rest
        BY <3>1, <4>1
      <4>3. QED BY <4>1, <4>2
    <3>4. QED BY <3>1, <3>2, <3>3
  <2>2. ASSUME NEW i \in old PROVE i \in NullRows(new, n + take)
    BY <2>2 DEF NullRows
  <2>3. ASSUME NEW j \in rest PROVE n + j \in NullRows(new, n + take)
    BY <2>3 DEF NullRows
  <2>4. QED BY <2>1, <2>2, <2>3
<1> HIDE DEF old, image, rest
<1>9. Cardinality(old \cup image) = Cardinality(old) + Cardinality(image) - Cardinality(old \cap image)
  BY <1>5, <1>6, FS_Union
<1>10. Cardinality(old \cap image) = 0
  BY <1>7, FS_EmptySet
<1>11. Cardinality(NullRows(new, n + take)) = Cardinality(old) + (take - Cardinality(valid))
  <2>1. Cardinality(image) = take - Cardinality(valid) /\ Cardinality(image) \in Int
    BY <1>2, <1>3, <1>5
  <2>2. Cardinality(old \cup image) = Cardinality(old) + Cardinality(image)
    BY <1>6, <1>9, <1>10, <2>1
  <2>3. QED BY <1>8, <2>1, <2>2
<1>12. QED BY <1>2, <1>11 DEF old

-----------------------------------------------------------------------------
\* The instance of Validity.tla counts as this module does.
LEMMA SameCount == ASSUME NEW S PROVE Flags!Cardinality(S) = Cardinality(S)
BY DEF Flags!Cardinality, Cardinality

\* The part of the invariant that is about flags.
FlagsInv == Flags!TypeOK /\ NullCountExact /\ BitsBehindClear

\* The flags of one column, its row and NULL counts and its words.
LEMMA FlagFacts ==
  ASSUME FlagsInv, NEW o \in Objects
  PROVE  /\ bits[o] \in Words /\ Len(bits[o]) \in Nat
         /\ size[o] \in Nat /\ size[o] <= MaxRows /\ nulls[o] \in Nat /\ preset[o] \in BOOLEAN
         /\ nulls[o] = Cardinality(NullRows(bits[o], size[o]))
         /\ \A i : Flags!IsValid(o, i) = Flag(bits[o], i)
         /\ ~ preset[o] => \A i \in size[o] .. Width * Len(bits[o]) - 1 : ~ Flag(bits[o], i)
         /\ Flags!Idle \/ copy.into # o => Len(bits[o]) = Flags!WordsFor(size[o])
         /\ ~ Flags!Idle /\ copy.into = o => Len(bits[o]) = Flags!WordsFor(size[o] + copy.count)
<1>1. Flags!TypeOK /\ NullCountExact /\ BitsBehindClear
  BY DEF FlagsInv
<1>2. /\ bits[o] \in Words /\ size[o] \in 0 .. MaxRows /\ nulls[o] \in 0 .. MaxRows
      /\ preset[o] \in BOOLEAN
      /\ Len(bits[o]) = Flags!WordsFor(IF ~ Flags!Idle /\ copy.into = o
                                       THEN size[o] + copy.count ELSE size[o])
  BY <1>1 DEF Flags!TypeOK, Words
<1>3. Len(bits[o]) \in Nat
  BY <1>2, LenProperties DEF Words
<1>4. \A i : Flags!IsValid(o, i) = Flag(bits[o], i)
  BY DEF Flags!IsValid, Flag
<1>5. nulls[o] = Cardinality(NullRows(bits[o], size[o]))
  <2>1. nulls[o] = Cardinality({i \in 0 .. size[o] - 1 : ~ Flags!IsValid(o, i)})
    BY <1>1, SameCount DEF NullCountExact, Flags!NullCountExact
  <2>2. {i \in 0 .. size[o] - 1 : ~ Flags!IsValid(o, i)} = NullRows(bits[o], size[o])
    BY <1>4 DEF NullRows
  <2>3. QED BY <2>1, <2>2
<1>6. ~ preset[o] => \A i \in size[o] .. Width * Len(bits[o]) - 1 : ~ Flag(bits[o], i)
  BY <1>1, <1>4 DEF BitsBehindClear
<1>7. QED BY <1>2, <1>3, <1>4, <1>5, <1>6, Constants_

\* Every row has its word.
LEMMA RowHasWord ==
  ASSUME FlagsInv, NEW o \in Objects, NEW i \in Nat, i < size[o]
  PROVE  Flags!WordOf(i) <= Len(bits[o])
<1> DEFINE n == IF ~ Flags!Idle /\ copy.into = o THEN size[o] + copy.count ELSE size[o]
<1>1. size[o] \in Nat /\ Len(bits[o]) = Flags!WordsFor(n)
  BY FlagFacts
<1>2. n \in Nat /\ n >= size[o]
  <2>1. CASE Flags!Idle \/ copy.into # o
    BY <1>1, <2>1
  <2>2. CASE ~ Flags!Idle /\ copy.into = o
    <3>1. copy.count \in Nat
      BY <2>2 DEF FlagsInv, Flags!TypeOK
    <3>2. QED BY <1>1, <2>2, <3>1
  <2>3. QED BY <2>1, <2>2
<1> HIDE DEF n
<1>3. Flags!WordsFor(n) \in Nat /\ n <= Width * Flags!WordsFor(n)
  BY <1>2, WordsForBounds
<1>4. Width * Flags!WordsFor(n) \in Nat
  BY <1>3, Constants_
<1>5. i < Width * Flags!WordsFor(n)
  BY <1>1, <1>2, <1>3, <1>4
<1>6. QED BY <1>1, <1>3, <1>5, InWords

\* What has to be shown of a step that changes the flags of one column.
LEMMA OneChanged ==
  ASSUME FlagsInv, NEW o \in Objects,
         NEW words \in Words, NEW n \in 0 .. MaxRows, NEW k, NEW p \in BOOLEAN,
         bits' = [bits EXCEPT ![o] = words], size' = [size EXCEPT ![o] = n],
         nulls' = [nulls EXCEPT ![o] = k], preset' = [preset EXCEPT ![o] = p],
         k = Cardinality(NullRows(words, n)),
         ~ p => \A i \in n .. Width * Len(words) - 1 : ~ Flag(words, i),
         Len(words) = Flags!WordsFor(IF copy' # Flags!NoCopy /\ copy'.into = o
                                     THEN n + copy'.count ELSE n),
         copy = Flags!NoCopy \/ copy.into = o, copy' = Flags!NoCopy \/ copy'.into = o,
         \/ copy' = Flags!NoCopy
         \/ /\ copy' \in [into : Objects, source : Objects, start : Nat, count : Nat \ {0},
                          base : Nat, first : Nat]
            /\ copy'.start + copy'.count <= size'[copy'.source]
  PROVE  FlagsInv'
<1>1. /\ bits \in [Objects -> Words] /\ size \in [Objects -> 0 .. MaxRows]
      /\ nulls \in [Objects -> 0 .. MaxRows] /\ preset \in [Objects -> BOOLEAN]
      /\ \A q \in Objects : nulls[q] <= size[q]
  BY DEF FlagsInv, Flags!TypeOK, Words
<1>2. k \in 0 .. MaxRows /\ k <= n
  BY NullRowsFinite, Constants_
<1>3. /\ bits'[o] = words /\ size'[o] = n /\ nulls'[o] = k /\ preset'[o] = p
      /\ \A q \in Objects : q # o => /\ bits'[q] = bits[q] /\ size'[q] = size[q]
                                     /\ nulls'[q] = nulls[q] /\ preset'[q] = preset[q]
  BY <1>1
<1>4. /\ bits' \in [Objects -> Words] /\ size' \in [Objects -> 0 .. MaxRows]
      /\ nulls' \in [Objects -> 0 .. MaxRows] /\ preset' \in [Objects -> BOOLEAN]
  BY <1>1, <1>2
<1>5. ASSUME NEW q \in Objects
      PROVE  /\ nulls'[q] <= size'[q]
             /\ nulls'[q] = Cardinality(NullRows(bits'[q], size'[q]))
             /\ ~ preset'[q] => \A i \in size'[q] .. Width * Len(bits'[q]) - 1 : ~ Flag(bits'[q], i)
             /\ Len(bits'[q]) = Flags!WordsFor(IF copy' # Flags!NoCopy /\ copy'.into = q
                                               THEN size'[q] + copy'.count ELSE size'[q])
  <2>1. CASE q = o
    BY <1>2, <1>3, <2>1
  <2>2. CASE q # o
    <3>1. /\ bits'[q] = bits[q] /\ size'[q] = size[q]
          /\ nulls'[q] = nulls[q] /\ preset'[q] = preset[q]
      BY <1>3, <2>2
    <3>2. /\ nulls[q] <= size[q] /\ nulls[q] = Cardinality(NullRows(bits[q], size[q]))
          /\ ~ preset[q] => \A i \in size[q] .. Width * Len(bits[q]) - 1 : ~ Flag(bits[q], i)
          /\ Len(bits[q]) = Flags!WordsFor(size[q])
      BY <1>1, <2>2, FlagFacts DEF Flags!Idle
    <3>3. (IF copy' # Flags!NoCopy /\ copy'.into = q THEN size'[q] + copy'.count ELSE size'[q]) = size[q]
      BY <2>2, <3>1
    <3>4. QED BY <3>1, <3>2, <3>3
  <2>3. QED BY <2>1, <2>2
<1>6. Flags!TypeOK'
  BY <1>4, <1>5 DEF Flags!TypeOK, Flags!Idle, Words
<1>7. NullCountExact'
  <2>1. ASSUME NEW q \in Objects
        PROVE  nulls'[q] = Flags!Cardinality({i \in 0 .. size'[q] - 1 : ~ Flags!IsValid(q, i)'})
    <3>1. {i \in 0 .. size'[q] - 1 : ~ Flags!IsValid(q, i)'} = NullRows(bits'[q], size'[q])
      BY DEF NullRows, Flag, Flags!IsValid
    <3>2. QED BY <1>5, <3>1, SameCount
  <2>2. QED BY <2>1 DEF NullCountExact, Flags!NullCountExact
<1>8. BitsBehindClear'
  BY <1>5 DEF BitsBehindClear, Flags!IsValid, Flag
<1>9. QED BY <1>6, <1>7, <1>8 DEF FlagsInv

-----------------------------------------------------------------------------
\* The words that reset() writes.
LEMMA ResetWords ==
  ASSUME NEW n \in Nat, NEW word \in SUBSET Flags!Bits
  PROVE  /\ [w \in 1 .. Flags!WordsFor(n) |-> word] \in Words
         /\ Len([w \in 1 .. Flags!WordsFor(n) |-> word]) = Flags!WordsFor(n)
         /\ \A i \in Nat : i < n =>
              (Flag([w \in 1 .. Flags!WordsFor(n) |-> word], i) <=> Flags!BitOf(i) \in word)
<1> DEFINE k == Flags!WordsFor(n)
           words == [w \in 1 .. k |-> word]
<1>1. k \in Nat /\ n <= Width * k /\ Width * k \in Nat
  BY WordsForBounds, Constants_
<1> HIDE DEF k
<1>2. words \in Words /\ Len(words) = k
  BY <1>1, SeqDef DEF Words
<1>3. ASSUME NEW i \in Nat, i < n
      PROVE  Flag(words, i) <=> Flags!BitOf(i) \in word
  <2>1. Flags!WordOf(i) <= k
    <3>1. i < Width * k
      BY <1>1, <1>3
    <3>2. QED BY <1>1, <3>1, InWords
  <2>2. Flags!WordOf(i) \in 1 .. k
    BY <1>1, <2>1, WordAndBit
  <2>3. words[Flags!WordOf(i)] = word
    BY <2>2
  <2>4. QED BY <2>3 DEF Flag
<1>4. QED BY <1>2, <1>3 DEF k

LEMMA FlagsReset ==
  ASSUME FlagsInv, NEW o \in Objects, NEW n \in 0 .. MaxRows, NEW valid \in BOOLEAN,
         Flags!Reset(o, n, valid)
  PROVE  /\ FlagsInv'
         /\ \A i \in Nat : i < n => (Flag(bits'[o], i) <=> valid)
<1> DEFINE word == IF valid THEN Flags!AllOnes ELSE {}
           words == [w \in 1 .. Flags!WordsFor(n) |-> word]
           k == IF valid THEN 0 ELSE n
           p == n > 0
<1>1. n \in Nat /\ word \in SUBSET Flags!Bits
  BY Constants_ DEF Flags!AllOnes
<1>2. /\ words \in Words /\ Len(words) = Flags!WordsFor(n)
      /\ \A i \in Nat : i < n => (Flag(words, i) <=> Flags!BitOf(i) \in word)
  <2> HIDE DEF word
  <2>1. QED BY <1>1, ResetWords
<1>3. \A i \in Nat : i < n => (Flag(words, i) <=> valid)
  <2> HIDE DEF words
  <2>1. QED BY <1>2, WordAndBit DEF Flags!AllOnes
<1>4. /\ copy = Flags!NoCopy /\ copy' = copy
      /\ bits' = [bits EXCEPT ![o] = words] /\ size' = [size EXCEPT ![o] = n]
      /\ nulls' = [nulls EXCEPT ![o] = k] /\ preset' = [preset EXCEPT ![o] = p]
  BY DEF Flags!Reset, Flags!Idle
<1>5. k = Cardinality(NullRows(words, n))
  <2> HIDE DEF words
  <2>1. CASE valid
    <3>1. NullRows(words, n) = {}
      BY <1>1, <1>3, <2>1 DEF NullRows
    <3>2. QED BY <2>1, <3>1, FS_EmptySet
  <2>2. CASE ~ valid
    <3>1. NullRows(words, n) = 0 .. n - 1
      BY <1>1, <1>3, <2>2 DEF NullRows
    <3>2. Cardinality(0 .. n - 1) = IF 0 > n - 1 THEN 0 ELSE (n - 1) - 0 + 1
      BY <1>1, FS_Interval
    <3>3. QED BY <1>1, <2>2, <3>1, <3>2
  <2>3. QED BY <2>1, <2>2
<1> HIDE DEF words, word, k
<1>6. ~ p => \A i \in n .. Width * Len(words) - 1 : ~ Flag(words, i)
  <2>1. Flags!WordsFor(0) = 0
    <3>1. Width * 0 = 0 /\ Width \in Nat /\ Width >= 1
      BY Constants_
    <3>2. 0 \in Nat /\ 0 <= Width * 0 /\ 0 + Width > Width * 0
      BY <3>1
    <3>3. QED BY <3>2, WordsForIs
  <2>2. n = 0 => Width * Len(words) - 1 = -1
    BY <1>2, <2>1, Constants_
  <2>3. ~ p => n = 0
    BY <1>1
  <2>4. QED BY <2>2, <2>3
<1>7. p \in BOOLEAN
  OBVIOUS
<1> HIDE DEF p
<1>8. FlagsInv'
  BY <1>2, <1>4, <1>5, <1>6, <1>7, OneChanged
<1>9. bits'[o] = words
  BY <1>4 DEF FlagsInv, Flags!TypeOK
<1>10. QED BY <1>3, <1>8, <1>9

LEMMA FlagsSet ==
  ASSUME FlagsInv, NEW o \in Objects, NEW i \in Nat, NEW valid \in BOOLEAN,
         Flags!Set(o, i, valid)
  PROVE  /\ FlagsInv'
         /\ \A j \in Nat : j < size[o] =>
              (Flag(bits'[o], j) <=> IF j = i THEN valid ELSE Flag(bits[o], j))
<1> DEFINE words == Flags!WithBit(bits[o], i, valid)
           n == size[o]
           k == Flags!CountAfter(bits[o], nulls[o], i, valid)
<1>1. /\ copy = Flags!NoCopy /\ copy' = copy /\ i < n
      /\ bits' = [bits EXCEPT ![o] = words] /\ size' = size /\ preset' = preset
      /\ nulls' = [nulls EXCEPT ![o] = k]
  BY DEF Flags!Set, Flags!Idle
<1>2. /\ bits[o] \in Words /\ Len(bits[o]) \in Nat /\ n \in Nat /\ n \in 0 .. MaxRows
      /\ preset[o] \in BOOLEAN
      /\ nulls[o] = Cardinality(NullRows(bits[o], n)) /\ Len(bits[o]) = Flags!WordsFor(n)
      /\ ~ preset[o] => \A j \in n .. Width * Len(bits[o]) - 1 : ~ Flag(bits[o], j)
  BY <1>1, FlagFacts DEF Flags!Idle
<1>3. Flags!WordOf(i) <= Len(bits[o])
  BY <1>1, RowHasWord
<1>4. /\ words \in Words /\ Len(words) = Len(bits[o])
      /\ \A j \in Nat : Flags!WordOf(j) <= Len(bits[o]) =>
           (Flag(words, j) <=> IF j = i THEN valid ELSE Flag(bits[o], j))
  BY <1>2, <1>3, BitWritten
<1>5. \A j \in Nat : j < n => (Flag(words, j) <=> IF j = i THEN valid ELSE Flag(bits[o], j))
  <2> HIDE DEF words
  <2>1. QED BY <1>4, RowHasWord
<1> HIDE DEF words
<1>6. k = Cardinality(NullRows(words, n))
  <2>1. i \in 0 .. n - 1 /\ \A j \in 0 .. n - 1 : j \in Nat /\ j < n
    BY <1>1, <1>2
  <2>2. \A j \in 0 .. n - 1 : Flag(words, j) <=> IF j = i THEN valid ELSE Flag(bits[o], j)
    BY <1>5, <2>1
  <2> HIDE DEF n
  <2>3. Cardinality(NullRows(words, n)) = Flags!CountAfter(bits[o], Cardinality(NullRows(bits[o], n)), i, valid)
    BY <1>2, <2>1, <2>2, CountedSet
  <2>4. QED BY <1>2, <2>3
<1>7. ~ preset[o] => \A j \in n .. Width * Len(words) - 1 : ~ Flag(words, j)
  <2> SUFFICES ASSUME ~ preset[o], NEW j \in n .. Width * Len(words) - 1
               PROVE  ~ Flag(words, j)
    OBVIOUS
  <2>1. j \in Nat /\ j # i /\ j < Width * Len(bits[o])
    BY <1>1, <1>2, <1>4, Constants_
  <2>2. Flags!WordOf(j) <= Len(bits[o])
    BY <1>2, <2>1, InWords
  <2>3. QED BY <1>2, <1>4, <2>1, <2>2
<1>8. size' = [size EXCEPT ![o] = n] /\ preset' = [preset EXCEPT ![o] = preset[o]]
  BY <1>1 DEF FlagsInv, Flags!TypeOK
<1> HIDE DEF n, k
<1>9. FlagsInv'
  BY <1>1, <1>2, <1>4, <1>6, <1>7, <1>8, OneChanged
<1>10. bits'[o] = words
  BY <1>1 DEF FlagsInv, Flags!TypeOK
<1>11. QED BY <1>5, <1>9, <1>10 DEF n

\* append() finds the bit of the row it adds clear.
LEMMA FlagsAppend ==
  ASSUME FlagsInv, NEW o \in Objects, NEW valid \in BOOLEAN, Flags!Append_(o, valid)
  PROVE  /\ FlagsInv'
         /\ \A j \in Nat : j < size[o] => (Flag(bits'[o], j) <=> Flag(bits[o], j))
         /\ Flag(bits'[o], size[o]) <=> valid
<1> DEFINE n == size[o]
           words == IF n % Width = 0 THEN Append(bits[o], {}) ELSE bits[o]
           new == Flags!WithBit(words, n, valid)
           k == Flags!CountAfter(words, nulls[o] + 1, n, valid)
<1>1. /\ copy = Flags!NoCopy /\ copy' = copy /\ ~ preset[o] /\ n < MaxRows
      /\ bits' = [bits EXCEPT ![o] = new] /\ preset' = preset
      /\ nulls' = [nulls EXCEPT ![o] = k]
      /\ size' = [size EXCEPT ![o] = n + 1]
  BY DEF Flags!Append_, Flags!Idle, Flags!Appendable
<1>2. /\ bits[o] \in Words /\ Len(bits[o]) \in Nat /\ n \in Nat
      /\ preset[o] \in BOOLEAN
      /\ nulls[o] = Cardinality(NullRows(bits[o], n)) /\ Len(bits[o]) = Flags!WordsFor(n)
      /\ ~ preset[o] => \A j \in n .. Width * Len(bits[o]) - 1 : ~ Flag(bits[o], j)
  BY <1>1, FlagFacts DEF Flags!Idle
<1>3. /\ words \in Words /\ Len(words) = Flags!WordsFor(n + 1)
      /\ Len(bits[o]) <= Len(words)
      /\ \A w \in 1 .. Len(words) : words[w] = IF w <= Len(bits[o]) THEN bits[o][w] ELSE {}
  <2>1. CASE n % Width = 0
    <3>1. words = Append(bits[o], {})
      BY <2>1
    <3>2. /\ Append(bits[o], {}) \in Words /\ Len(Append(bits[o], {})) = Len(bits[o]) + 1
          /\ \A w \in 1 .. Len(bits[o]) + 1 :
               Append(bits[o], {})[w] = IF w <= Len(bits[o]) THEN bits[o][w] ELSE {}
      BY <1>2, AppendProperties DEF Words
    <3>3. Flags!WordsFor(n + 1) = Len(bits[o]) + 1
      BY <1>2, <2>1, WordsForNext
    <3> HIDE DEF words
    <3>4. QED BY <1>2, <3>1, <3>2, <3>3
  <2>2. CASE n % Width # 0
    <3>1. words = bits[o]
      BY <2>2
    <3>2. Flags!WordsFor(n + 1) = Len(bits[o])
      BY <1>2, <2>2, WordsForNext
    <3> HIDE DEF words
    <3>3. QED BY <1>2, <3>1, <3>2
  <2>3. QED BY <2>1, <2>2
<1> HIDE DEF words
<1>4. Len(words) \in Nat /\ n + 1 \in Nat
  BY <1>2, <1>3, LenProperties DEF Words
<1>5. \A j \in Nat : j < n => Flags!WordOf(j) <= Len(bits[o]) /\ (Flag(words, j) <=> Flag(bits[o], j))
  <2> SUFFICES ASSUME NEW j \in Nat, j < n
               PROVE  /\ Flags!WordOf(j) <= Len(bits[o])
                      /\ Flag(words, j) <=> Flag(bits[o], j)
    OBVIOUS
  <2>1. Flags!WordOf(j) <= Len(bits[o])
    BY RowHasWord
  <2>2. Flags!WordOf(j) \in 1 .. Len(words)
    BY <1>2, <1>3, <1>4, <2>1, WordAndBit
  <2>3. QED BY <1>3, <2>1, <2>2 DEF Flag
<1>6. \A j \in Nat : j >= n /\ Flags!WordOf(j) <= Len(words) => ~ Flag(words, j)
  <2> SUFFICES ASSUME NEW j \in Nat, j >= n, Flags!WordOf(j) <= Len(words)
               PROVE  ~ Flag(words, j)
    OBVIOUS
  <2>1. Flags!WordOf(j) \in 1 .. Len(words)
    BY <1>4, WordAndBit
  <2>2. CASE Flags!WordOf(j) <= Len(bits[o])
    <3>1. j < Width * Len(bits[o])
      BY <1>2, <2>2, InWords
    <3>2. j \in n .. Width * Len(bits[o]) - 1
      BY <1>2, <3>1, Constants_
    <3>3. ~ Flag(bits[o], j)
      BY <1>1, <1>2, <3>2
    <3>4. QED BY <1>3, <2>1, <2>2, <3>3 DEF Flag
  <2>3. CASE ~ (Flags!WordOf(j) <= Len(bits[o]))
    BY <1>3, <2>1, <2>3 DEF Flag
  <2>4. QED BY <2>2, <2>3
<1>7. Flags!WordOf(n) <= Len(words)
  <2>1. Flags!WordOf(n) = Flags!WordsFor(n + 1)
    BY <1>2, WordsForNext
  <2>2. QED BY <1>3, <1>4, <2>1
<1>8. /\ new \in Words /\ Len(new) = Len(words)
      /\ \A j \in Nat : Flags!WordOf(j) <= Len(words) =>
           (Flag(new, j) <=> IF j = n THEN valid ELSE Flag(words, j))
  BY <1>2, <1>3, <1>7, BitWritten
<1> HIDE DEF new
<1>9. /\ \A j \in Nat : j < n => (Flag(new, j) <=> Flag(bits[o], j))
      /\ Flag(new, n) <=> valid
  <2>1. ASSUME NEW j \in Nat, j < n PROVE Flag(new, j) <=> Flag(bits[o], j)
    <3>1. Flags!WordOf(j) <= Len(bits[o]) /\ Flags!WordOf(j) \in Nat /\ j # n
      <4>1. Flags!WordOf(j) <= Len(bits[o])
        BY <1>5, <2>1
      <4>2. Flags!WordOf(j) \in Nat
        BY <2>1, WordAndBit
      <4>3. j # n
        BY <1>2, <2>1
      <4>4. QED BY <4>1, <4>2, <4>3
    <3>2. Flags!WordOf(j) <= Len(words)
      BY <1>2, <1>3, <1>4, <3>1
    <3>3. QED BY <1>5, <1>8, <2>1, <3>1, <3>2
  <2>2. QED BY <1>2, <1>7, <1>8, <2>1
<1>10. k = Cardinality(NullRows(new, n + 1))
  <2> DEFINE old == NullRows(bits[o], n)
  <2>1. IsFiniteSet(old) /\ Cardinality(old) \in Nat
    BY <1>2, NullRowsFinite
  <2>2. NullRows(words, n + 1) = old \cup {n} /\ n \notin old
    <3>1. ~ Flag(words, n)
      BY <1>2, <1>6, <1>7
    <3>2. \A j \in 0 .. n : j = n \/ (j \in Nat /\ j < n /\ j \in 0 .. n - 1)
      BY <1>2
    <3>3. 0 .. (n + 1) - 1 = 0 .. n /\ 0 .. n - 1 \subseteq 0 .. n /\ n \in 0 .. n /\ n \notin 0 .. n - 1
      BY <1>2
    <3> HIDE DEF n
    <3>4. QED BY <1>5, <3>1, <3>2, <3>3 DEF NullRows
  <2> HIDE DEF old
  <2>3. Cardinality(NullRows(words, n + 1)) = Cardinality(old) + 1
    BY <2>1, <2>2, FS_AddElement
  <2>4. \A j \in 0 .. (n + 1) - 1 : Flag(new, j) <=> IF j = n THEN valid ELSE Flag(words, j)
    <3> SUFFICES ASSUME NEW j \in 0 .. (n + 1) - 1
                 PROVE  Flag(new, j) <=> IF j = n THEN valid ELSE Flag(words, j)
      OBVIOUS
    <3>1. j \in Nat /\ (j = n \/ j < n)
      BY <1>2
    <3>2. CASE j = n
      BY <1>9, <3>2
    <3>3. CASE j < n
      BY <1>2, <1>5, <1>9, <3>1, <3>3
    <3>4. QED BY <3>1, <3>2, <3>3
  <2>5. n \in 0 .. (n + 1) - 1
    BY <1>2
  <2> HIDE DEF n
  <2>6. Cardinality(NullRows(new, n + 1))
          = Flags!CountAfter(words, Cardinality(NullRows(words, n + 1)), n, valid)
    BY <1>4, <2>4, <2>5, CountedSet, SMTT(30)
  <2>7. QED BY <1>2, <2>3, <2>6 DEF old
<1>11. \A j \in n + 1 .. Width * Len(new) - 1 : ~ Flag(new, j)
  <2> SUFFICES ASSUME NEW j \in n + 1 .. Width * Len(new) - 1 PROVE ~ Flag(new, j)
    OBVIOUS
  <2>1. j \in Nat /\ j >= n /\ j # n /\ j < Width * Len(words)
    BY <1>2, <1>4, <1>8, Constants_
  <2>2. Flags!WordOf(j) <= Len(words)
    BY <1>4, <2>1, InWords
  <2>3. QED BY <1>6, <1>8, <2>1, <2>2
<1>12. /\ preset' = [preset EXCEPT ![o] = FALSE] /\ n + 1 \in 0 .. MaxRows
       /\ Len(new) = Flags!WordsFor(n + 1)
  BY <1>1, <1>2, <1>3, <1>8, Constants_ DEF FlagsInv, Flags!TypeOK
<1> HIDE DEF n, k
<1>13. FlagsInv'
  BY <1>1, <1>8, <1>10, <1>11, <1>12, OneChanged
<1>14. bits'[o] = new
  BY <1>1 DEF FlagsInv, Flags!TypeOK
<1>15. QED BY <1>9, <1>13, <1>14 DEF n

\* append_range() makes room: the words it adds are clear.
LEMMA FlagsStartCopy ==
  ASSUME FlagsInv, NEW o \in Objects, NEW source \in Objects, NEW start \in Nat,
         NEW count \in Nat \ {0}, Flags!StartCopy(o, source, start, count)
  PROVE  /\ FlagsInv'
         /\ \A j \in Nat : j < size[o] => (Flag(bits'[o], j) <=> Flag(bits[o], j))
         /\ bits'[source] = bits[source] /\ size[o] + count <= MaxRows
<1> DEFINE n == size[o]
           m == Flags!WordsFor(n + count)
           words == [w \in 1 .. m |-> IF w <= Len(bits[o]) THEN bits[o][w] ELSE {}]
<1>1. /\ copy = Flags!NoCopy /\ ~ preset[o] /\ n + count <= MaxRows /\ source # o
      /\ start + count <= size[source]
      /\ bits' = [bits EXCEPT ![o] = words] /\ preset' = preset /\ nulls' = nulls /\ size' = size
      /\ copy' = [into |-> o, source |-> source, start |-> start, count |-> count,
                  base |-> n, first |-> start]
  BY DEF Flags!StartCopy, Flags!Idle, Flags!Appendable
<1>2. /\ bits[o] \in Words /\ Len(bits[o]) \in Nat /\ n \in Nat
      /\ preset[o] \in BOOLEAN /\ n \in 0 .. MaxRows
      /\ nulls[o] = Cardinality(NullRows(bits[o], n)) /\ Len(bits[o]) = Flags!WordsFor(n)
      /\ ~ preset[o] => \A j \in n .. Width * Len(bits[o]) - 1 : ~ Flag(bits[o], j)
  BY <1>1, FlagFacts, Constants_ DEF Flags!Idle
<1>3. m \in Nat /\ Len(bits[o]) <= m
  <2>1. n + count \in Nat /\ n <= n + count
    BY <1>2
  <2>2. QED BY <1>2, <2>1, WordsForBounds, WordsForMonotone
<1> HIDE DEF m
<1>4. /\ words \in Words /\ Len(words) = m
      /\ \A w \in 1 .. m : words[w] = IF w <= Len(bits[o]) THEN bits[o][w] ELSE {}
  <2>1. ASSUME NEW w \in 1 .. m
        PROVE  (IF w <= Len(bits[o]) THEN bits[o][w] ELSE {}) \in SUBSET Flags!Bits
    <3>1. CASE w <= Len(bits[o])
      <4>1. w \in 1 .. Len(bits[o])
        BY <1>2, <1>3, <3>1
      <4>2. bits[o][w] \in SUBSET Flags!Bits
        BY <1>2, <4>1, ElementOfSeq DEF Words
      <4>3. QED BY <3>1, <4>2
    <3>2. CASE ~ (w <= Len(bits[o]))
      BY <3>2
    <3>3. QED BY <3>1, <3>2
  <2>2. words \in [1 .. m -> SUBSET Flags!Bits]
    BY <2>1
  <2>3. words \in Words /\ Len(words) = m
    BY <1>3, <2>2, SeqDef, LenProperties DEF Words
  <2>4. QED BY <2>3
<1> HIDE DEF words
<1>5. \A j \in Nat : j < n => (Flag(words, j) <=> Flag(bits[o], j))
  <2> SUFFICES ASSUME NEW j \in Nat, j < n PROVE Flag(words, j) <=> Flag(bits[o], j)
    OBVIOUS
  <2>1. Flags!WordOf(j) <= Len(bits[o])
    BY RowHasWord
  <2>2. Flags!WordOf(j) \in 1 .. m
    BY <1>2, <1>3, <2>1, WordAndBit
  <2>3. QED BY <1>4, <2>1, <2>2 DEF Flag
<1>6. \A j \in n .. Width * Len(words) - 1 : ~ Flag(words, j)
  <2> SUFFICES ASSUME NEW j \in n .. Width * Len(words) - 1 PROVE ~ Flag(words, j)
    OBVIOUS
  <2>1. j \in Nat /\ j >= n /\ j < Width * m
    BY <1>2, <1>3, <1>4, Constants_
  <2>2. Flags!WordOf(j) \in 1 .. m
    <3>1. Flags!WordOf(j) <= m
      BY <1>3, <2>1, InWords
    <3>2. QED BY <1>3, <2>1, <3>1, WordAndBit
  <2>3. CASE Flags!WordOf(j) <= Len(bits[o])
    <3>1. j < Width * Len(bits[o])
      BY <1>2, <2>1, <2>3, InWords
    <3>2. j \in n .. Width * Len(bits[o]) - 1
      BY <1>2, <2>1, <3>1, Constants_
    <3>3. ~ Flag(bits[o], j)
      BY <1>1, <1>2, <3>2
    <3>4. QED BY <1>4, <2>2, <2>3, <3>3 DEF Flag
  <2>4. CASE ~ (Flags!WordOf(j) <= Len(bits[o]))
    BY <1>4, <2>2, <2>4 DEF Flag
  <2>5. QED BY <2>3, <2>4
<1>7. nulls[o] = Cardinality(NullRows(words, n))
  <2>1. \A j \in 0 .. n - 1 : j \in Nat /\ j < n
    BY <1>2
  <2> HIDE DEF n
  <2>2. NullRows(words, n) = NullRows(bits[o], n)
    BY <1>5, <2>1 DEF NullRows
  <2>3. QED BY <1>2, <2>2
<1>8. /\ size' = [size EXCEPT ![o] = n] /\ preset' = [preset EXCEPT ![o] = FALSE]
      /\ nulls' = [nulls EXCEPT ![o] = nulls[o]]
  BY <1>1 DEF FlagsInv, Flags!TypeOK
<1>9. /\ copy' # Flags!NoCopy /\ copy'.into = o /\ copy'.count = count
      /\ copy' \in [into : Objects, source : Objects, start : Nat, count : Nat \ {0},
                    base : Nat, first : Nat]
      /\ copy'.start + copy'.count <= size'[copy'.source]
  BY <1>1, <1>2 DEF Flags!NoCopy
<1>10. Len(words) = Flags!WordsFor(n + copy'.count)
  BY <1>4, <1>9 DEF m
<1> HIDE DEF n
<1>11. FlagsInv'
  BY <1>1, <1>2, <1>4, <1>6, <1>7, <1>8, <1>9, <1>10, OneChanged
<1>12. bits'[o] = words /\ bits'[source] = bits[source]
  BY <1>1 DEF FlagsInv, Flags!TypeOK
<1>13. QED BY <1>1, <1>5, <1>11, <1>12 DEF n

\* The bits collected from one or two words are the flags of the rows from `start' on.
LEMMA GatheredFlags ==
  ASSUME NEW words \in Words, NEW start \in Nat, NEW take \in 1 .. Width,
         Flags!WordOf(start + (take - 1)) <= Len(words)
  PROVE  /\ Flags!Gathered(words, start, take) \in SUBSET (0 .. take - 1)
         /\ \A j \in 0 .. take - 1 :
              j \in Flags!Gathered(words, start, take) <=> Flag(words, start + j)
<1> DEFINE s == Flags!BitOf(start)
           w == Flags!WordOf(start)
           value == Flags!ShiftRight(words[w], s)
           more == IF s # 0 /\ take > Width - s
                   THEN Flags!ShiftLeft(words[w + 1], Width - s) ELSE {}
<1>1. /\ s \in 0 .. Width - 1 /\ w \in Nat /\ w >= 1 /\ Width \in Nat /\ take \in Nat
      /\ Len(words) \in Nat
  <2>1. Len(words) \in Nat
    BY LenProperties DEF Words
  <2>2. s \in 0 .. Width - 1 /\ w \in Nat /\ w >= 1
    BY WordAndBit
  <2>3. Width \in Nat /\ take \in Nat
    BY Constants_
  <2>4. QED BY <2>1, <2>2, <2>3
<1>2. Flags!Gathered(words, start, take) = (value \cup more) \cap (0 .. take - 1)
  BY DEF Flags!Gathered, Flags!Ones
<1>4. Flags!WordOf(start + (take - 1)) <= Len(words)
  OBVIOUS
<1>3. \A v \in 1 .. Len(words) : words[v] \subseteq 0 .. Width - 1
  BY ElementOfSeq DEF Words, Flags!Bits
<1>5. ASSUME NEW j \in 0 .. take - 1
      PROVE  j \in value \cup more <=> Flag(words, start + j)
  <2>1. /\ j \in Nat /\ j <= Width - 1 /\ start + j \in Nat /\ start + (take - 1) \in Nat
        /\ start + j <= start + (take - 1)
    BY <1>1
  <2>2. Flags!WordOf(start + j) \in 1 .. Len(words)
    <3>1. start + (take - 1) < Width * Len(words)
      BY <1>1, <2>1, InWords
    <3>2. Width * Len(words) \in Nat
      BY <1>1
    <3>3. start + j < Width * Len(words)
      BY <2>1, <3>1, <3>2
    <3>4. Flags!WordOf(start + j) <= Len(words)
      BY <1>1, <2>1, <3>3, InWords
    <3>5. QED BY <1>1, <2>1, <3>4, WordAndBit
  <2>3. CASE s + j < Width
    <3>1. Flags!WordOf(start + j) = w /\ Flags!BitOf(start + j) = s + j
      BY <2>1, <2>3, Neighbours
    <3>2. words[w] \subseteq 0 .. Width - 1
      BY <1>3, <2>2, <3>1
    <3> HIDE DEF s, w
    <3>3. j \in value <=> s + j \in words[w]
      BY <1>1, <2>1, <2>3, <3>2 DEF Flags!ShiftRight, Flags!Bits
    <3>4. j \notin more
      <4>1. CASE s # 0 /\ take > Width - s
        <5>1. w + 1 \in 1 .. Len(words)
          BY <1>1, <1>4, <4>1, NextWord DEF s, w
        <5>2. words[w + 1] \subseteq 0 .. Width - 1
          BY <1>3, <5>1
        <5>3. QED BY <1>1, <2>1, <2>3, <4>1, <5>2 DEF Flags!ShiftLeft, Flags!Bits
      <4>2. CASE ~ (s # 0 /\ take > Width - s)
        BY <4>2
      <4>3. QED BY <4>1, <4>2
    <3>5. QED BY <3>1, <3>3, <3>4 DEF Flag
  <2>4. CASE s + j >= Width
    <3>1. Flags!WordOf(start + j) = w + 1 /\ Flags!BitOf(start + j) = s + j - Width
      BY <1>1, <2>1, <2>4, Neighbours
    <3>2. words[w + 1] \subseteq 0 .. Width - 1
      BY <1>3, <2>2, <3>1
    <3>3. w \in 1 .. Len(words)
      BY <1>1, <2>2, <3>1
    <3>4. words[w] \subseteq 0 .. Width - 1
      BY <1>3, <3>3
    <3> HIDE DEF s, w
    <3>5. j \notin value
      BY <1>1, <2>1, <2>4, <3>4 DEF Flags!ShiftRight, Flags!Bits
    <3>6. s # 0 /\ take > Width - s
      BY <1>1, <2>1, <2>4
    <3>7. j \in more <=> s + j - Width \in words[w + 1]
      BY <1>1, <2>1, <2>4, <3>2, <3>6 DEF Flags!ShiftLeft, Flags!Bits
    <3>8. QED BY <3>1, <3>5, <3>7 DEF Flag
  <2>5. QED BY <1>1, <2>1, <2>3, <2>4
<1> HIDE DEF value, more
<1>6. QED BY <1>2, <1>5

\* One turn of append_range(): the flags it writes are those of the source, and no
\* other row's flag changes.
LEMMA FlagsCopyChunk ==
  ASSUME FlagsInv, ~ Flags!Idle, copy.into # copy.source, ~ preset[copy.into],
         size[copy.into] + copy.count <= MaxRows, Flags!CopyChunk
  PROVE  \E take \in 1 .. copy.count :
           /\ FlagsInv'
           /\ size' = [size EXCEPT ![copy.into] = @ + take]
           /\ preset' = preset
           /\ copy' = IF copy.count = take THEN Flags!NoCopy
                      ELSE [copy EXCEPT !.start = @ + take, !.count = @ - take]
           /\ \A q \in Objects : q # copy.into => bits'[q] = bits[q]
           /\ \A j \in Nat : j < size[copy.into] =>
                (Flag(bits'[copy.into], j) <=> Flag(bits[copy.into], j))
           /\ \A j \in 0 .. take - 1 :
                Flag(bits'[copy.into], size[copy.into] + j) <=> Flag(bits[copy.source], copy.start + j)
<1> DEFINE o == copy.into
           source == copy.source
           start == copy.start
           count == copy.count
           n == size[o]
           w == Flags!WordOf(n)
           s == Flags!BitOf(n)
           room == Flags!Room(s)
           take == Flags!Min({count, room})
           value == IF Flags!AllValid(source) THEN Flags!Ones(take)
                    ELSE Flags!Gathered(bits[source], start, take)
           word == Flags!Merged(bits[o][w], Flags!Ones(take), value, s)
           new == [bits[o] EXCEPT ![w] = word]
           k == nulls[o] + Flags!NullsTaken(take, value)
<1>1. /\ o \in Objects /\ source \in Objects /\ start \in Nat /\ count \in Nat /\ count >= 1
      /\ copy.base \in Nat /\ copy.first \in Nat
      /\ start + count <= size[source] /\ source # o /\ ~ preset[o] /\ n + count <= MaxRows
      /\ copy \in [into : Objects, source : Objects, start : Nat, count : Nat \ {0},
                   base : Nat, first : Nat]
      /\ copy # Flags!NoCopy
  BY DEF FlagsInv, Flags!TypeOK, Flags!Idle
<1>2. /\ bits[o] \in Words /\ Len(bits[o]) \in Nat /\ n \in Nat /\ preset[o] \in BOOLEAN
      /\ nulls[o] = Cardinality(NullRows(bits[o], n))
      /\ Len(bits[o]) = Flags!WordsFor(n + count)
      /\ ~ preset[o] => \A j \in n .. Width * Len(bits[o]) - 1 : ~ Flag(bits[o], j)
      /\ bits[source] \in Words /\ Len(bits[source]) \in Nat /\ size[source] \in Nat
      /\ nulls[source] = Cardinality(NullRows(bits[source], size[source]))
  BY <1>1, FlagFacts DEF Flags!Idle
<1>3. /\ w \in Nat /\ w >= 1 /\ s \in 0 .. Width - 1 /\ Width \in Nat
      /\ n = Width * (w - 1) + s
  BY <1>2, WordAndBit, Constants_
<1>4. /\ take \in 1 .. count /\ take \in 1 .. Width /\ take \in Nat /\ s + take <= Width
  <2>1. room = Width - s
    BY DEF Flags!Room
  <2>2. room \in Nat /\ room >= 1 /\ room <= Width
    BY <1>3, <2>1
  <2> HIDE DEF room, s
  <2>3. take = IF count <= room THEN count ELSE room
    BY <1>1, <2>2, MinOfTwo
  <2> HIDE DEF take
  <2>4. QED BY <1>1, <1>3, <2>1, <2>2, <2>3
<1>5. /\ bits' = [bits EXCEPT ![o] = new] /\ nulls' = [nulls EXCEPT ![o] = k]
      /\ size' = [size EXCEPT ![o] = n + take] /\ preset' = preset
      /\ copy' = IF count = take THEN Flags!NoCopy
                 ELSE [copy EXCEPT !.start = @ + take, !.count = @ - take]
  BY <1>1 DEF Flags!CopyChunk, FlagsInv, Flags!TypeOK
<1> HIDE DEF take
<1>6. /\ value \in SUBSET (0 .. take - 1)
      /\ \A j \in 0 .. take - 1 : j \in value <=> Flag(bits[source], start + j)
  <2>1. CASE Flags!AllValid(source)
    <3>1. \A i \in 0 .. size[source] - 1 : Flag(bits[source], i)
      BY <1>2, <2>1, NoNullRows DEF Flags!AllValid
    <3>2. \A j \in 0 .. take - 1 : start + j \in 0 .. size[source] - 1
      <4> HIDE DEF start, count, source
      <4>1. QED BY <1>1, <1>2, <1>4, SMTT(30)
    <3>3. value = 0 .. take - 1
      BY <2>1 DEF Flags!Ones
    <3>4. QED BY <3>1, <3>2, <3>3
  <2>2. CASE ~ Flags!AllValid(source)
    <3>1. start + (take - 1) \in Nat /\ start + (take - 1) < size[source]
      <4> DEFINE z == size[source]
      <4>1. z \in Nat /\ start + count <= z
        BY <1>1, <1>2
      <4> HIDE DEF start, count, z
      <4>2. start + (take - 1) \in Nat /\ start + (take - 1) < z
        BY <1>1, <1>4, <4>1
      <4>3. QED BY <4>2 DEF z
    <3>2. Flags!WordOf(start + (take - 1)) <= Len(bits[source])
      BY <1>1, <3>1, RowHasWord
    <3>3. value = Flags!Gathered(bits[source], start, take)
      BY <2>2
    <3>4. QED BY <1>1, <1>2, <1>4, <3>2, <3>3, GatheredFlags, SMTT(30)
  <2>3. QED BY <2>1, <2>2
<1> HIDE DEF value
\* The word that is written.
<1>7. w \in 1 .. Len(bits[o])
  <2>1. n + 1 \in Nat /\ n + count \in Nat /\ n + 1 <= n + count
    BY <1>1, <1>2, SMTT(30)
  <2>2. Flags!WordsFor(n + 1) <= Len(bits[o])
    BY <1>2, <2>1, WordsForMonotone
  <2>3. w = Flags!WordsFor(n + 1)
    BY <1>2, WordsForNext
  <2>4. QED BY <1>2, <1>3, <2>2, <2>3
<1>8. bits[o][w] \in SUBSET (0 .. Width - 1)
  BY <1>2, <1>7, ElementOfSeq DEF Words, Flags!Bits
<1>9. /\ word \in SUBSET Flags!Bits
      /\ \A b \in 0 .. Width - 1 :
           b \in word <=> IF b >= s /\ b < s + take THEN b - s \in value ELSE b \in bits[o][w]
  <2> DEFINE was == bits[o][w]
  <2>1. was \in SUBSET (0 .. Width - 1)
    BY <1>8
  <2>2. word = (was \ ({b + s : b \in 0 .. take - 1} \cap (0 .. Width - 1)))
               \cup ({b + s : b \in value} \cap (0 .. Width - 1))
    BY DEF Flags!Merged, Flags!ShiftLeft, Flags!Ones, Flags!Bits
  <2> HIDE DEF word, was, s
  <2>3. ASSUME NEW b \in 0 .. Width - 1
        PROVE  b \in word <=> IF b >= s /\ b < s + take THEN b - s \in value ELSE b \in was
    <3>1. CASE b >= s /\ b < s + take
      <4>1. b - s \in 0 .. take - 1 /\ (b - s) + s = b
        BY <1>3, <1>4, <3>1
      <4>2. b \in {c + s : c \in 0 .. take - 1}
        BY <4>1
      <4>3. b \in {c + s : c \in value} <=> b - s \in value
        BY <1>3, <1>6, <4>1
      <4>4. QED BY <2>2, <3>1, <4>2, <4>3
    <3>2. CASE ~ (b >= s /\ b < s + take)
      <4>1. b \notin {c + s : c \in 0 .. take - 1}
        BY <1>3, <1>4, <3>2
      <4>2. b \notin {c + s : c \in value}
        BY <1>6, <4>1
      <4>3. QED BY <2>2, <3>2, <4>1, <4>2
    <3>3. QED BY <3>1, <3>2
  <2>4. word \in SUBSET (0 .. Width - 1)
    BY <2>1, <2>2
  <2>5. QED BY <2>3, <2>4 DEF was, Flags!Bits
<1> HIDE DEF word
<1>10. /\ new \in Words /\ Len(new) = Len(bits[o]) /\ new[w] = word
       /\ \A v \in 1 .. Len(bits[o]) : v # w => new[v] = bits[o][v]
  <2> DEFINE words == bits[o]
  <2>1. words \in Words /\ w \in 1 .. Len(words) /\ word \in SUBSET Flags!Bits
    BY <1>2, <1>7, <1>9
  <2> HIDE DEF words, w
  <2>2. [words EXCEPT ![w] = word] \in Words /\ Len([words EXCEPT ![w] = word]) = Len(words)
    BY <2>1, ExceptSeq DEF Words
  <2>3. \A v \in 1 .. Len(words) : [words EXCEPT ![w] = word][v] = IF v = w THEN word ELSE words[v]
    BY <2>1, LenProperties DEF Words
  <2>4. QED BY <2>1, <2>2, <2>3 DEF words
<1> HIDE DEF new
\* The flags that it changes.
<1>11. ASSUME NEW i \in Nat, Flags!WordOf(i) <= Len(bits[o]), i < n \/ i >= n + take
       PROVE  Flag(new, i) <=> Flag(bits[o], i)
  <2>1. /\ Flags!WordOf(i) \in 1 .. Len(bits[o]) /\ Flags!BitOf(i) \in 0 .. Width - 1
        /\ i = Width * (Flags!WordOf(i) - 1) + Flags!BitOf(i)
    BY <1>2, <1>11, WordAndBit
  <2>2. CASE Flags!WordOf(i) # w
    BY <1>10, <2>1, <2>2 DEF Flag
  <2>3. CASE Flags!WordOf(i) = w
    <3>1. ~ (Flags!BitOf(i) >= s /\ Flags!BitOf(i) < s + take)
      <4> DEFINE b == Flags!BitOf(i)
                 base == Width * (w - 1)
      <4>1. i = base + b /\ n = base + s /\ b \in 0 .. Width - 1 /\ base \in Nat
        BY <1>3, <2>1, <2>3
      <4> HIDE DEF b, base, s, n
      <4>2. ~ (b >= s /\ b < s + take)
        BY <1>3, <1>4, <1>11, <4>1
      <4>3. QED BY <4>2 DEF b
    <3>2. QED BY <1>9, <1>10, <1>7, <2>1, <2>3, <3>1 DEF Flag
  <2>4. QED BY <2>2, <2>3
<1>12. ASSUME NEW j \in 0 .. take - 1
       PROVE  Flag(new, n + j) <=> Flag(bits[source], start + j)
  <2>1. j \in Nat /\ s + j < Width
    BY <1>3, <1>4
  <2>2. Flags!WordOf(n + j) = w /\ Flags!BitOf(n + j) = s + j
    BY <1>2, <2>1, Neighbours
  <2>3. s + j \in 0 .. Width - 1 /\ s + j >= s /\ s + j < s + take /\ (s + j) - s = j
    <3> HIDE DEF s
    <3>1. QED BY <1>3, <1>4, <2>1
  <2>4. s + j \in word <=> j \in value
    BY <1>9, <2>3
  <2>5. QED BY <1>6, <1>10, <2>2, <2>4 DEF Flag
<1>13. ASSUME NEW j \in Nat, j < n
       PROVE  Flag(new, j) <=> Flag(bits[o], j)
  <2>1. Flags!WordOf(j) <= Len(bits[o])
    BY <1>1, <1>13, RowHasWord
  <2>2. QED BY <1>11, <1>13, <2>1
\* The count and the bits behind the rows.
<1>14. k = Cardinality(NullRows(new, n + take))
  <2>1. Cardinality(NullRows(new, n + take))
          = Cardinality(NullRows(bits[o], n)) + (take - Cardinality(value))
    <3>1. /\ \A i \in 0 .. n - 1 : Flag(new, i) <=> Flag(bits[o], i)
          /\ \A j \in 0 .. take - 1 : Flag(new, n + j) <=> j \in value
      BY <1>2, <1>6, <1>12, <1>13
    <3> DEFINE words == bits[o]
    <3>2. /\ n \in Nat /\ \A i \in 0 .. n - 1 : Flag(new, i) <=> Flag(words, i)
          /\ \A j \in 0 .. take - 1 : Flag(new, n + j) <=> j \in value
      BY <1>2, <3>1
    <3>3. Lengthened(words, new, n, take, value)
      BY <1>4, <1>6, <3>2 DEF Lengthened
    <3> HIDE DEF words
    <3>4. QED BY <3>3, CountedRange DEF words
  <2>2. Flags!NullsTaken(take, value) = take - Cardinality(value)
    BY SameCount DEF Flags!NullsTaken
  <2>3. QED BY <1>2, <2>1, <2>2
<1>15. \A i \in n + take .. Width * Len(new) - 1 : ~ Flag(new, i)
  <2> SUFFICES ASSUME NEW i \in n + take .. Width * Len(new) - 1 PROVE ~ Flag(new, i)
    OBVIOUS
  <2> DEFINE last == Width * Len(bits[o])
  <2>0. n \in Nat /\ take \in Nat /\ last \in Nat /\ i \in n + take .. last - 1
    BY <1>2, <1>4, <1>10, Constants_
  <2> HIDE DEF last, n
  <2>1. i \in Nat /\ i >= n + take /\ i >= n /\ i < last /\ i \in n .. last - 1
    BY <2>0
  <2> USE DEF last, n
  <2>2. Flags!WordOf(i) <= Len(bits[o])
    BY <1>2, <2>1, InWords
  <2>3. QED BY <1>1, <1>2, <1>11, <2>1, <2>2
<1>16. /\ n + take \in 0 .. MaxRows
       /\ preset' = [preset EXCEPT ![o] = FALSE]
  <2>1. preset' = [preset EXCEPT ![o] = FALSE]
    BY <1>1, <1>2, <1>5 DEF FlagsInv, Flags!TypeOK
  <2> HIDE DEF n, count, o
  <2>2. QED BY <1>1, <1>2, <1>4, <2>1, Constants_
<1>17. /\ copy' = Flags!NoCopy \/ copy'.into = o
       /\ Len(new) = Flags!WordsFor(IF copy' # Flags!NoCopy /\ copy'.into = o
                                    THEN (n + take) + copy'.count ELSE n + take)
       /\ \/ copy' = Flags!NoCopy
          \/ /\ copy' \in [into : Objects, source : Objects, start : Nat, count : Nat \ {0},
                           base : Nat, first : Nat]
             /\ copy'.start + copy'.count <= size'[copy'.source]
  <2>1. CASE count = take
    BY <1>2, <1>5, <1>10, <2>1
  <2>2. CASE count # take
    <3>1. copy' = [copy EXCEPT !.start = @ + take, !.count = @ - take]
      BY <1>5, <2>2
    <3>2. /\ copy'.into = o /\ copy'.source = source /\ copy'.start = start + take
          /\ copy'.count = count - take /\ copy'.base = copy.base /\ copy'.first = copy.first
      BY <1>1, <3>1
    <3>3. start + take \in Nat /\ count - take \in Nat \ {0}
          /\ (start + take) + (count - take) = start + count
          /\ (n + take) + (count - take) = n + count
      <4> HIDE DEF start, count, n
      <4>1. QED BY <1>1, <1>2, <1>4, <2>2
    <3>4. copy' \in [into : Objects, source : Objects, start : Nat, count : Nat \ {0},
                     base : Nat, first : Nat]
      BY <1>1, <3>1, <3>3
    <3>5. copy' # Flags!NoCopy
      BY <3>4 DEF Flags!NoCopy
    <3>6. size'[source] = size[source]
      BY <1>1, <1>5 DEF FlagsInv, Flags!TypeOK
    <3>7. QED BY <1>1, <1>2, <1>10, <3>2, <3>3, <3>4, <3>5, <3>6
  <2>3. QED BY <2>1, <2>2
<1>18. FlagsInv'
  <2>1. copy = Flags!NoCopy \/ copy.into = o
    OBVIOUS
  <2> HIDE DEF n, k, o
  <2>2. QED BY <1>1, <1>5, <1>10, <1>14, <1>15, <1>16, <1>17, <2>1, OneChanged
<1>19. bits'[o] = new /\ \A q \in Objects : q # o => bits'[q] = bits[q]
  BY <1>1, <1>5 DEF FlagsInv, Flags!TypeOK
<1>20. size' = [size EXCEPT ![o] = @ + take]
  BY <1>5
<1>21. /\ \A j \in Nat : j < n => (Flag(bits'[o], j) <=> Flag(bits[o], j))
       /\ \A j \in 0 .. take - 1 : Flag(bits'[o], n + j) <=> Flag(bits[source], start + j)
  BY <1>12, <1>13, <1>19
<1>22. QED BY <1>4, <1>5, <1>18, <1>19, <1>20, <1>21

-----------------------------------------------------------------------------
\* Slices of sequences, the empty ones included.
LEMMA SliceOfFront ==
  ASSUME NEW S, NEW s \in Seq(S), NEW t \in Seq(S), NEW a \in Nat, NEW b \in Nat,
         a <= b, b <= Len(s)
  PROVE  SubSeq(s \o t, a + 1, b) = SubSeq(s, a + 1, b)
<1>1. CASE a = b
  <2>1. b < a + 1 /\ a + 1 \in Int /\ b \in Int
    BY <1>1
  <2>2. QED BY <2>1, SubSeqEmpty
<1>2. CASE a # b
  <2>1. a + 1 \in 1 .. Len(s) /\ b \in 1 .. Len(s)
    BY <1>2, LenProperties
  <2>2. QED BY <2>1, SubSeqOfConcat1
<1>3. QED BY <1>1, <1>2

LEMMA SliceOfBack ==
  ASSUME NEW S, NEW s \in Seq(S), NEW t \in Seq(S), NEW a \in Nat, NEW b \in Nat,
         a <= b, b <= Len(t)
  PROVE  SubSeq(s \o t, (Len(s) + a) + 1, Len(s) + b) = SubSeq(t, a + 1, b)
<1> DEFINE n == Len(s)
<1>1. n \in Nat /\ Len(t) \in Nat
  BY LenProperties
<1>2. CASE a = b
  <2> HIDE DEF n
  <2>1. b < a + 1 /\ n + b < (n + a) + 1
        /\ a + 1 \in Int /\ b \in Int /\ (n + a) + 1 \in Int /\ n + b \in Int
    BY <1>1, <1>2
  <2>2. SubSeq(t, a + 1, b) = << >> /\ SubSeq(s \o t, (n + a) + 1, n + b) = << >>
    BY <2>1, SubSeqEmpty
  <2>3. QED BY <2>2 DEF n
<1>3. CASE a # b
  <2>1. /\ (n + a) + 1 \in n + 1 .. n + Len(t) /\ n + b \in n + 1 .. n + Len(t)
        /\ ((n + a) + 1) - n = a + 1 /\ (n + b) - n = b
    <3> HIDE DEF n
    <3>1. QED BY <1>1, <1>3
  <2>2. SubSeq(s \o t, (n + a) + 1, n + b) = SubSeq(t, ((n + a) + 1) - n, (n + b) - n)
    BY <2>1, SubSeqOfConcat2
  <2>3. QED BY <2>1, <2>2
<1>4. QED BY <1>2, <1>3

LEMMA SliceOfSlice ==
  ASSUME NEW S, NEW s \in Seq(S), NEW i \in Nat, NEW j \in Nat, i <= j, j <= Len(s),
         NEW a \in Nat, NEW b \in Nat, a <= b, b <= j - i
  PROVE  SubSeq(SubSeq(s, i + 1, j), a + 1, b) = SubSeq(s, (i + a) + 1, i + b)
<1>1. CASE a = b
  <2>1. b < a + 1 /\ i + b < (i + a) + 1
        /\ a + 1 \in Int /\ b \in Int /\ (i + a) + 1 \in Int /\ i + b \in Int
    BY <1>1
  <2>2. SubSeq(SubSeq(s, i + 1, j), a + 1, b) = << >> /\ SubSeq(s, (i + a) + 1, i + b) = << >>
    BY <2>1, SubSeqEmpty
  <2>3. QED BY <2>2
<1>2. CASE a # b
  <2>1. i + 1 \in 1 .. Len(s) /\ j \in 1 .. Len(s)
    BY <1>2, LenProperties
  <2>2. a + 1 \in 1 .. (j - (i + 1)) + 1 /\ b \in 1 .. (j - (i + 1)) + 1
    BY <1>2
  <2>3. SubSeq(s, i + 1, j) \in Seq(S)
    <3>1. \A k \in i + 1 .. j : s[k] \in S
      BY <2>1, ElementOfSeq, LenProperties
    <3>2. i + 1 \in Int /\ j \in Int
      OBVIOUS
    <3>3. QED BY <3>1, <3>2, SubSeqProperties
  <2>4. SubSeq(SubSeq(s, i + 1, j), a + 1, b)
          = SubSeq(s, ((i + 1) + (a + 1)) - 1, ((i + 1) + b) - 1)
    BY <2>1, <2>2, <2>3, SubSeqOfSubSeq
  <2>5. ((i + 1) + (a + 1)) - 1 = (i + a) + 1 /\ ((i + 1) + b) - 1 = i + b
    OBVIOUS
  <2>6. QED BY <2>4, <2>5
<1>3. QED BY <1>1, <1>2

\* The bytes and the offsets of a column of n strings, and the string of one row.
Arena(arena, marks, n) ==
  /\ arena \in Seq(STRING) /\ Len(arena) <= ArenaLimit
  /\ marks \in Seq(0 .. ArenaLimit) /\ Len(marks) = 1 + n
  /\ \A i, j \in 1 .. 1 + n : i <= j => marks[i] <= marks[j]
  /\ marks[1] = 0 /\ marks[1 + n] = Len(arena)
Piece(arena, marks, row) == SubSeq(arena, marks[row + 1] + 1, marks[row + 2])

\* Where the string of a row lies.
LEMMA ArenaFacts ==
  ASSUME NEW arena, NEW marks, NEW n \in Nat, Arena(arena, marks, n)
  PROVE  /\ Len(arena) \in 0 .. ArenaLimit
         /\ \A i \in 1 .. 1 + n : marks[i] \in Nat /\ marks[i] <= Len(arena)
         /\ \A i, j \in 1 .. 1 + n : i <= j => marks[i] <= marks[j]
         /\ \A row \in 0 .. n - 1 : /\ row + 1 \in 1 .. 1 + n /\ row + 2 \in 1 .. 1 + n
                                    /\ marks[row + 1] <= marks[row + 2]
<1>1. Len(arena) \in Nat /\ Len(arena) <= ArenaLimit
  BY LenProperties DEF Arena
<1>2. \A i \in 1 .. 1 + n : marks[i] \in 0 .. ArenaLimit
  BY ElementOfSeq DEF Arena
<1>3. \A i, j \in 1 .. 1 + n : i <= j => marks[i] <= marks[j]
  BY DEF Arena
<1>4. marks[1 + n] = Len(arena)
  BY DEF Arena
<1>5. ASSUME NEW i \in 1 .. 1 + n PROVE marks[i] \in Nat /\ marks[i] <= Len(arena)
  <2>1. i <= 1 + n /\ 1 + n \in 1 .. 1 + n
    OBVIOUS
  <2>2. QED BY <1>2, <1>3, <1>4, <2>1, Constants_
<1>6. ASSUME NEW row \in 0 .. n - 1
      PROVE  /\ row + 1 \in 1 .. 1 + n /\ row + 2 \in 1 .. 1 + n
             /\ marks[row + 1] <= marks[row + 2]
  <2>1. row + 1 \in 1 .. 1 + n /\ row + 2 \in 1 .. 1 + n /\ row + 1 <= row + 2
    OBVIOUS
  <2>2. QED BY <1>3, <2>1
<1>7. QED BY <1>1, <1>3, <1>5, <1>6, Constants_

\* An offset that fits keeps its value.
LEMMA NotTruncated ==
  ASSUME NEW x \in 0 .. ArenaLimit
  PROVE  Truncated(x) = x
<1>1. ArenaLimit + 1 \in Nat \ {0} /\ x \in Nat /\ x < ArenaLimit + 1
  BY Constants_
<1> DEFINE m == ArenaLimit + 1
<1> HIDE DEF m
<1>2. x % m = x
  BY <1>1, Z3 DEF m
<1>3. QED BY <1>2 DEF Truncated, m

\* Where the `count' strings of some bytes begin and end, counted from the first byte.
Cuts(h, count, len) ==
  /\ h \in [0 .. count -> Nat] /\ h[0] = 0 /\ h[count] = len
  /\ \A i, j \in 0 .. count : i <= j => h[i] <= h[j]
\* The marks of n strings, continued by those cuts behind `base' bytes.
Continued(new, marks, n, count, base, h) ==
  /\ new \in Seq(0 .. ArenaLimit) /\ Len(new) = 1 + (n + count)
  /\ \A i \in 1 .. 1 + n : new[i] = marks[i]
  /\ \A i \in 1 .. count : new[(1 + n) + i] = base + h[i]

\* Bytes that go to the end of the arena with marks where its strings begin and end:
\* the rows before them keep their strings and the new ones have those of the bytes.
LEMMA Landing ==
  ASSUME NEW arena, NEW marks, NEW n \in Nat, Arena(arena, marks, n),
         NEW part \in Seq(STRING), Len(part) <= ArenaLimit - Len(arena),
         NEW count \in Nat, NEW h, Cuts(h, count, Len(part)),
         NEW new, Continued(new, marks, n, count, Len(arena), h)
  PROVE  /\ Arena(arena \o part, new, n + count)
         /\ \A row \in 0 .. n - 1 : Piece(arena \o part, new, row) = Piece(arena, marks, row)
         /\ \A j \in 0 .. count - 1 :
              Piece(arena \o part, new, n + j) = SubSeq(part, h[j] + 1, h[j + 1])
<1> DEFINE base == Len(arena)
<1>1. /\ base \in 0 .. ArenaLimit /\ Len(part) \in Nat /\ ArenaLimit \in Nat
      /\ arena \in Seq(STRING) /\ part \in Seq(STRING)
  BY ArenaFacts, LenProperties, Constants_ DEF Arena
<1>2. /\ \A i \in 1 .. 1 + n : marks[i] \in Nat /\ marks[i] <= base
      /\ \A i, j \in 1 .. 1 + n : i <= j => marks[i] <= marks[j]
      /\ marks[1] = 0 /\ marks[1 + n] = base
  BY ArenaFacts DEF Arena
<1>3. /\ arena \o part \in Seq(STRING) /\ Len(arena \o part) = base + Len(part)
      /\ base + Len(part) <= ArenaLimit
  <2>1. arena \o part \in Seq(STRING) /\ Len(arena \o part) = base + Len(part)
    BY <1>1, ConcatProperties
  <2> HIDE DEF base
  <2>2. Len(part) <= ArenaLimit - base
    BY DEF base
  <2>3. QED BY <1>1, <2>1, <2>2
\* Every new mark, the end of the old bytes included.
<1>4. /\ \A i \in 0 .. count : h[i] \in Nat /\ h[i] <= Len(part)
      /\ \A i, j \in 0 .. count : i <= j => h[i] <= h[j]
  <2>1. /\ h \in [0 .. count -> Nat] /\ h[count] = Len(part)
        /\ \A i, j \in 0 .. count : i <= j => h[i] <= h[j]
    BY DEF Cuts
  <2>2. \A i \in 0 .. count : i <= count /\ count \in 0 .. count
    OBVIOUS
  <2>3. \A i \in 0 .. count : h[i] \in Nat
    BY <2>1
  <2>4. QED BY <2>1, <2>2, <2>3
<1>5. ASSUME NEW i \in 0 .. count PROVE new[(1 + n) + i] = base + h[i]
  <2>1. CASE i = 0
    <3>1. (1 + n) + i = 1 + n /\ 1 + n \in 1 .. 1 + n
      BY <2>1
    <3>2. new[1 + n] = marks[1 + n] /\ h[0] = 0
      BY <3>1 DEF Cuts, Continued
    <3>3. QED BY <1>1, <1>2, <2>1, <3>1, <3>2
  <2>2. CASE i # 0
    <3>1. i \in 1 .. count
      BY <2>2
    <3>2. QED BY <3>1 DEF Continued
  <2>3. QED BY <2>1, <2>2
<1>6. /\ new \in Seq(0 .. ArenaLimit) /\ Len(new) = 1 + (n + count)
       /\ \A i \in 1 .. 1 + n : new[i] = marks[i]
  BY DEF Continued
<1> HIDE DEF base
<1>7. ASSUME NEW i \in 1 .. 1 + (n + count), NEW j \in 1 .. 1 + (n + count), i <= j
      PROVE  new[i] <= new[j]
  <2>1. CASE j <= 1 + n
    <3>1. i \in 1 .. 1 + n /\ j \in 1 .. 1 + n
      BY <1>7, <2>1
    <3>2. QED BY <1>2, <1>7, <1>6, <3>1
  <2>2. CASE j > 1 + n
    <3> DEFINE d == j - (1 + n)
    <3>1. d \in 0 .. count /\ (1 + n) + d = j
      BY <1>7, <2>2
    <3>2. new[j] = base + h[d] /\ h[d] \in Nat
      BY <1>4, <1>5, <3>1
    <3>3. CASE i <= 1 + n
      <4>1. new[i] = marks[i] /\ marks[i] \in Nat /\ marks[i] <= base
        BY <1>2, <1>7, <1>6, <3>3
      <4> HIDE DEF d
      <4>2. QED BY <1>1, <3>2, <4>1
    <3>4. CASE i > 1 + n
      <4> DEFINE c == i - (1 + n)
      <4>1. c \in 0 .. count /\ (1 + n) + c = i /\ c <= d
        BY <1>7, <3>4
      <4>2. new[i] = base + h[c] /\ h[c] \in Nat /\ h[c] <= h[d]
        BY <1>4, <1>5, <3>1, <4>1
      <4> HIDE DEF c, d
      <4>3. QED BY <1>1, <3>2, <4>2
    <3>5. QED BY <3>3, <3>4
  <2>3. QED BY <2>1, <2>2
<1>8. Arena(arena \o part, new, n + count)
  <2>1. new[1] = 0
    BY <1>2, <1>6
  <2>2. (1 + n) + count = 1 + (n + count) /\ count \in 0 .. count
    OBVIOUS
  <2>3. new[1 + (n + count)] = base + Len(part)
    BY <1>5, <2>2 DEF Cuts
  <2>4. QED BY <1>3, <1>7, <1>6, <2>1, <2>3 DEF Arena
<1>9. ASSUME NEW row \in 0 .. n - 1
      PROVE  Piece(arena \o part, new, row) = Piece(arena, marks, row)
  <2>1. row + 1 \in 1 .. 1 + n /\ row + 2 \in 1 .. 1 + n /\ row + 1 <= row + 2
    OBVIOUS
  <2> DEFINE a == marks[row + 1]
             b == marks[row + 2]
  <2>2. a \in Nat /\ b \in Nat /\ a <= b /\ b <= Len(arena)
    BY <1>2, <2>1 DEF base
  <2>3. new[row + 1] = a /\ new[row + 2] = b
    BY <1>6, <2>1
  <2> HIDE DEF a, b
  <2>4. SubSeq(arena \o part, a + 1, b) = SubSeq(arena, a + 1, b)
    BY <1>1, <2>2, SliceOfFront
  <2>5. QED BY <2>3, <2>4 DEF Piece, a, b
<1>10. ASSUME NEW j \in 0 .. count - 1
      PROVE  Piece(arena \o part, new, n + j) = SubSeq(part, h[j] + 1, h[j + 1])
  <2>1. /\ (n + j) + 1 = (1 + n) + j /\ (n + j) + 2 = (1 + n) + (j + 1)
        /\ j \in 0 .. count /\ j + 1 \in 0 .. count /\ j <= j + 1
    OBVIOUS
  <2>2. new[(n + j) + 1] = base + h[j] /\ new[(n + j) + 2] = base + h[j + 1]
    BY <1>5, <2>1
  <2> DEFINE a == h[j]
             b == h[j + 1]
  <2>3. a \in Nat /\ b \in Nat /\ a <= b /\ b <= Len(part)
    BY <1>4, <2>1
  <2> HIDE DEF a, b
  <2>4. SubSeq(arena \o part, (Len(arena) + a) + 1, Len(arena) + b) = SubSeq(part, a + 1, b)
    BY <1>1, <2>3, SliceOfBack
  <2>5. QED BY <2>2, <2>4 DEF Piece, a, b, base
<1>11. QED BY <1>8, <1>9, <1>10

\* reset() leaves empty strings.
LEMMA EmptyStrings ==
  ASSUME NEW n \in Nat
  PROVE  /\ Arena(<< >>, [i \in 1 .. n + 1 |-> 0], n)
         /\ \A row \in 0 .. n - 1 : Piece(<< >>, [i \in 1 .. n + 1 |-> 0], row) = << >>
<1> DEFINE marks == [i \in 1 .. n + 1 |-> 0]
<1>1. 0 \in 0 .. ArenaLimit /\ ArenaLimit \in Nat
  BY Constants_
<1>2. n + 1 \in Nat /\ 1 + n = n + 1
  OBVIOUS
<1>3. marks \in Seq(0 .. ArenaLimit) /\ Len(marks) = n + 1
  BY <1>1, <1>2, SeqDef
<1>4. << >> \in Seq(STRING) /\ Len(<< >>) = 0
  OBVIOUS
<1>5. \A i \in 1 .. n + 1 : marks[i] = 0
  OBVIOUS
<1> HIDE DEF marks
<1>6. Arena(<< >>, marks, n)
  BY <1>1, <1>2, <1>3, <1>4, <1>5 DEF Arena
<1>7. ASSUME NEW row \in 0 .. n - 1 PROVE Piece(<< >>, marks, row) = << >>
  <2>1. marks[row + 1] = 0 /\ marks[row + 2] = 0
    BY <1>5
  <2>2. SubSeq(<< >>, 0 + 1, 0) = << >>
    BY SubSeqEmpty
  <2>3. QED BY <2>1, <2>2 DEF Piece
<1>8. QED BY <1>6, <1>7 DEF marks

\* The marks of an arena to whose end a string goes that fits.
OneMore(new, arena, marks, s) ==
  /\ s \in Seq(STRING) /\ Len(s) <= ArenaLimit - Len(arena)
  /\ new = Append(marks, Truncated(Len(arena) + Len(s)))

\* append_string() lands one string.
LEMMA OneString ==
  ASSUME NEW arena, NEW marks, NEW n \in Nat, Arena(arena, marks, n),
         NEW s, NEW new, OneMore(new, arena, marks, s)
  PROVE  /\ Arena(arena \o s, new, n + 1)
         /\ \A row \in 0 .. n - 1 :
              Piece(arena \o s, new, row) = Piece(arena, marks, row)
         /\ Piece(arena \o s, new, n) = s
<1> DEFINE base == Len(arena)
           len == Len(s)
           end == base + len
           h == [i \in 0 .. 1 |-> IF i = 0 THEN 0 ELSE len]
<1>1. base \in 0 .. ArenaLimit /\ len \in Nat /\ len <= ArenaLimit - base /\ ArenaLimit \in Nat
  <2>1. s \in Seq(STRING) /\ Len(s) <= ArenaLimit - Len(arena)
    BY DEF OneMore
  <2>2. QED BY <2>1, ArenaFacts, LenProperties, Constants_
<1>2. end \in 0 .. ArenaLimit
  <2> HIDE DEF base, len
  <2>1. QED BY <1>1
<1>3. Truncated(end) = end
  BY <1>2, NotTruncated
<1>4. marks \in Seq(0 .. ArenaLimit) /\ Len(marks) = 1 + n
  BY DEF Arena
<1>5. /\ new \in Seq(0 .. ArenaLimit) /\ Len(new) = 1 + (n + 1)
      /\ \A i \in 1 .. 1 + n : new[i] = marks[i]
      /\ new[(1 + n) + 1] = end
  <2>1. new = Append(marks, end)
    BY <1>3 DEF OneMore
  <2> HIDE DEF end
  <2>2. QED BY <1>2, <1>4, <2>1, AppendProperties
<1>6. h[0] = 0 /\ h[1] = len /\ Cuts(h, 1, len)
  <2> HIDE DEF len
  <2>1. QED BY <1>1 DEF Cuts
<1>7. Continued(new, marks, n, 1, base, h)
  <2> HIDE DEF h
  <2>1. \A i \in 1 .. 1 : i = 1
    OBVIOUS
  <2>2. QED BY <1>5, <1>6, <2>1 DEF Continued
<1> HIDE DEF h
<1>8. /\ Arena(arena \o s, new, n + 1)
      /\ \A row \in 0 .. n - 1 : Piece(arena \o s, new, row) = Piece(arena, marks, row)
      /\ \A j \in 0 .. 1 - 1 : Piece(arena \o s, new, n + j) = SubSeq(s, h[j] + 1, h[j + 1])
  <2>1. 1 \in Nat /\ s \in Seq(STRING) /\ Len(s) <= ArenaLimit - Len(arena)
    BY DEF OneMore
  <2>2. QED BY <1>6, <1>7, <2>1, Landing
<1>9. Piece(arena \o s, new, n) = s
  <2>1. 0 \in 0 .. 1 - 1 /\ n + 0 = n /\ 0 + 1 = 1
    OBVIOUS
  <2>2. Piece(arena \o s, new, n) = SubSeq(s, 0 + 1, Len(s))
    BY <1>6, <1>8, <2>1
  <2>3. s \in Seq(STRING)
    BY DEF OneMore
  <2>4. QED BY <2>1, <2>2, <2>3, SubSeqFull
<1>10. QED BY <1>8, <1>9

\* The bytes of a range of rows that fit, and the marks where they land.
ManyMore(part, new, arena, marks, from, theirs, start, count) ==
  /\ theirs[start + count + 1] - theirs[start + 1] <= ArenaLimit - Len(arena)
  /\ part = SubSeq(from, theirs[start + 1] + 1, theirs[start + count + 1])
  /\ new = marks \o [i \in 1 .. count |->
                        Truncated(Landed(Len(arena), theirs[start + 1], theirs[start + i + 1]))]

\* append_range() lands the strings of a range of another column.
LEMMA ManyStrings ==
  ASSUME NEW arena, NEW marks, NEW n \in Nat, Arena(arena, marks, n),
         NEW from, NEW theirs, NEW m \in Nat, Arena(from, theirs, m),
         NEW start \in Nat, NEW count \in Nat, start + count <= m,
         NEW part, NEW new, ManyMore(part, new, arena, marks, from, theirs, start, count)
  PROVE  /\ Arena(arena \o part, new, n + count)
         /\ \A row \in 0 .. n - 1 : Piece(arena \o part, new, row) = Piece(arena, marks, row)
         /\ \A j \in 0 .. count - 1 : Piece(arena \o part, new, n + j) = Piece(from, theirs, start + j)
<1> DEFINE first == theirs[start + 1]
           last == theirs[start + count + 1]
           base == Len(arena)
           h == [i \in 0 .. count |-> theirs[start + i + 1] - first]
           more == [i \in 1 .. count |-> Truncated(Landed(base, first, theirs[start + i + 1]))]
<1>1. base \in 0 .. ArenaLimit /\ ArenaLimit \in Nat
  BY ArenaFacts, Constants_
<1>2. /\ from \in Seq(STRING) /\ Len(from) \in Nat
      /\ \A i \in 1 .. 1 + m : theirs[i] \in Nat /\ theirs[i] <= Len(from)
      /\ \A i, j \in 1 .. 1 + m : i <= j => theirs[i] <= theirs[j]
  BY ArenaFacts, LenProperties DEF Arena
<1>3. \A i \in 0 .. count : start + i + 1 \in 1 .. 1 + m
  OBVIOUS
<1>4. /\ first \in Nat /\ last \in Nat /\ first <= last /\ last <= Len(from)
      /\ \A i \in 0 .. count : /\ theirs[start + i + 1] \in Nat
                               /\ first <= theirs[start + i + 1]
                               /\ theirs[start + i + 1] <= last
  <2>1. start + 1 \in 1 .. 1 + m /\ start + count + 1 \in 1 .. 1 + m /\ start + 1 <= start + count + 1
    BY <1>3
  <2>2. \A i \in 0 .. count : start + 1 <= start + i + 1 /\ start + i + 1 <= start + count + 1
    OBVIOUS
  <2>3. first \in Nat /\ last \in Nat /\ first <= last /\ last <= Len(from)
    BY <1>2, <2>1
  <2>4. QED BY <1>2, <1>3, <2>1, <2>2, <2>3
<1> HIDE DEF first, last
<1>5. part \in Seq(STRING) /\ Len(part) = last - first
  <2>1. \A k \in first + 1 .. last : from[k] \in STRING
    BY <1>2, <1>4, ElementOfSeq
  <2>2. first + 1 \in Int /\ last \in Int
    BY <1>4
  <2>3. part \in Seq(STRING) /\ Len(part) = IF first + 1 <= last THEN last - (first + 1) + 1 ELSE 0
    BY <2>1, <2>2, SubSeqProperties DEF ManyMore, first, last
  <2>4. (IF first + 1 <= last THEN last - (first + 1) + 1 ELSE 0) = last - first
    BY <1>4
  <2>5. QED BY <2>3, <2>4
<1>6. \A i \in 0 .. count : h[i] = theirs[start + i + 1] - first /\ h[i] \in Nat
  <2>1. ASSUME NEW i \in 0 .. count PROVE theirs[start + i + 1] - first \in Nat
    <3> DEFINE x == theirs[start + i + 1]
    <3>1. x \in Nat /\ first \in Nat /\ first <= x
      BY <1>4
    <3> HIDE DEF x
    <3>2. x - first \in Nat
      BY <3>1
    <3>3. QED BY <3>2 DEF x
  <2>2. QED BY <2>1
<1>7. Cuts(h, count, Len(part))
  <2>1. h \in [0 .. count -> Nat]
    BY <1>6
  <2>2. 0 \in 0 .. count /\ start + 0 + 1 = start + 1 /\ count \in 0 .. count
    OBVIOUS
  <2>3. h[0] = first - first /\ h[count] = last - first
    BY <1>6, <2>2 DEF first, last
  <2>4. h[0] = 0 /\ h[count] = Len(part)
    BY <1>4, <1>5, <2>3
  <2>5. ASSUME NEW i \in 0 .. count, NEW j \in 0 .. count, i <= j PROVE h[i] <= h[j]
    <3>1. start + i + 1 <= start + j + 1
      BY <2>5
    <3>2. theirs[start + i + 1] <= theirs[start + j + 1]
      BY <1>2, <1>3, <3>1
    <3> DEFINE x == theirs[start + i + 1]
               y == theirs[start + j + 1]
    <3>3. x \in Nat /\ y \in Nat /\ x <= y /\ h[i] = x - first /\ h[j] = y - first
      BY <1>4, <1>6, <3>2
    <3> HIDE DEF x, y, h
    <3>4. QED BY <1>4, <3>3
  <2>6. QED BY <2>1, <2>4, <2>5 DEF Cuts
<1>8. ASSUME NEW i \in 1 .. count
      PROVE  more[i] = base + h[i] /\ more[i] \in 0 .. ArenaLimit
  <2> DEFINE x == theirs[start + i + 1]
  <2>1. x \in Nat /\ first <= x /\ x <= last /\ h[i] = x - first
    <3>1. i \in 0 .. count
      OBVIOUS
    <3>2. QED BY <1>4, <1>6, <3>1
  <2>2. Landed(base, first, x) = base + x - first
    BY DEF Landed
  <2>3. more[i] = Truncated(Landed(base, first, x))
    OBVIOUS
  <2>4. last - first <= ArenaLimit - base
    BY DEF ManyMore, first, last
  <2> HIDE DEF x, base, h, more
  <2>5. base + x - first \in 0 .. ArenaLimit /\ base + x - first = base + (x - first)
    BY <1>1, <1>4, <2>1, <2>4
  <2>6. Truncated(base + x - first) = base + x - first
    BY <2>5, NotTruncated
  <2>7. QED BY <2>1, <2>2, <2>3, <2>5, <2>6
<1>9. more \in Seq(0 .. ArenaLimit) /\ Len(more) = count
  <2>1. more \in [1 .. count -> 0 .. ArenaLimit]
    BY <1>8
  <2>2. more \in Seq(0 .. ArenaLimit)
    BY <2>1, SeqDef
  <2>3. QED BY <2>2, LenProperties
<1>10. marks \in Seq(0 .. ArenaLimit) /\ Len(marks) = 1 + n /\ new = marks \o more
  BY DEF Arena, ManyMore, first
<1> HIDE DEF more, h
<1>11. Continued(new, marks, n, count, base, h)
  <2>1. /\ new \in Seq(0 .. ArenaLimit) /\ Len(new) = Len(marks) + Len(more)
        /\ \A i \in 1 .. Len(marks) + Len(more) :
             new[i] = IF i <= Len(marks) THEN marks[i] ELSE more[i - Len(marks)]
    <3>1. /\ marks \o more \in Seq(0 .. ArenaLimit)
          /\ Len(marks \o more) = Len(marks) + Len(more)
          /\ \A i \in 1 .. Len(marks) + Len(more) :
               (marks \o more)[i] = IF i <= Len(marks) THEN marks[i] ELSE more[i - Len(marks)]
      BY <1>9, <1>10, ConcatProperties
    <3>2. QED BY <1>10, <3>1
  <2>2. \A i \in 1 .. (1 + n) + count :
          new[i] = IF i <= 1 + n THEN marks[i] ELSE more[i - (1 + n)]
    BY <1>9, <1>10, <2>1
  <2>3. Len(new) = 1 + (n + count)
    BY <1>9, <1>10, <2>1
  <2>4. ASSUME NEW i \in 1 .. count PROVE new[(1 + n) + i] = base + h[i]
    <3>1. /\ (1 + n) + i \in 1 .. (1 + n) + count /\ ((1 + n) + i) - (1 + n) = i
          /\ ~ ((1 + n) + i <= 1 + n)
      OBVIOUS
    <3>2. new[(1 + n) + i] = more[i]
      BY <2>2, <3>1
    <3>3. QED BY <1>8, <3>2
  <2>5. ASSUME NEW i \in 1 .. 1 + n PROVE new[i] = marks[i]
    <3>1. i \in 1 .. (1 + n) + count /\ i <= 1 + n
      OBVIOUS
    <3>2. QED BY <2>2, <3>1
  <2>6. QED BY <2>1, <2>3, <2>4, <2>5 DEF Continued
<1>12. /\ Arena(arena \o part, new, n + count)
       /\ \A row \in 0 .. n - 1 : Piece(arena \o part, new, row) = Piece(arena, marks, row)
       /\ \A j \in 0 .. count - 1 : Piece(arena \o part, new, n + j) = SubSeq(part, h[j] + 1, h[j + 1])
  <2>1. Len(part) <= ArenaLimit - Len(arena)
    BY <1>5 DEF ManyMore, first, last
  <2>2. /\ part \in Seq(STRING) /\ Arena(arena, marks, n)
        /\ Continued(new, marks, n, count, Len(arena), h)
    BY <1>5, <1>11
  <2>3. QED BY ONLY <1>7, <2>1, <2>2, Landing
<1>13. ASSUME NEW j \in 0 .. count - 1
       PROVE  SubSeq(part, h[j] + 1, h[j + 1]) = Piece(from, theirs, start + j)
  <2> DEFINE x == theirs[start + j + 1]
             y == theirs[start + j + 2]
             a == h[j]
             b == h[j + 1]
  <2>1. j \in 0 .. count /\ j + 1 \in 0 .. count /\ start + (j + 1) + 1 = start + j + 2
    OBVIOUS
  <2>2. /\ x \in Nat /\ y \in Nat /\ first <= x /\ y <= last
        /\ a = x - first /\ b = y - first /\ a \in Nat /\ b \in Nat
    BY <1>4, <1>6, <2>1
  <2>3. a <= b
    BY <1>7, <2>1 DEF Cuts
  <2> HIDE DEF x, y, a, b
  <2>4. b <= last - first /\ first + a = x /\ first + b = y
    BY <1>4, <2>2
  <2>5. SubSeq(SubSeq(from, first + 1, last), a + 1, b) = SubSeq(from, (first + a) + 1, first + b)
    BY <1>2, <1>4, <2>2, <2>3, <2>4, SliceOfSlice
  <2>6. part = SubSeq(from, first + 1, last)
    BY DEF ManyMore, first, last
  <2>7. QED BY <2>4, <2>5, <2>6 DEF Piece, a, b, x, y
<1>14. QED BY <1>12, <1>13

-----------------------------------------------------------------------------
\* The rows of a column whose strings are in the arena.
Rows(o) == IF Flags!Idle \/ copy.into # o THEN size[o] ELSE size[o] + copy.count

\* The strings of one column.
LEMMA StringFacts ==
  ASSUME TypeOK, NEW o \in Objects
  PROVE  Arena(bytes[o], offsets[o], Rows(o)) /\ Rows(o) \in Nat
<1>1. size[o] \in Nat /\ (Flags!Idle \/ copy.count \in Nat)
  BY Constants_ DEF TypeOK, Flags!TypeOK
<1>2. Rows(o) \in Nat
  BY <1>1 DEF Rows
<1>3. /\ bytes[o] \in Seq(STRING) /\ offsets[o] \in Seq(0 .. ArenaLimit)
      /\ Len(bytes[o]) <= ArenaLimit /\ Len(offsets[o]) = 1 + Rows(o)
      /\ \A i, j \in 1 .. Len(offsets[o]) : i <= j => offsets[o][i] <= offsets[o][j]
      /\ offsets[o][1] = 0 /\ offsets[o][Len(offsets[o])] = Len(bytes[o])
  BY DEF TypeOK, Rows
<1>4. QED BY <1>2, <1>3 DEF Arena

\* What has to be shown of a step that changes the strings of one column.
LEMMA OneLanded ==
  ASSUME TypeOK, Flags!TypeOK', NEW o \in Objects, NEW arena, NEW marks,
         Arena(arena, marks, Rows(o)'),
         bytes' = [bytes EXCEPT ![o] = arena], offsets' = [offsets EXCEPT ![o] = marks],
         \A q \in Objects : q # o => Rows(q)' = Rows(q)
  PROVE  /\ TypeOK' /\ bytes'[o] = arena /\ offsets'[o] = marks
         /\ \A q \in Objects : q # o => bytes'[q] = bytes[q] /\ offsets'[q] = offsets[q]
<1>1. /\ bytes \in [Objects -> Seq(STRING)] /\ offsets \in [Objects -> Seq(0 .. ArenaLimit)]
  BY DEF TypeOK
<1>2. arena \in Seq(STRING) /\ marks \in Seq(0 .. ArenaLimit)
  BY DEF Arena
<1>3. /\ bytes' \in [Objects -> Seq(STRING)] /\ offsets' \in [Objects -> Seq(0 .. ArenaLimit)]
      /\ bytes'[o] = arena /\ offsets'[o] = marks
      /\ \A q \in Objects : q # o => bytes'[q] = bytes[q] /\ offsets'[q] = offsets[q]
  BY <1>1, <1>2
<1>4. ASSUME NEW q \in Objects PROVE Arena(bytes'[q], offsets'[q], Rows(q)')
  <2>1. CASE q = o
    BY <1>3, <2>1
  <2>2. CASE q # o
    BY <1>3, <2>2, StringFacts
  <2>3. QED BY <2>1, <2>2
<1>5. ASSUME NEW q \in Objects
      PROVE  /\ Len(bytes'[q]) <= ArenaLimit
             /\ Len(offsets'[q]) = 1 + Rows(q)'
             /\ \A i, j \in 1 .. Len(offsets'[q]) : i <= j => offsets'[q][i] <= offsets'[q][j]
             /\ offsets'[q][1] = 0
             /\ offsets'[q][Len(offsets'[q])] = Len(bytes'[q])
  BY <1>4 DEF Arena
<1>6. TypeOK'
  <2>1. \A q \in Objects : Rows(q)' = (IF Flags!Idle \/ copy.into # q THEN size[q]
                                       ELSE size[q] + copy.count)'
    BY DEF Rows
  <2>2. QED BY <1>3, <1>5, <2>1 DEF TypeOK
<1>7. QED BY <1>3, <1>6

\* A step that leaves the strings alone and the flags in order.
LEMMA NoneLanded ==
  ASSUME TypeOK, Flags!TypeOK', bytes' = bytes, offsets' = offsets,
         \A q \in Objects : Rows(q)' = Rows(q)
  PROVE  TypeOK'
<1>1. \A q \in Objects : (IF Flags!Idle \/ copy.into # q THEN size[q] ELSE size[q] + copy.count)'
                           = (IF Flags!Idle \/ copy.into # q THEN size[q] ELSE size[q] + copy.count)
  BY DEF Rows
<1>2. /\ bytes' \in [Objects -> Seq(STRING)] /\ offsets' \in [Objects -> Seq(0 .. ArenaLimit)]
      /\ \A q \in Objects :
           /\ Len(bytes'[q]) <= ArenaLimit
           /\ \A i, j \in 1 .. Len(offsets'[q]) : i <= j => offsets'[q][i] <= offsets'[q][j]
           /\ offsets'[q][1] = 0 /\ offsets'[q][Len(offsets'[q])] = Len(bytes'[q])
  BY Zenon DEF TypeOK
<1>3. \A q \in Objects :
        Len(offsets[q]) = 1 + (IF Flags!Idle \/ copy.into # q THEN size[q] ELSE size[q] + copy.count)
  BY Zenon DEF TypeOK
<1>4. \A q \in Objects :
        Len(offsets'[q])
          = 1 + (IF Flags!Idle \/ copy.into # q THEN size[q] ELSE size[q] + copy.count)'
  BY <1>1, <1>3, Zenon
<1>5. QED BY <1>2, <1>4, Zenon DEF TypeOK

\* The string and the flag of a row.
LEMMA RowFacts ==
  ASSUME NEW o, NEW row
  PROVE  /\ StringAt(o, row) = Piece(bytes[o], offsets[o], row)
         /\ Flags!IsValid(o, row) = Flag(bits[o], row)
         /\ StringAt(o, row)' = Piece(bytes'[o], offsets'[o], row)
         /\ Flags!IsValid(o, row)' = Flag(bits'[o], row)
BY DEF StringAt, Piece, Flags!IsValid, Flag

\* The invariant, of flags and of strings.
LEMMA InvParts ==
  /\ IInv <=> TypeOK /\ FlagsInv /\ RangeUnderWay
  /\ IInv' <=> TypeOK' /\ FlagsInv' /\ RangeUnderWay'
BY DEF IInv, FlagsInv, TypeOK

\* No range is under way, before and after, and the other columns keep their rows.
OthersKept(o) ==
  /\ Flags!Idle /\ Flags!Idle'
  /\ \A q \in Objects : q # o => /\ bytes'[q] = bytes[q] /\ offsets'[q] = offsets[q]
                                 /\ bits'[q] = bits[q] /\ size'[q] = size[q]

\* The new size of one column decides its rows.
LEMMA RowsOfOne ==
  ASSUME Flags!TypeOK, NEW o \in Objects, NEW n, Flags!Idle, copy' = copy,
         size' = [size EXCEPT ![o] = n]
  PROVE  /\ Rows(o) = size[o] /\ Rows(o)' = n /\ size'[o] = n
         /\ \A q \in Objects : q # o => Rows(q)' = Rows(q) /\ size'[q] = size[q]
         /\ Flags!Idle' /\ RangeUnderWay'
<1>1. size \in [Objects -> 0 .. MaxRows] /\ Flags!Idle'
  BY DEF Flags!TypeOK, Flags!Idle
<1>2. QED BY <1>1 DEF Rows, RangeUnderWay

LEMMA ResetStep ==
  ASSUME IInv, NEW o \in Objects, NEW n \in 0 .. MaxRows, Reset(o, n)
  PROVE  /\ IInv' /\ OthersKept(o) /\ size'[o] = n
         /\ \A row \in 0 .. n - 1 : StringAt(o, row)' = << >> /\ Flags!IsValid(o, row)'
<1>1. TypeOK /\ FlagsInv /\ Flags!TypeOK
  BY InvParts DEF FlagsInv
<1>2. /\ Flags!Reset(o, n, TRUE) /\ n \in Nat
      /\ bytes' = [bytes EXCEPT ![o] = << >>]
      /\ offsets' = [offsets EXCEPT ![o] = [i \in 1 .. n + 1 |-> 0]]
  <2>1. n \in Nat
    BY Constants_
  <2>2. QED BY <2>1, Zenon DEF Reset
<1>3. /\ Flags!Idle /\ copy' = copy /\ size' = [size EXCEPT ![o] = n]
      /\ \E words : bits' = [bits EXCEPT ![o] = words]
  BY <1>2 DEF Flags!Reset
<1>4. FlagsInv' /\ \A i \in Nat : i < n => Flag(bits'[o], i)
  BY <1>1, <1>2, FlagsReset
<1>5. /\ Rows(o)' = n /\ size'[o] = n /\ Flags!Idle' /\ RangeUnderWay'
      /\ \A q \in Objects : q # o => Rows(q)' = Rows(q) /\ size'[q] = size[q]
  BY <1>1, <1>3, RowsOfOne
<1> DEFINE marks == [i \in 1 .. n + 1 |-> 0]
<1>6. Arena(<< >>, marks, n) /\ \A row \in 0 .. n - 1 : Piece(<< >>, marks, row) = << >>
  BY <1>2, EmptyStrings
<1>7. bytes' = [bytes EXCEPT ![o] = << >>] /\ offsets' = [offsets EXCEPT ![o] = marks]
  BY <1>2
<1> HIDE DEF marks
<1>8. /\ TypeOK' /\ bytes'[o] = << >> /\ offsets'[o] = marks
      /\ \A q \in Objects : q # o => bytes'[q] = bytes[q] /\ offsets'[q] = offsets[q]
  <2>1. Flags!TypeOK'
    BY <1>4 DEF FlagsInv
  <2>2. Arena(<< >>, marks, Rows(o)')
    BY <1>5, <1>6
  <2>3. QED BY <1>1, <1>5, <1>7, <2>1, <2>2, OneLanded
<1>9. OthersKept(o)
  BY <1>1, <1>3, <1>5, <1>8 DEF OthersKept, Flags!TypeOK
<1>10. \A row \in 0 .. n - 1 : StringAt(o, row)' = << >> /\ Flags!IsValid(o, row)'
  BY <1>2, <1>4, <1>6, <1>8, RowFacts
<1>11. IInv'
  BY <1>4, <1>5, <1>8, InvParts
<1>12. QED BY <1>5, <1>9, <1>10, <1>11

LEMMA SetValidStep ==
  ASSUME IInv, NEW o \in Objects, NEW i \in 0 .. MaxRows - 1, NEW valid \in BOOLEAN,
         SetValid(o, i, valid)
  PROVE  /\ IInv' /\ OthersKept(o) /\ size'[o] = size[o] /\ i < size[o]
         /\ \A row \in 0 .. size[o] - 1 :
              /\ StringAt(o, row)' = StringAt(o, row)
              /\ Flags!IsValid(o, row)' <=> IF row = i THEN valid ELSE Flags!IsValid(o, row)
<1>1. TypeOK /\ FlagsInv /\ Flags!TypeOK /\ size[o] \in Nat
  BY InvParts, FlagFacts DEF FlagsInv
<1>2. Flags!Set(o, i, valid) /\ bytes' = bytes /\ offsets' = offsets /\ i \in Nat
  BY Constants_ DEF SetValid, strings
<1>3. /\ Flags!Idle /\ copy' = copy /\ size' = size /\ i < size[o]
      /\ \E words : bits' = [bits EXCEPT ![o] = words]
  BY <1>2 DEF Flags!Set
<1>4. /\ FlagsInv'
      /\ \A j \in Nat : j < size[o] => (Flag(bits'[o], j) <=> IF j = i THEN valid ELSE Flag(bits[o], j))
  BY <1>1, <1>2, FlagsSet
<1>5. RangeUnderWay' /\ Flags!Idle' /\ \A q \in Objects : Rows(q)' = Rows(q)
  BY <1>3 DEF RangeUnderWay, Flags!Idle, Rows
<1>6. TypeOK'
  <2>1. Flags!TypeOK'
    BY <1>4 DEF FlagsInv
  <2>2. QED BY <1>1, <1>2, <1>5, <2>1, NoneLanded
<1>7. OthersKept(o)
  BY <1>1, <1>2, <1>3, <1>5 DEF OthersKept, Flags!TypeOK
<1>8. ASSUME NEW row \in 0 .. size[o] - 1
      PROVE  /\ StringAt(o, row)' = StringAt(o, row)
             /\ Flags!IsValid(o, row)' <=> IF row = i THEN valid ELSE Flags!IsValid(o, row)
  <2>1. row \in Nat /\ row < size[o]
    BY <1>1
  <2>2. QED BY <1>2, <1>4, <2>1, RowFacts
<1>9. IInv'
  BY <1>4, <1>5, <1>6, InvParts
<1>10. QED BY <1>3, <1>7, <1>8, <1>9

LEMMA AppendStep ==
  ASSUME IInv, NEW o \in Objects, NEW s \in Seq(STRING), NEW valid \in BOOLEAN,
         AppendString(o, s, valid), NEW n, n = size[o]
  PROVE  /\ IInv' /\ OthersKept(o) /\ n \in Nat /\ size'[o] = n + 1
         /\ \A row \in 0 .. n - 1 :
              /\ StringAt(o, row)' = StringAt(o, row)
              /\ Flags!IsValid(o, row)' <=> Flags!IsValid(o, row)
         /\ StringAt(o, n)' = s /\ (Flags!IsValid(o, n)' <=> valid)
<1> DEFINE marks == Append(offsets[o], Truncated(Len(bytes[o]) + Len(s)))
           arena == bytes[o] \o s
           was == bytes[o]
           old == offsets[o]
<1>1. TypeOK /\ FlagsInv /\ Flags!TypeOK /\ n \in Nat
  BY InvParts, FlagFacts DEF FlagsInv
<1>2. /\ Flags!Append_(o, valid) /\ Len(s) <= ArenaLimit - Len(was)
      /\ bytes' = [bytes EXCEPT ![o] = arena]
      /\ offsets' = [offsets EXCEPT ![o] = marks]
  BY <1>1 DEF AppendString, Fits, TypeOK
<1>3. /\ Flags!Idle /\ copy' = copy /\ size' = [size EXCEPT ![o] = n + 1]
      /\ \E words : bits' = [bits EXCEPT ![o] = words]
  BY <1>1, <1>2 DEF Flags!Append_, Flags!TypeOK
<1>4. /\ FlagsInv'
      /\ \A j \in Nat : j < n => (Flag(bits'[o], j) <=> Flag(bits[o], j))
      /\ Flag(bits'[o], n) <=> valid
  BY <1>1, <1>2, FlagsAppend
<1>5. /\ Rows(o) = n /\ Rows(o)' = n + 1 /\ size'[o] = n + 1 /\ Flags!Idle' /\ RangeUnderWay'
      /\ \A q \in Objects : q # o => Rows(q)' = Rows(q) /\ size'[q] = size[q]
  BY <1>1, <1>3, RowsOfOne
<1>6. Arena(was, old, n)
  BY <1>1, <1>5, StringFacts
<1>7. arena = was \o s /\ marks = Append(old, Truncated(Len(was) + Len(s)))
  OBVIOUS
<1>8. \A row : StringAt(o, row) = Piece(was, old, row)
  BY RowFacts
<1> HIDE DEF marks, arena, was, old
<1>9. /\ Arena(arena, marks, n + 1)
      /\ \A row \in 0 .. n - 1 : Piece(arena, marks, row) = Piece(was, old, row)
      /\ Piece(arena, marks, n) = s
  <2>1. OneMore(marks, was, old, s)
    BY <1>2, <1>7 DEF OneMore
  <2>2. /\ Arena(was \o s, marks, n + 1)
        /\ \A row \in 0 .. n - 1 : Piece(was \o s, marks, row) = Piece(was, old, row)
        /\ Piece(was \o s, marks, n) = s
    BY <1>1, <1>6, <2>1, OneString
  <2>3. QED BY <1>7, <2>2
<1>10. /\ TypeOK' /\ bytes'[o] = arena /\ offsets'[o] = marks
       /\ \A q \in Objects : q # o => bytes'[q] = bytes[q] /\ offsets'[q] = offsets[q]
  <2>1. Flags!TypeOK'
    BY <1>4 DEF FlagsInv
  <2>2. Arena(arena, marks, Rows(o)')
    BY <1>5, <1>9
  <2>3. QED BY <1>1, <1>2, <1>5, <2>1, <2>2, OneLanded
<1>11. OthersKept(o)
  BY <1>1, <1>3, <1>5, <1>10 DEF OthersKept, Flags!TypeOK
<1>12. ASSUME NEW row \in 0 .. n - 1
       PROVE  /\ StringAt(o, row)' = StringAt(o, row)
              /\ Flags!IsValid(o, row)' <=> Flags!IsValid(o, row)
  <2>1. row \in Nat /\ row < n
    BY <1>1
  <2>2. StringAt(o, row)' = Piece(arena, marks, row)
    BY <1>10, RowFacts
  <2>3. Flags!IsValid(o, row)' <=> Flags!IsValid(o, row)
    BY <1>4, <2>1, RowFacts
  <2>4. QED BY <1>8, <1>9, <2>2, <2>3
<1>13. StringAt(o, n)' = s /\ (Flags!IsValid(o, n)' <=> valid)
  <2>1. StringAt(o, n)' = Piece(arena, marks, n)
    BY <1>10, RowFacts
  <2>2. QED BY <1>4, <1>9, <2>1, RowFacts
<1>14. IInv'
  BY <1>4, <1>5, <1>10, InvParts
<1>15. QED BY <1>1, <1>5, <1>11, <1>12, <1>13, <1>14

\* append_range() lands the strings and makes room for the flags.
LEMMA AppendRangeStep ==
  ASSUME IInv, NEW o \in Objects, NEW source \in Objects, NEW start \in Nat,
         NEW count \in Nat \ {0}, AppendRange(o, source, start, count), NEW n, n = size[o]
  PROVE  /\ IInv' /\ Flags!Idle /\ size' = size /\ n \in Nat
         /\ copy' = [into |-> o, source |-> source, start |-> start, count |-> count,
                     base |-> n, first |-> start]
         /\ copy' # Flags!NoCopy
         /\ \A q \in Objects : q # o => /\ bytes'[q] = bytes[q] /\ offsets'[q] = offsets[q]
                                        /\ bits'[q] = bits[q]
         /\ \A row \in 0 .. n - 1 :
              /\ StringAt(o, row)' = StringAt(o, row)
              /\ Flags!IsValid(o, row)' <=> Flags!IsValid(o, row)
<1> DEFINE was == bytes[o]
           old == offsets[o]
           from == bytes[source]
           theirs == offsets[source]
           m == size[source]
           part == SubSeq(from, theirs[start + 1] + 1, theirs[start + count + 1])
           arena == was \o part
           marks == old \o [i \in 1 .. count |->
                      Truncated(Landed(Len(was), theirs[start + 1], theirs[start + i + 1]))]
<1>1. TypeOK /\ FlagsInv /\ Flags!TypeOK /\ n \in Nat /\ m \in Nat
  BY InvParts, FlagFacts DEF FlagsInv
<1>2. /\ Flags!StartCopy(o, source, start, count)
      /\ theirs[start + count + 1] - theirs[start + 1] <= ArenaLimit - Len(was)
      /\ bytes' = [bytes EXCEPT ![o] = arena] /\ offsets' = [offsets EXCEPT ![o] = marks]
  BY <1>1 DEF AppendRange, Fits, TypeOK
<1>3. ManyMore(part, marks, was, old, from, theirs, start, count)
  BY <1>2 DEF ManyMore
<1>4. /\ Flags!Idle /\ copy = Flags!NoCopy /\ size' = size /\ preset' = preset
      /\ source # o /\ start + count <= m /\ ~ preset[o]
      /\ copy' = [into |-> o, source |-> source, start |-> start, count |-> count,
                  base |-> n, first |-> start]
      /\ \E words : bits' = [bits EXCEPT ![o] = words]
  BY <1>2 DEF Flags!StartCopy, Flags!Idle, Flags!Appendable
<1>5. /\ FlagsInv'
      /\ \A j \in Nat : j < n => (Flag(bits'[o], j) <=> Flag(bits[o], j))
      /\ bits'[source] = bits[source] /\ n + count <= MaxRows
  BY <1>1, <1>2, FlagsStartCopy
<1>6. copy' # Flags!NoCopy /\ ~ Flags!Idle'
  BY <1>4 DEF Flags!NoCopy, Flags!Idle
<1>7. /\ Rows(o) = n /\ Rows(source) = m /\ Rows(o)' = n + count
      /\ \A q \in Objects : q # o => Rows(q)' = Rows(q)
  BY <1>4, <1>6 DEF Rows
<1>8. Arena(was, old, n) /\ Arena(from, theirs, m)
  BY <1>1, <1>7, StringFacts
<1>9. arena = was \o part
  OBVIOUS
<1>10. /\ \A row : StringAt(o, row) = Piece(was, old, row)
       /\ \A row : StringAt(source, row) = Piece(from, theirs, row)
  BY RowFacts
<1> HIDE DEF was, old, from, theirs, part, arena, marks
<1>11. /\ Arena(arena, marks, n + count)
       /\ \A row \in 0 .. n - 1 : Piece(arena, marks, row) = Piece(was, old, row)
       /\ \A j \in 0 .. count - 1 : Piece(arena, marks, n + j) = Piece(from, theirs, start + j)
  <2> HIDE DEF m
  <2>1. count \in Nat
    OBVIOUS
  <2>2. /\ Arena(was \o part, marks, n + count)
        /\ \A row \in 0 .. n - 1 : Piece(was \o part, marks, row) = Piece(was, old, row)
        /\ \A j \in 0 .. count - 1 : Piece(was \o part, marks, n + j) = Piece(from, theirs, start + j)
    BY <1>1, <1>3, <1>4, <1>8, <2>1, ManyStrings
  <2>3. QED BY <1>9, <2>2
<1>12. /\ TypeOK' /\ bytes'[o] = arena /\ offsets'[o] = marks
       /\ \A q \in Objects : q # o => bytes'[q] = bytes[q] /\ offsets'[q] = offsets[q]
  <2>1. Flags!TypeOK'
    BY <1>5 DEF FlagsInv
  <2>2. Arena(arena, marks, Rows(o)')
    BY <1>7, <1>11
  <2>3. QED BY <1>1, <1>2, <1>7, <2>1, <2>2, OneLanded
<1>13. ASSUME NEW row \in 0 .. n - 1
       PROVE  /\ StringAt(o, row)' = StringAt(o, row)
              /\ Flags!IsValid(o, row)' <=> Flags!IsValid(o, row)
  <2>1. row \in Nat /\ row < n
    BY <1>1
  <2>2. StringAt(o, row)' = Piece(arena, marks, row)
    BY <1>12, RowFacts
  <2>3. Flags!IsValid(o, row)' <=> Flags!IsValid(o, row)
    BY <1>5, <2>1, RowFacts
  <2>4. QED BY <1>10, <1>11, <2>2, <2>3
<1>14. RangeUnderWay'
  <2>1. /\ copy'.into = o /\ copy'.source = source /\ copy'.count = count /\ copy'.start = start
        /\ copy'.base = n /\ copy'.first = start /\ size'[o] = n /\ preset'[o] = preset[o]
    BY <1>4
  <2>2. n <= n /\ start = start + (n - n) /\ n .. n - 1 = {}
    BY <1>1
  <2>3. ASSUME NEW j \in n .. n + count - 1
        PROVE  StringAt(o, j)' = StringAt(source, start + (j - n))'
    <3> DEFINE d == j - n
    <3>1. d \in 0 .. count - 1 /\ n + d = j
      BY <1>1
    <3> HIDE DEF d
    <3>2. StringAt(o, j)' = Piece(from, theirs, start + d)
      <4>1. StringAt(o, j)' = Piece(arena, marks, j)
        BY <1>12, RowFacts
      <4>2. QED BY <1>11, <3>1, <4>1
    <3>3. StringAt(source, start + d)' = StringAt(source, start + d)
      BY <1>4, <1>12, RowFacts
    <3>4. StringAt(o, j)' = StringAt(source, start + d)'
      BY <1>10, <3>2, <3>3
    <3>5. QED BY <3>4 DEF d
  <2>4. ASSUME NEW j \in n .. n - 1
        PROVE  Flags!IsValid(o, j)' = Flags!IsValid(source, start + (j - n))'
    BY <2>2
  <2>5. QED BY <1>4, <1>5, <2>1, <2>2, <2>3, <2>4 DEF RangeUnderWay
<1>15. IInv'
  BY <1>5, <1>12, <1>14, InvParts
<1>16. \A q \in Objects : q # o => bits'[q] = bits[q]
  BY <1>1, <1>4 DEF Flags!TypeOK
<1>17. QED BY <1>1, <1>4, <1>6, <1>12, <1>13, <1>15, <1>16

\* What is known of a range under way, column by column.
LEMMA UnderWayFacts ==
  ASSUME IInv, ~ Flags!Idle, NEW o, o = copy.into, NEW source, source = copy.source,
         NEW n, n = size[o], NEW base, base = copy.base, NEW first, first = copy.first,
         NEW count, count = copy.count
  PROVE  /\ o \in Objects /\ source \in Objects /\ o # source /\ ~ preset[o]
         /\ n \in Nat /\ base \in Nat /\ first \in Nat /\ count \in Nat /\ count >= 1
         /\ copy.start \in Nat /\ copy.start = first + (n - base) /\ base <= n
         /\ n + count <= MaxRows /\ copy.start + count <= size[source] /\ size[source] \in Nat
         /\ copy \in [into : Objects, source : Objects, start : Nat, count : Nat \ {0},
                      base : Nat, first : Nat]
         /\ \A j \in base .. n - 1 : Flag(bits[o], j) <=> Flag(bits[source], first + (j - base))
         /\ \A j \in base .. n + count - 1 :
              StringAt(o, j) = StringAt(source, first + (j - base))
<1>1. FlagsInv /\ RangeUnderWay /\ Flags!TypeOK
  BY InvParts DEF FlagsInv
<1>2. /\ copy \in [into : Objects, source : Objects, start : Nat, count : Nat \ {0},
                   base : Nat, first : Nat]
      /\ copy.start + copy.count <= size[copy.source]
  BY <1>1 DEF Flags!TypeOK
<1>3. o \in Objects /\ source \in Objects /\ base \in Nat /\ first \in Nat /\ copy.start \in Nat
      /\ count \in Nat /\ count >= 1
  BY <1>2
<1>4. n \in Nat /\ size[source] \in Nat
  BY <1>1, <1>3, FlagFacts
<1>5. /\ copy.into # copy.source /\ ~ preset[copy.into]
      /\ size[copy.into] + copy.count <= MaxRows /\ copy.base <= size[copy.into]
      /\ copy.start = copy.first + (size[copy.into] - copy.base)
      /\ \A j \in copy.base .. size[copy.into] - 1 :
           Flags!IsValid(copy.into, j) = Flags!IsValid(copy.source, copy.first + (j - copy.base))
      /\ \A j \in copy.base .. size[copy.into] + copy.count - 1 :
           StringAt(copy.into, j) = StringAt(copy.source, copy.first + (j - copy.base))
  BY <1>1 DEF RangeUnderWay
<1>6. \A j \in base .. n - 1 : Flag(bits[o], j) <=> Flag(bits[source], first + (j - base))
  BY <1>5, RowFacts
<1>7. QED BY <1>2, <1>3, <1>4, <1>5, <1>6

\* The next word's worth of flags.
LEMMA AppendFlagsStep ==
  ASSUME IInv, AppendFlags, NEW o, o = copy.into, NEW n, n = size[o]
  PROVE  \E take \in 1 .. copy.count :
           /\ IInv' /\ ~ Flags!Idle
           /\ bytes' = bytes /\ offsets' = offsets
           /\ size' = [size EXCEPT ![o] = n + take]
           /\ copy' = IF copy.count = take THEN Flags!NoCopy
                      ELSE [copy EXCEPT !.start = @ + take, !.count = @ - take]
           /\ \A q \in Objects : q # o => bits'[q] = bits[q]
           /\ \A j \in Nat : j < n => (Flag(bits'[o], j) <=> Flag(bits[o], j))
           /\ \A j \in 0 .. take - 1 :
                Flag(bits'[o], n + j) <=> Flag(bits[copy.source], copy.start + j)
<1>1. ~ Flags!Idle /\ Flags!CopyChunk /\ bytes' = bytes /\ offsets' = offsets
  BY DEF AppendFlags, Flags!CopyChunk, strings
<1>2. PICK source : source = copy.source
  OBVIOUS
<1>3. PICK base, first, count : base = copy.base /\ first = copy.first /\ count = copy.count
  OBVIOUS
<1>4. /\ o \in Objects /\ source \in Objects /\ o # source /\ ~ preset[o]
      /\ n \in Nat /\ base \in Nat /\ first \in Nat /\ count \in Nat /\ count >= 1
      /\ copy.start \in Nat /\ copy.start = first + (n - base) /\ base <= n
      /\ n + count <= MaxRows /\ copy.start + count <= size[source] /\ size[source] \in Nat
      /\ copy \in [into : Objects, source : Objects, start : Nat, count : Nat \ {0},
                   base : Nat, first : Nat]
      /\ \A j \in base .. n - 1 : Flag(bits[o], j) <=> Flag(bits[source], first + (j - base))
      /\ \A j \in base .. n + count - 1 :
           StringAt(o, j) = StringAt(source, first + (j - base))
  BY <1>1, <1>2, <1>3, UnderWayFacts
<1>5. TypeOK /\ FlagsInv /\ Flags!TypeOK
  BY InvParts DEF FlagsInv
<1>6. PICK take \in 1 .. copy.count :
        /\ FlagsInv'
        /\ size' = [size EXCEPT ![copy.into] = @ + take]
        /\ preset' = preset
        /\ copy' = IF copy.count = take THEN Flags!NoCopy
                   ELSE [copy EXCEPT !.start = @ + take, !.count = @ - take]
        /\ \A q \in Objects : q # copy.into => bits'[q] = bits[q]
        /\ \A j \in Nat : j < size[copy.into] =>
             (Flag(bits'[copy.into], j) <=> Flag(bits[copy.into], j))
        /\ \A j \in 0 .. take - 1 :
             Flag(bits'[copy.into], size[copy.into] + j) <=> Flag(bits[copy.source], copy.start + j)
  <2>1. /\ copy.into # copy.source /\ ~ preset[copy.into]
        /\ size[copy.into] + copy.count <= MaxRows
    BY <1>2, <1>3, <1>4
  <2>2. QED BY <1>1, <1>5, <2>1, FlagsCopyChunk
<1>7. /\ take \in 1 .. count /\ FlagsInv' /\ preset' = preset
      /\ size' = [size EXCEPT ![o] = n + take]
      /\ copy' = IF count = take THEN Flags!NoCopy
                 ELSE [copy EXCEPT !.start = @ + take, !.count = @ - take]
      /\ \A q \in Objects : q # o => bits'[q] = bits[q]
      /\ \A j \in Nat : j < n => (Flag(bits'[o], j) <=> Flag(bits[o], j))
      /\ \A j \in 0 .. take - 1 : Flag(bits'[o], n + j) <=> Flag(bits[source], copy.start + j)
  BY <1>2, <1>3, <1>6
<1>8. size'[o] = n + take /\ \A q \in Objects : q # o => size'[q] = size[q]
  BY <1>4, <1>5, <1>7 DEF Flags!TypeOK
<1>9. count # take => /\ copy' # Flags!NoCopy /\ copy'.into = o /\ copy'.source = source
                      /\ copy'.base = base /\ copy'.first = first
                      /\ copy'.start = copy.start + take /\ copy'.count = count - take
  <2> SUFFICES ASSUME count # take
               PROVE  /\ copy' # Flags!NoCopy /\ copy'.into = o /\ copy'.source = source
                      /\ copy'.base = base /\ copy'.first = first
                      /\ copy'.start = copy.start + take /\ copy'.count = count - take
    OBVIOUS
  <2>1. copy' = [copy EXCEPT !.start = @ + take, !.count = @ - take]
    BY <1>7
  <2>2. /\ copy'.into = o /\ copy'.source = source /\ copy'.base = base /\ copy'.first = first
        /\ copy'.start = copy.start + take /\ copy'.count = count - take
    BY <1>2, <1>3, <1>4, <2>1
  <2>3. DOMAIN copy' = {"into", "source", "start", "count", "base", "first"}
    BY <1>4, <2>1
  <2>4. QED BY <2>2, <2>3 DEF Flags!NoCopy
<1>10. \A q \in Objects : Rows(q)' = Rows(q)
  <2> SUFFICES ASSUME NEW q \in Objects PROVE Rows(q)' = Rows(q)
    OBVIOUS
  <2>1. CASE q = o
    <3>1. Rows(q) = n + count
      BY <1>1, <1>3, <2>1 DEF Rows
    <3>2. CASE count = take
      BY <1>7, <1>8, <2>1, <3>1, <3>2 DEF Rows, Flags!Idle
    <3>3. CASE count # take
      <4>1. Rows(q)' = (n + take) + (count - take)
        BY <1>8, <1>9, <2>1, <3>3 DEF Rows, Flags!Idle
      <4>2. QED BY <1>4, <1>7, <3>1, <4>1
    <3>4. QED BY <3>2, <3>3
  <2>2. CASE q # o
    <3>1. Rows(q) = size[q]
      BY <2>2 DEF Rows
    <3>2. Rows(q)' = size'[q]
      BY <1>7, <1>9, <2>2 DEF Rows, Flags!Idle
    <3>3. QED BY <1>8, <2>2, <3>1, <3>2
  <2>3. QED BY <2>1, <2>2
<1>11. TypeOK'
  <2>1. Flags!TypeOK'
    BY <1>7 DEF FlagsInv
  <2>2. QED BY <1>1, <1>5, <1>10, <2>1, NoneLanded
<1>12. RangeUnderWay'
  <2>1. CASE count = take
    BY <1>7, <2>1 DEF RangeUnderWay, Flags!Idle
  <2>2. CASE count # take
    <3>1. /\ copy'.into = o /\ copy'.source = source /\ copy'.base = base /\ copy'.first = first
          /\ copy'.start = copy.start + take /\ copy'.count = count - take
      BY <1>9, <2>2
    <3>2. /\ (n + take) + (count - take) = n + count /\ base <= n + take
          /\ copy.start + take = first + ((n + take) - base)
      <4> DEFINE s == copy.start
      <4>1. s \in Nat /\ s = first + (n - base)
        BY <1>4
      <4> HIDE DEF s
      <4>2. s + take = first + ((n + take) - base)
        BY <1>4, <1>7, <4>1
      <4>3. QED BY <1>4, <1>7, <4>2 DEF s
    <3>3. ASSUME NEW j \in base .. (n + take) - 1
          PROVE  Flags!IsValid(o, j)' = Flags!IsValid(source, first + (j - base))'
      <4>1. bits'[source] = bits[source] /\ j \in Nat
        BY <1>4, <1>7
      <4>2. Flag(bits'[o], j) <=> Flag(bits[source], first + (j - base))
        <5>1. CASE j < n
          <6>1. j \in base .. n - 1
            BY <1>4, <5>1
          <6>2. QED BY <1>4, <1>7, <4>1, <5>1, <6>1
        <5>2. CASE j >= n
          <6> DEFINE d == j - n
                     s == copy.start
          <6>1. d \in 0 .. take - 1 /\ n + d = j
            BY <1>4, <1>7, <5>2
          <6>2. Flag(bits'[o], n + d) <=> Flag(bits[source], s + d)
            BY <1>7, <6>1
          <6>3. s \in Nat /\ s = first + (n - base)
            BY <1>4
          <6>4. s + d = first + (j - base)
            <7> HIDE DEF s
            <7>1. QED BY <1>4, <4>1, <6>3
          <6> HIDE DEF d, s
          <6>5. QED BY <6>1, <6>2, <6>4
        <5>3. QED BY <1>4, <4>1, <5>1, <5>2
      <4>3. QED BY <4>1, <4>2, RowFacts DEF Flag
    <3>4. ASSUME NEW j \in base .. (n + take) + (count - take) - 1
          PROVE  StringAt(o, j)' = StringAt(source, first + (j - base))'
      <4>1. (n + take) + (count - take) - 1 = n + count - 1
        BY <1>4, <1>7, <3>2
      <4>2. j \in base .. n + count - 1
        BY <4>1
      <4>3. StringAt(o, j) = StringAt(source, first + (j - base))
        BY <1>4, <4>2
      <4>4. QED BY <1>1, <4>3, RowFacts
    <3>5. n + count <= MaxRows /\ ~ preset'[o]
      BY <1>4, <1>7
    <3>6. QED BY <1>4, <1>8, <3>1, <3>2, <3>3, <3>4, <3>5 DEF RangeUnderWay
  <2>3. QED BY <2>1, <2>2
<1>13. IInv'
  BY <1>7, <1>11, <1>12, InvParts
<1>14. QED BY <1>1, <1>2, <1>3, <1>7, <1>13

\* The string of a row is a sequence of bytes.
LEMMA StringTyped ==
  ASSUME TypeOK, NEW o \in Objects, NEW row \in Nat, row < Rows(o)
  PROVE  StringAt(o, row) \in Seq(STRING)
<1> DEFINE arena == bytes[o]
           marks == offsets[o]
           n == Rows(o)
<1>1. Arena(arena, marks, n) /\ n \in Nat /\ row \in 0 .. n - 1
  BY StringFacts
<1>2. StringAt(o, row) = Piece(arena, marks, row)
  BY RowFacts
<1> HIDE DEF arena, marks, n
<1>3. /\ arena \in Seq(STRING) /\ marks[row + 1] \in Nat /\ marks[row + 2] \in Nat
      /\ marks[row + 2] <= Len(arena)
  BY <1>1, ArenaFacts DEF Arena
<1>4. \A k \in marks[row + 1] + 1 .. marks[row + 2] : arena[k] \in STRING
  BY <1>3, ElementOfSeq
<1>5. marks[row + 1] + 1 \in Int /\ marks[row + 2] \in Int
  BY <1>3
<1>6. Piece(arena, marks, row) \in Seq(STRING)
  BY <1>4, <1>5, SubSeqProperties DEF Piece
<1>7. QED BY <1>2, <1>6

\* append_from() is append_string() with the string and the flag of another column.
LEMMA AppendFromIs ==
  ASSUME IInv, NEW o \in Objects, NEW source \in Objects, NEW row \in 0 .. MaxRows - 1,
         AppendFrom(o, source, row)
  PROVE  /\ Flags!Idle /\ source # o /\ row \in Nat /\ row < size[source]
         /\ StringAt(source, row) \in Seq(STRING) /\ Flags!IsValid(source, row) \in BOOLEAN
         /\ AppendString(o, StringAt(source, row), Flags!IsValid(source, row))
<1>1. /\ source # o /\ row < size[source] /\ row \in Nat
      /\ AppendString(o, StringAt(source, row), Flags!IsValid(source, row))
  BY Constants_ DEF AppendFrom
<1>2. Flags!Idle
  BY <1>1 DEF AppendString, Flags!Append_
<1>3. Flags!IsValid(source, row) \in BOOLEAN
  BY DEF Flags!IsValid
<1>4. StringAt(source, row) \in Seq(STRING)
  <2>1. TypeOK /\ Rows(source) = size[source]
    BY <1>2, InvParts DEF Rows
  <2>2. QED BY <1>1, <2>1, StringTyped
<1>5. QED BY <1>1, <1>2, <1>3, <1>4

LEMMA InitIInv ==
  ASSUME Init
  PROVE  IInv
<1>1. /\ bits = [o \in Objects |-> << >>] /\ size = [o \in Objects |-> 0]
      /\ nulls = [o \in Objects |-> 0] /\ preset = [o \in Objects |-> FALSE]
      /\ copy = Flags!NoCopy /\ bytes = [o \in Objects |-> << >>]
      /\ offsets = [o \in Objects |-> <<0>>]
  BY DEF Init, Flags!Init
<1>2. Flags!WordsFor(0) = 0
  <2>1. Width * 0 = 0 /\ Width \in Nat /\ Width >= 1
    BY Constants_
  <2>2. 0 \in Nat /\ 0 <= Width * 0 /\ 0 + Width > Width * 0
    BY <2>1
  <2>3. QED BY <2>2, WordsForIs
<1>3. Flags!TypeOK
  <2>1. Flags!Idle
    BY <1>1 DEF Flags!Idle
  <2>2. << >> \in Seq(SUBSET Flags!Bits) /\ Len(<< >>) = 0 /\ 0 \in 0 .. MaxRows
    BY Constants_
  <2>3. /\ bits \in [Objects -> Seq(SUBSET Flags!Bits)] /\ size \in [Objects -> 0 .. MaxRows]
        /\ nulls \in [Objects -> 0 .. MaxRows] /\ preset \in [Objects -> BOOLEAN]
    BY <1>1, <2>2
  <2>4. ASSUME NEW o \in Objects
        PROVE  nulls[o] <= size[o] /\ Len(bits[o]) = Flags!WordsFor(size[o])
    <3>1. bits[o] = << >> /\ size[o] = 0 /\ nulls[o] = 0
      BY <1>1
    <3>2. QED BY <1>2, <2>2, <3>1
  <2>5. QED BY <2>1, <2>3, <2>4 DEF Flags!TypeOK
<1>4. NullCountExact
  <2> SUFFICES ASSUME NEW o \in Objects
               PROVE  nulls[o] = Flags!Cardinality({i \in 0 .. size[o] - 1 : ~ Flags!IsValid(o, i)})
    BY DEF NullCountExact, Flags!NullCountExact
  <2>1. size[o] = 0 /\ nulls[o] = 0
    BY <1>1
  <2>2. {i \in 0 .. size[o] - 1 : ~ Flags!IsValid(o, i)} = {}
    BY <2>1
  <2>3. QED BY <2>1, <2>2, SameCount, FS_EmptySet
<1>5. BitsBehindClear
  <2> SUFFICES ASSUME NEW o \in Objects PROVE size[o] .. Width * Len(bits[o]) - 1 = {}
    BY DEF BitsBehindClear
  <2>1. size[o] = 0 /\ Len(bits[o]) = 0 /\ Width * 0 = 0
    BY <1>1, Constants_
  <2>2. QED BY <2>1
<1>6. TypeOK
  <2>1. << >> \in Seq(STRING) /\ Len(<< >>) = 0 /\ 0 \in 0 .. ArenaLimit /\ ArenaLimit \in Nat
    BY Constants_
  <2>2. /\ <<0>> \in Seq(0 .. ArenaLimit) /\ Len(<<0>>) = 1 /\ <<0>>[1] = 0
    BY <2>1
  <2>3. bytes \in [Objects -> Seq(STRING)] /\ offsets \in [Objects -> Seq(0 .. ArenaLimit)]
    BY <1>1, <2>1, <2>2
  <2>4. ASSUME NEW o \in Objects
        PROVE  /\ Len(bytes[o]) <= ArenaLimit
               /\ Len(offsets[o]) = 1 + (IF Flags!Idle \/ copy.into # o THEN size[o]
                                         ELSE size[o] + copy.count)
               /\ \A i, j \in 1 .. Len(offsets[o]) : i <= j => offsets[o][i] <= offsets[o][j]
               /\ offsets[o][1] = 0
               /\ offsets[o][Len(offsets[o])] = Len(bytes[o])
    <3>1. /\ bytes[o] = << >> /\ offsets[o] = <<0>> /\ size[o] = 0 /\ Flags!Idle
      BY <1>1 DEF Flags!Idle
    <3>2. \A i \in 1 .. 1 : i = 1
      OBVIOUS
    <3>3. QED BY <2>1, <2>2, <3>1, <3>2
  <2>5. QED BY <1>3, <2>3, <2>4 DEF TypeOK
<1>7. RangeUnderWay
  BY <1>1 DEF RangeUnderWay, Flags!Idle
<1>8. QED BY <1>4, <1>5, <1>6, <1>7 DEF IInv

LEMMA NextIInv ==
  ASSUME IInv, [Next]_vars
  PROVE  IInv'
<1>1. ASSUME NEW o \in Objects, NEW n \in 0 .. MaxRows, Reset(o, n) PROVE IInv'
  BY <1>1, ResetStep
<1>2. ASSUME NEW o \in Objects, NEW row \in 0 .. MaxRows - 1, NEW valid \in BOOLEAN,
             SetValid(o, row, valid)
      PROVE  IInv'
  BY <1>2, SetValidStep
<1>3. ASSUME NEW o \in Objects, NEW s \in Seq(STRING), NEW valid \in BOOLEAN,
             AppendString(o, s, valid)
      PROVE  IInv'
  <2>1. PICK n : n = size[o]
    OBVIOUS
  <2>2. QED BY <1>3, <2>1, AppendStep
<1>4. ASSUME NEW o \in Objects, AppendNull(o) PROVE IInv'
  <2>1. AppendString(o, << >>, FALSE)
    BY <1>4, Zenon DEF AppendNull
  <2>2. << >> \in Seq(STRING)
    OBVIOUS
  <2>3. QED BY <1>3, <2>1, <2>2
<1>5. ASSUME NEW o \in Objects, NEW source \in Objects, NEW row \in 0 .. MaxRows - 1,
             AppendFrom(o, source, row)
      PROVE  IInv'
  <2>1. PICK s \in Seq(STRING), valid \in BOOLEAN : AppendString(o, s, valid)
    BY <1>5, AppendFromIs
  <2>2. QED BY <1>3, <2>1
<1>6. ASSUME NEW o \in Objects, NEW source \in Objects, NEW start \in 0 .. MaxRows - 1,
             NEW count \in 1 .. MaxRows - start, AppendRange(o, source, start, count)
      PROVE  IInv'
  <2>1. start \in Nat /\ count \in Nat \ {0}
    BY Constants_
  <2>2. PICK n : n = size[o]
    OBVIOUS
  <2>3. QED BY <1>6, <2>1, <2>2, AppendRangeStep
<1>7. CASE AppendFlags
  <2>1. PICK o : o = copy.into
    OBVIOUS
  <2>2. PICK n : n = size[o]
    OBVIOUS
  <2>3. QED BY <1>7, <2>1, <2>2, AppendFlagsStep
<1>8. CASE UNCHANGED vars
  <2>1. /\ bits' = bits /\ size' = size /\ nulls' = nulls /\ preset' = preset /\ copy' = copy
        /\ bytes' = bytes /\ offsets' = offsets
    BY <1>8 DEF vars
  <2>2. TypeOK'
    <3>1. Flags!TypeOK
      BY DEF IInv, TypeOK
    <3>2. Flags!TypeOK'
      BY <2>1, <3>1 DEF Flags!TypeOK, Flags!Idle
    <3>3. TypeOK /\ \A q \in Objects : Rows(q)' = Rows(q)
      BY <2>1 DEF IInv, Rows, Flags!Idle
    <3>4. QED BY <2>1, <3>2, <3>3, NoneLanded
  <2>3. \A o, row : /\ Flags!IsValid(o, row)' = Flags!IsValid(o, row)
                     /\ StringAt(o, row)' = StringAt(o, row)
    BY <2>1, RowFacts
  <2>4. NullCountExact'
    BY <2>1, <2>3 DEF IInv, NullCountExact, Flags!NullCountExact
  <2>5. BitsBehindClear'
    BY <2>1, <2>3 DEF IInv, BitsBehindClear
  <2>6. RangeUnderWay'
    BY <2>1, <2>3 DEF IInv, RangeUnderWay, Flags!Idle
  <2>7. QED BY <2>2, <2>4, <2>5, <2>6 DEF IInv
<1>9. CASE Call
  BY <1>1, <1>2, <1>3, <1>4, <1>5, <1>6, <1>9, Constants_ DEF Call
<1>10. QED BY <1>7, <1>8, <1>9 DEF Next

\* The invariant holds in every reachable state, for every width of a word and every
\* limit of the arena.
THEOREM ColumnInvariance == Spec => []IInv
<1>1. Init => IInv
  BY InitIInv
<1>2. IInv /\ [Next]_vars => IInv'
  BY NextIInv
<1>3. QED BY <1>1, <1>2, PTL DEF Spec

\* The arena, the offsets and the words of every column fit its rows, an append_range()
\* in progress included (vector.cpp:97-160).
THEOREM ColumnTypes == Spec => []TypeOK
<1>1. IInv => TypeOK
  BY DEF IInv
<1>2. QED BY <1>1, ColumnInvariance, PTL

\* null_count() is the number of NULL rows however they arrived (vector.cpp:34-67).
THEOREM ColumnNullCounts == Spec => []NullCountExact
<1>1. IInv => NullCountExact
  BY DEF IInv
<1>2. QED BY <1>1, ColumnInvariance, PTL

-----------------------------------------------------------------------------
\* The cells of all columns, and how they follow from rows.
Cells_ == [o \in Objects |-> CellsOf(o)]
Visible(o) == IF ~ Flags!Idle /\ copy.into = o THEN copy.base ELSE size[o]
Cell == [string : Seq(STRING), valid : BOOLEAN]

CellFact(o) ==
  /\ Visible(o) \in Nat /\ Visible(o) <= size[o] /\ Visible(o) <= Rows(o)
  /\ CellsOf(o) \in Seq(Cell) /\ Len(CellsOf(o)) = Visible(o)
  /\ DOMAIN CellsOf(o) = 1 .. Visible(o)
  /\ \A i \in 1 .. Visible(o) :
       CellsOf(o)[i] = [string |-> StringAt(o, i - 1), valid |-> Flags!IsValid(o, i - 1)]

LEMMA CellFacts ==
  ASSUME IInv, NEW o \in Objects
  PROVE  CellFact(o)
<1>1. TypeOK /\ FlagsInv /\ size[o] \in Nat
  BY InvParts, FlagFacts
<1>2. Visible(o) \in Nat /\ Visible(o) <= size[o] /\ Visible(o) <= Rows(o)
  <2>1. CASE ~ Flags!Idle /\ copy.into = o
    <3>1. PICK source, n, base, first, count :
            /\ source = copy.source /\ n = size[o] /\ base = copy.base /\ first = copy.first
            /\ count = copy.count
      OBVIOUS
    <3>2. base \in Nat /\ base <= n /\ n \in Nat /\ count \in Nat
      BY <2>1, <3>1, UnderWayFacts
    <3>3. Visible(o) = base /\ Rows(o) = n + count
      BY <2>1, <3>1 DEF Visible, Rows
    <3>4. QED BY <3>1, <3>2, <3>3
  <2>2. CASE ~ (~ Flags!Idle /\ copy.into = o)
    BY <1>1, <2>2 DEF Visible, Rows
  <2>3. QED BY <2>1, <2>2
<1> DEFINE n == Visible(o)
           cells == [i \in 1 .. n |-> [string |-> StringAt(o, i - 1), valid |-> Flags!IsValid(o, i - 1)]]
<1>3. CellsOf(o) = cells
  BY DEF CellsOf, Visible
<1>4. ASSUME NEW i \in 1 .. n
      PROVE  [string |-> StringAt(o, i - 1), valid |-> Flags!IsValid(o, i - 1)] \in Cell
  <2>1. i - 1 \in Nat /\ i - 1 < Rows(o)
    BY <1>1, <1>2, StringFacts
  <2>2. StringAt(o, i - 1) \in Seq(STRING)
    BY <1>1, <2>1, StringTyped
  <2>3. Flags!IsValid(o, i - 1) \in BOOLEAN
    BY DEF Flags!IsValid
  <2>4. QED BY <2>2, <2>3 DEF Cell
<1>5. cells \in [1 .. n -> Cell]
  BY <1>4
<1> HIDE DEF n
<1>6. n \in Nat
  BY <1>2 DEF n
<1>7. \A i \in 1 .. n :
        cells[i] = [string |-> StringAt(o, i - 1), valid |-> Flags!IsValid(o, i - 1)]
  OBVIOUS
<1> HIDE DEF cells
<1>8. cells \in Seq(Cell)
  BY <1>5, <1>6, SeqDef
<1>9. Len(cells) = n /\ DOMAIN cells = 1 .. n
  BY <1>5, <1>6, <1>8, LenProperties
<1>10. QED BY <1>2, <1>3, <1>7, <1>8, <1>9 DEF n, CellFact

LEMMA CellFactsNext ==
  ASSUME NEW o \in Objects
  PROVE  IInv' => CellFact(o)'
<1>1. IInv => CellFact(o)
  BY CellFacts
<1>2. QED BY <1>1, PTL

\* A column whose visible rows keep their strings and flags keeps its cells.
LEMMA CellsKept ==
  ASSUME NEW o, Visible(o)' = Visible(o), Visible(o) \in Nat,
         \A row \in 0 .. Visible(o) - 1 : /\ StringAt(o, row)' = StringAt(o, row)
                                          /\ Flags!IsValid(o, row)' <=> Flags!IsValid(o, row)
  PROVE  CellsOf(o)' = CellsOf(o)
<1>1. PICK n \in Nat : n = Visible(o)
  OBVIOUS
<1>2. ASSUME NEW i \in 1 .. n
      PROVE  /\ StringAt(o, i - 1)' = StringAt(o, i - 1)
             /\ Flags!IsValid(o, i - 1)' = Flags!IsValid(o, i - 1)
  <2>1. i - 1 \in 0 .. n - 1
    OBVIOUS
  <2>2. /\ StringAt(o, i - 1)' = StringAt(o, i - 1)
        /\ Flags!IsValid(o, i - 1)' <=> Flags!IsValid(o, i - 1)
    BY <1>1, <2>1
  <2>3. Flags!IsValid(o, i - 1)' \in BOOLEAN /\ Flags!IsValid(o, i - 1) \in BOOLEAN
    BY DEF Flags!IsValid
  <2>4. QED BY <2>2, <2>3
<1>3. CellsOf(o) = [i \in 1 .. n |-> [string |-> StringAt(o, i - 1), valid |-> Flags!IsValid(o, i - 1)]]
  BY <1>1 DEF CellsOf, Visible
<1>4. CellsOf(o)' = [i \in 1 .. n |-> [string |-> StringAt(o, i - 1)', valid |-> Flags!IsValid(o, i - 1)']]
  <2>1. n = Visible(o)'
    BY <1>1
  <2>2. QED BY <2>1 DEF CellsOf, Visible
<1>5. QED BY <1>2, <1>3, <1>4

\* The columns that a step does not touch keep their cells.
LEMMA OtherCells ==
  ASSUME IInv, NEW o \in Objects, OthersKept(o)
  PROVE  /\ \A q \in Objects : q # o => CellsOf(q)' = CellsOf(q)
         /\ Visible(o) = size[o] /\ Visible(o)' = size'[o]
<1>1. Visible(o) = size[o] /\ Visible(o)' = size'[o]
  BY DEF OthersKept, Visible
<1>2. ASSUME NEW q \in Objects, q # o PROVE CellsOf(q)' = CellsOf(q)
  <2>1. Visible(q)' = Visible(q) /\ Visible(q) \in Nat
    BY <1>2, CellFacts DEF OthersKept, Visible, CellFact
  <2>2. \A row : /\ StringAt(q, row)' = StringAt(q, row)
                 /\ Flags!IsValid(q, row)' <=> Flags!IsValid(q, row)
    BY <1>2, RowFacts DEF OthersKept
  <2>3. QED BY <2>1, <2>2, CellsKept
<1>3. QED BY <1>1, <1>2

\* One column gets new cells.
LEMMA CellsChanged ==
  ASSUME NEW o \in Objects, NEW cells, CellsOf(o)' = cells,
         \A q \in Objects : q # o => CellsOf(q)' = CellsOf(q)
  PROVE  Cells_' = [Cells_ EXCEPT ![o] = cells] /\ Cells_[o] = CellsOf(o)
<1>1. Cells_' = [q \in Objects |-> CellsOf(q)']
  BY DEF Cells_
<1>2. QED BY <1>1 DEF Cells_

\* A column that gets one cell behind its own.
LEMMA CellAppended ==
  ASSUME IInv, IInv', NEW o \in Objects, NEW s, NEW valid \in BOOLEAN, NEW n, n = size[o], n \in Nat,
         OthersKept(o), size'[o] = n + 1,
         \A row \in 0 .. n - 1 : /\ StringAt(o, row)' = StringAt(o, row)
                                 /\ Flags!IsValid(o, row)' <=> Flags!IsValid(o, row),
         StringAt(o, n)' = s, Flags!IsValid(o, n)' <=> valid
  PROVE  CellsOf(o)' = Append(CellsOf(o), [string |-> s, valid |-> valid])
<1> DEFINE before == CellsOf(o)
           after == CellsOf(o)'
           cell == [string |-> s, valid |-> valid]
<1>1. Visible(o) = n /\ Visible(o)' = n + 1
  BY OtherCells
<1>2. /\ before \in Seq(Cell) /\ Len(before) = n
      /\ \A i \in 1 .. n :
           before[i] = [string |-> StringAt(o, i - 1), valid |-> Flags!IsValid(o, i - 1)]
  BY <1>1, CellFacts DEF CellFact
<1>3. /\ after \in Seq(Cell) /\ Len(after) = n + 1
      /\ \A i \in 1 .. n + 1 :
           after[i] = [string |-> StringAt(o, i - 1)', valid |-> Flags!IsValid(o, i - 1)']
  BY <1>1, CellFactsNext DEF CellFact
<1>4. \A i \in 1 .. n : after[i] = before[i]
  <2> SUFFICES ASSUME NEW i \in 1 .. n PROVE after[i] = before[i]
    OBVIOUS
  <2>1. i - 1 \in 0 .. n - 1 /\ i \in 1 .. n + 1
    OBVIOUS
  <2>2. /\ StringAt(o, i - 1)' = StringAt(o, i - 1)
        /\ Flags!IsValid(o, i - 1)' <=> Flags!IsValid(o, i - 1)
    BY <2>1
  <2>3. Flags!IsValid(o, i - 1)' \in BOOLEAN /\ Flags!IsValid(o, i - 1) \in BOOLEAN
    BY DEF Flags!IsValid
  <2> HIDE DEF before, after
  <2>4. QED BY <1>2, <1>3, <2>1, <2>2, <2>3
<1>5. after[n + 1] = cell
  <2>1. n + 1 \in 1 .. n + 1 /\ (n + 1) - 1 = n
    OBVIOUS
  <2>2. Flags!IsValid(o, n)' = valid
    BY DEF Flags!IsValid
  <2> HIDE DEF after
  <2>3. QED BY <1>3, <2>1, <2>2
<1> HIDE DEF before, after, cell
<1>6. cell \in Cell
  <2>1. n + 1 \in 1 .. Len(after)
    BY <1>3
  <2>2. QED BY <1>3, <1>5, <2>1, ElementOfSeq
<1>7. /\ Append(before, cell) \in Seq(Cell) /\ Len(Append(before, cell)) = n + 1
      /\ \A i \in 1 .. n + 1 : Append(before, cell)[i] = IF i = n + 1 THEN cell ELSE before[i]
  <2>1. /\ Append(before, cell) \in Seq(Cell) /\ Len(Append(before, cell)) = Len(before) + 1
        /\ \A i \in 1 .. Len(before) : Append(before, cell)[i] = before[i]
        /\ Append(before, cell)[Len(before) + 1] = cell
    BY <1>2, <1>6, AppendProperties
  <2>2. QED BY <1>2, <2>1
<1>8. \A i \in 1 .. n + 1 : after[i] = Append(before, cell)[i]
  BY <1>4, <1>5, <1>7
<1>9. after = Append(before, cell)
  BY <1>3, <1>7, <1>8, SeqEqual
<1>10. QED BY <1>9 DEF before, after, cell

LEMMA ResetCells ==
  ASSUME IInv, NEW o \in Objects, NEW n \in 0 .. MaxRows, Reset(o, n)
  PROVE  Abstract!Reset(o, n)
<1> DEFINE cells == [i \in 1 .. n |-> [string |-> << >>, valid |-> TRUE]]
<1>1. /\ IInv' /\ OthersKept(o) /\ size'[o] = n
      /\ \A row \in 0 .. n - 1 : StringAt(o, row)' = << >> /\ Flags!IsValid(o, row)'
  BY ResetStep
<1>2. /\ Visible(o)' = n /\ n \in Nat
      /\ \A q \in Objects : q # o => CellsOf(q)' = CellsOf(q)
  BY <1>1, OtherCells, Constants_
<1>3. CellsOf(o)' = [i \in 1 .. n |-> [string |-> StringAt(o, i - 1)', valid |-> Flags!IsValid(o, i - 1)']]
  BY <1>2 DEF CellsOf, Visible
<1>4. ASSUME NEW i \in 1 .. n
      PROVE  StringAt(o, i - 1)' = << >> /\ Flags!IsValid(o, i - 1)' = TRUE
  <2>1. i - 1 \in 0 .. n - 1
    BY <1>2
  <2>2. Flags!IsValid(o, i - 1)' \in BOOLEAN
    BY DEF Flags!IsValid
  <2>3. QED BY <1>1, <2>1, <2>2
<1>5. CellsOf(o)' = cells
  BY <1>3, <1>4
<1> HIDE DEF cells
<1>6. Cells_' = [Cells_ EXCEPT ![o] = cells]
  BY <1>2, <1>5, CellsChanged
<1>7. QED BY <1>6 DEF Abstract!Reset, Cells_, cells

LEMMA SetValidCells ==
  ASSUME IInv, NEW o \in Objects, NEW row \in 0 .. MaxRows - 1, NEW valid \in BOOLEAN,
         SetValid(o, row, valid)
  PROVE  \E i \in DOMAIN CellsOf(o) : Abstract!SetValid(o, i, valid)
<1>1. PICK n : n = size[o]
  OBVIOUS
<1>2. /\ IInv' /\ OthersKept(o) /\ size'[o] = n /\ row < n
      /\ \A r \in 0 .. n - 1 :
           /\ StringAt(o, r)' = StringAt(o, r)
           /\ Flags!IsValid(o, r)' <=> IF r = row THEN valid ELSE Flags!IsValid(o, r)
  BY <1>1, SetValidStep
<1>3. /\ Visible(o) = n /\ Visible(o)' = n /\ n \in Nat /\ row \in Nat
      /\ \A q \in Objects : q # o => CellsOf(q)' = CellsOf(q)
  <2>1. n \in Nat
    BY <1>1, InvParts, FlagFacts
  <2>2. QED BY <1>1, <1>2, <2>1, OtherCells, Constants_
<1> DEFINE before == CellsOf(o)
           after == CellsOf(o)'
           k == row + 1
           new == [before EXCEPT ![k] = [before[k] EXCEPT !.valid = valid]]
<1>4. /\ before \in Seq(Cell) /\ Len(before) = n /\ DOMAIN before = 1 .. n
      /\ \A i \in 1 .. n :
           before[i] = [string |-> StringAt(o, i - 1), valid |-> Flags!IsValid(o, i - 1)]
  BY <1>3, CellFacts DEF CellFact
<1>5. /\ after \in Seq(Cell) /\ Len(after) = n
      /\ \A i \in 1 .. n :
           after[i] = [string |-> StringAt(o, i - 1)', valid |-> Flags!IsValid(o, i - 1)']
  BY <1>2, <1>3, CellFactsNext DEF CellFact
<1>6. k \in 1 .. n
  BY <1>2, <1>3
<1> HIDE DEF before, after, k
<1>7. /\ before[k] \in Cell /\ [before[k] EXCEPT !.valid = valid] \in Cell
      /\ [before[k] EXCEPT !.valid = valid] = [string |-> before[k].string, valid |-> valid]
  <2>1. before[k] \in Cell
    BY <1>4, <1>6, ElementOfSeq
  <2>2. QED BY <2>1 DEF Cell
<1>8. /\ new \in Seq(Cell) /\ Len(new) = n
      /\ \A i \in 1 .. n : new[i] = IF i = k THEN [before[k] EXCEPT !.valid = valid] ELSE before[i]
  BY <1>4, <1>6, <1>7, ExceptSeq
<1> HIDE DEF new
<1>9. ASSUME NEW i \in 1 .. n PROVE after[i] = new[i]
  <2>1. i - 1 \in 0 .. n - 1 /\ (i - 1 = row <=> i = k)
    BY <1>3 DEF k
  <2>2. /\ StringAt(o, i - 1)' = StringAt(o, i - 1)
        /\ Flags!IsValid(o, i - 1)' <=> IF i = k THEN valid ELSE Flags!IsValid(o, i - 1)
    BY <1>2, <2>1
  <2>3. Flags!IsValid(o, i - 1)' \in BOOLEAN /\ Flags!IsValid(o, i - 1) \in BOOLEAN
    BY DEF Flags!IsValid
  <2>4. CASE i = k
    <3>1. before[k].string = StringAt(o, i - 1)
      BY <1>4, <2>4
    <3>2. new[i] = [string |-> StringAt(o, i - 1), valid |-> valid]
      BY <1>7, <1>8, <2>4, <3>1
    <3>3. Flags!IsValid(o, i - 1)' = valid
      BY <2>2, <2>3, <2>4
    <3>4. QED BY <1>5, <2>2, <3>2, <3>3
  <2>5. CASE i # k
    <3>1. Flags!IsValid(o, i - 1)' = Flags!IsValid(o, i - 1)
      BY <2>2, <2>3, <2>5
    <3>2. QED BY <1>4, <1>5, <1>8, <2>2, <2>5, <3>1
  <2>6. QED BY <2>4, <2>5
<1>10. after = new
  BY <1>5, <1>8, <1>9, SeqEqual
<1>11. Cells_' = [Cells_ EXCEPT ![o] = new] /\ Cells_[o] = before
  BY <1>3, <1>10, CellsChanged DEF before, after
<1>12. [Cells_ EXCEPT ![o][k].valid = valid] = [Cells_ EXCEPT ![o] = new]
  BY <1>11 DEF new
<1>13. Abstract!SetValid(o, k, valid)
  BY <1>11, <1>12 DEF Abstract!SetValid, Cells_
<1>14. k \in DOMAIN CellsOf(o)
  BY <1>4, <1>6 DEF before
<1>15. QED BY <1>13, <1>14

LEMMA AppendCells ==
  ASSUME IInv, NEW o \in Objects, NEW s \in Seq(STRING), NEW valid \in BOOLEAN,
         AppendString(o, s, valid)
  PROVE  /\ Abstract!AppendCell(o, [string |-> s, valid |-> valid])
         /\ CellsOf(o)' = Append(CellsOf(o), [string |-> s, valid |-> valid])
         /\ \A q \in Objects : q # o => CellsOf(q)' = CellsOf(q)
<1>1. PICK n : n = size[o]
  OBVIOUS
<1>2. /\ IInv' /\ OthersKept(o) /\ n \in Nat /\ size'[o] = n + 1
      /\ \A row \in 0 .. n - 1 : /\ StringAt(o, row)' = StringAt(o, row)
                                 /\ Flags!IsValid(o, row)' <=> Flags!IsValid(o, row)
      /\ StringAt(o, n)' = s /\ (Flags!IsValid(o, n)' <=> valid)
  BY <1>1, AppendStep
<1> DEFINE cells == Append(CellsOf(o), [string |-> s, valid |-> valid])
<1>3. CellsOf(o)' = cells
  BY <1>1, <1>2, CellAppended
<1>4. \A q \in Objects : q # o => CellsOf(q)' = CellsOf(q)
  BY <1>2, OtherCells
<1>5. cells = Append(Cells_[o], [string |-> s, valid |-> valid])
  BY DEF Cells_
<1> HIDE DEF cells
<1>6. Cells_' = [Cells_ EXCEPT ![o] = cells]
  BY <1>3, <1>4, CellsChanged
<1>7. QED BY <1>3, <1>4, <1>5, <1>6 DEF Abstract!AppendCell, Cells_, cells

\* A cell of another column goes to the end.
LEMMA AppendFromCells ==
  ASSUME IInv, NEW o \in Objects, NEW source \in Objects, NEW row \in 0 .. MaxRows - 1,
         AppendFrom(o, source, row)
  PROVE  \E first, last \in DOMAIN CellsOf(source) :
           source # o /\ Abstract!AppendRange(o, source, first, last)
<1> DEFINE s == StringAt(source, row)
           valid == Flags!IsValid(source, row)
           cell == [string |-> s, valid |-> valid]
           k == row + 1
<1>1. /\ Flags!Idle /\ source # o /\ row \in Nat /\ row < size[source]
      /\ s \in Seq(STRING) /\ valid \in BOOLEAN /\ AppendString(o, s, valid)
  BY AppendFromIs
<1>2. /\ CellsOf(o)' = Append(CellsOf(o), cell)
      /\ \A q \in Objects : q # o => CellsOf(q)' = CellsOf(q)
  <2> HIDE DEF s, valid
  <2>1. QED BY <1>1, AppendCells
<1>3. size[source] \in Nat
  BY InvParts, FlagFacts
<1>4. Visible(source) = size[source] /\ k \in 1 .. size[source] /\ k - 1 = row
  BY <1>1, <1>3 DEF Visible
<1>5. /\ CellsOf(source) \in Seq(Cell) /\ Len(CellsOf(source)) = size[source]
      /\ DOMAIN CellsOf(source) = 1 .. size[source]
      /\ CellsOf(source)[k] = cell /\ CellsOf(o) \in Seq(Cell)
  <2>1. CellFact(source) /\ CellFact(o)
    BY CellFacts
  <2>2. \A i \in 1 .. Visible(source) :
          CellsOf(source)[i] = [string |-> StringAt(source, i - 1), valid |-> Flags!IsValid(source, i - 1)]
    BY <2>1 DEF CellFact
  <2>3. CellsOf(source)[k] = cell
    BY <1>4, <2>2
  <2>4. QED BY <1>4, <2>1, <2>3 DEF CellFact
<1> HIDE DEF cell, k
<1>6. SubSeq(CellsOf(source), k, k) = << cell >> /\ cell \in Cell
  <2>1. cell \in Cell
    BY <1>4, <1>5, ElementOfSeq
  <2>2. \A i \in k .. k : i = k /\ CellsOf(source)[i] \in Cell
    BY <1>4, <1>5, <2>1
  <2>3. k \in Int /\ (k - k) + 1 = 1 /\ (k + 1) - 1 = k
    BY <1>4
  <2>4. /\ SubSeq(CellsOf(source), k, k) \in Seq(Cell) /\ Len(SubSeq(CellsOf(source), k, k)) = 1
        /\ SubSeq(CellsOf(source), k, k)[1] = cell
    BY <1>5, <2>2, <2>3, SubSeqProperties
  <2>5. << cell >> \in Seq(Cell) /\ Len(<< cell >>) = 1 /\ << cell >>[1] = cell
    BY <2>1
  <2>6. \A i \in 1 .. 1 : i = 1
    OBVIOUS
  <2>7. QED BY <2>1, <2>4, <2>5, <2>6, SeqEqual
<1>7. CellsOf(o)' = CellsOf(o) \o SubSeq(CellsOf(source), k, k)
  BY <1>2, <1>5, <1>6, AppendIsConcat
<1> DEFINE cells == CellsOf(o) \o SubSeq(CellsOf(source), k, k)
<1>8. cells = Cells_[o] \o SubSeq(Cells_[source], k, k)
  BY DEF Cells_
<1> HIDE DEF cells
<1>9. Cells_' = [Cells_ EXCEPT ![o] = cells]
  BY <1>2, <1>7, CellsChanged DEF cells
<1>10. Abstract!AppendRange(o, source, k, k)
  BY <1>8, <1>9 DEF Abstract!AppendRange, Cells_
<1>11. k \in DOMAIN CellsOf(source)
  BY <1>4, <1>5
<1>12. QED BY <1>1, <1>10, <1>11

\* The cells of a range are there only when its last flag is.
LEMMA AppendRangeCells ==
  ASSUME IInv, NEW o \in Objects, NEW source \in Objects, NEW start \in Nat,
         NEW count \in Nat \ {0}, AppendRange(o, source, start, count)
  PROVE  Cells_' = Cells_
<1>1. PICK n : n = size[o]
  OBVIOUS
<1>2. /\ IInv' /\ Flags!Idle /\ size' = size /\ n \in Nat
      /\ copy'.into = o /\ copy'.base = n /\ copy' # Flags!NoCopy
      /\ \A q \in Objects : q # o => /\ bytes'[q] = bytes[q] /\ offsets'[q] = offsets[q]
                                     /\ bits'[q] = bits[q]
      /\ \A row \in 0 .. n - 1 : /\ StringAt(o, row)' = StringAt(o, row)
                                 /\ Flags!IsValid(o, row)' <=> Flags!IsValid(o, row)
  <2>1. /\ IInv' /\ Flags!Idle /\ size' = size /\ n \in Nat
        /\ copy' = [into |-> o, source |-> source, start |-> start, count |-> count,
                    base |-> n, first |-> start]
        /\ copy' # Flags!NoCopy
        /\ \A q \in Objects : q # o => /\ bytes'[q] = bytes[q] /\ offsets'[q] = offsets[q]
                                       /\ bits'[q] = bits[q]
        /\ \A row \in 0 .. n - 1 : /\ StringAt(o, row)' = StringAt(o, row)
                                   /\ Flags!IsValid(o, row)' <=> Flags!IsValid(o, row)
    BY <1>1, AppendRangeStep
  <2>2. copy'.into = o /\ copy'.base = n
    BY <2>1
  <2>3. QED BY <2>1, <2>2
<1>3. ASSUME NEW q \in Objects PROVE CellsOf(q)' = CellsOf(q)
  <2>1. Visible(q) \in Nat
    BY CellFacts DEF CellFact
  <2>2. Visible(q)' = Visible(q) /\ Visible(q) = size[q]
    BY <1>1, <1>2 DEF Visible, Flags!Idle
  <2>3. CASE q = o
    BY <1>1, <1>2, <2>1, <2>2, <2>3, CellsKept
  <2>4. CASE q # o
    <3>1. \A row : /\ StringAt(q, row)' = StringAt(q, row)
                   /\ Flags!IsValid(q, row)' <=> Flags!IsValid(q, row)
      BY <1>2, <2>4, RowFacts
    <3>2. QED BY <2>1, <2>2, <3>1, CellsKept
  <2>5. QED BY <2>3, <2>4
<1>4. QED BY <1>3 DEF Cells_

\* The last flag of a range brings all its cells.
LEMMA AppendFlagsCells ==
  ASSUME IInv, AppendFlags
  PROVE  \/ Cells_' = Cells_
         \/ \E o \in Objects : \E source \in Objects \ {o} :
              \E first, last \in DOMAIN CellsOf(source) : Abstract!AppendRange(o, source, first, last)
<1>1. PICK o, source, n : o = copy.into /\ source = copy.source /\ n = size[o]
  OBVIOUS
<1>2. PICK base, first, count : base = copy.base /\ first = copy.first /\ count = copy.count
  OBVIOUS
<1>3. ~ Flags!Idle
  BY DEF AppendFlags, Flags!CopyChunk
<1>4. /\ o \in Objects /\ source \in Objects /\ o # source
      /\ n \in Nat /\ base \in Nat /\ first \in Nat /\ count \in Nat /\ count >= 1
      /\ copy.start \in Nat /\ copy.start = first + (n - base) /\ base <= n
      /\ copy.start + count <= size[source] /\ size[source] \in Nat
      /\ \A j \in base .. n - 1 : Flag(bits[o], j) <=> Flag(bits[source], first + (j - base))
      /\ \A j \in base .. n + count - 1 :
           StringAt(o, j) = StringAt(source, first + (j - base))
  BY <1>1, <1>2, <1>3, UnderWayFacts
<1>5. PICK take \in 1 .. copy.count :
        /\ IInv'
        /\ bytes' = bytes /\ offsets' = offsets
        /\ size' = [size EXCEPT ![o] = n + take]
        /\ copy' = IF copy.count = take THEN Flags!NoCopy
                   ELSE [copy EXCEPT !.start = @ + take, !.count = @ - take]
        /\ \A q \in Objects : q # o => bits'[q] = bits[q]
        /\ \A j \in Nat : j < n => (Flag(bits'[o], j) <=> Flag(bits[o], j))
        /\ \A j \in 0 .. take - 1 :
             Flag(bits'[o], n + j) <=> Flag(bits[copy.source], copy.start + j)
  BY <1>1, AppendFlagsStep
<1>6. size'[o] = n + take /\ \A q \in Objects : q # o => size'[q] = size[q]
  <2>1. size \in [Objects -> 0 .. MaxRows]
    BY DEF IInv, TypeOK, Flags!TypeOK
  <2>2. QED BY <1>4, <1>5, <2>1
<1>7. \A q, row : StringAt(q, row)' = StringAt(q, row)
  BY <1>5, RowFacts
<1>8. ASSUME NEW q \in Objects, q # o PROVE CellsOf(q)' = CellsOf(q)
  <2>1. copy' = Flags!NoCopy \/ copy'.into = o
    <3>1. copy \in [into : Objects, source : Objects, start : Nat, count : Nat \ {0},
                    base : Nat, first : Nat]
      BY <1>3 DEF IInv, TypeOK, Flags!TypeOK
    <3>2. QED BY <1>1, <1>5, <3>1
  <2>2. Visible(q)' = Visible(q)
    BY <1>1, <1>6, <1>8, <2>1 DEF Visible, Flags!Idle
  <2>3. Visible(q) \in Nat
    BY CellFacts DEF CellFact
  <2>4. \A row : Flags!IsValid(q, row)' <=> Flags!IsValid(q, row)
    BY <1>5, <1>8, RowFacts
  <2>5. QED BY <1>7, <2>2, <2>3, <2>4, CellsKept
<1>9. Visible(o) = base
  BY <1>1, <1>2, <1>3 DEF Visible
<1>10. CASE copy.count # take
  <2>1. copy' = [copy EXCEPT !.start = @ + take, !.count = @ - take]
    BY <1>5, <1>10
  <2>2. copy \in [into : Objects, source : Objects, start : Nat, count : Nat \ {0},
                  base : Nat, first : Nat]
    BY <1>3 DEF IInv, TypeOK, Flags!TypeOK
  <2>3. copy'.into = o /\ copy'.base = base
    BY <1>1, <1>2, <2>1, <2>2
  <2>4. copy' # Flags!NoCopy
    <3>1. DOMAIN copy' = {"into", "source", "start", "count", "base", "first"}
      BY <2>1, <2>2
    <3>2. QED BY <3>1 DEF Flags!NoCopy
  <2>5. Visible(o)' = base
    BY <2>3, <2>4 DEF Visible, Flags!Idle
  <2>6. \A row \in 0 .. base - 1 : Flags!IsValid(o, row)' <=> Flags!IsValid(o, row)
    <3> SUFFICES ASSUME NEW row \in 0 .. base - 1
                 PROVE  Flags!IsValid(o, row)' <=> Flags!IsValid(o, row)
      OBVIOUS
    <3>1. row \in Nat /\ row < n
      BY <1>4
    <3>2. QED BY <1>5, <3>1, RowFacts
  <2>7. CellsOf(o)' = CellsOf(o)
    BY <1>4, <1>7, <1>9, <2>5, <2>6, CellsKept
  <2>8. QED BY <1>8, <2>7 DEF Cells_
<1>11. CASE copy.count = take
  <2>1. copy' = Flags!NoCopy
    BY <1>5, <1>11
  <2>2. Visible(o)' = n + take
    BY <1>6, <2>1 DEF Visible, Flags!Idle
  <2>3. Visible(source) = size[source]
    BY <1>1, <1>4 DEF Visible
  <2> DEFINE before == CellsOf(o)
             after == CellsOf(o)'
             theirs == CellsOf(source)
             f == first + 1
             len == (n + take) - base
             l == first + len
             part == SubSeq(theirs, f, l)
  <2>4. /\ len \in Nat /\ len >= 1 /\ n + take = base + len /\ l <= size[source]
        /\ f \in 1 .. size[source] /\ l \in 1 .. size[source] /\ (l - f) + 1 = len
    <3> DEFINE start == copy.start
               size_ == size[source]
    <3>1. start \in Nat /\ start = first + (n - base) /\ start + count <= size_ /\ size_ \in Nat
          /\ take = count
      BY <1>2, <1>4, <1>11
    <3> HIDE DEF start, size_
    <3>2. /\ len \in Nat /\ len >= 1 /\ n + take = base + len /\ l <= size_
          /\ f \in 1 .. size_ /\ l \in 1 .. size_ /\ (l - f) + 1 = len
      BY <1>4, <3>1
    <3>3. QED BY <3>2 DEF size_
  <2>5. /\ before \in Seq(Cell) /\ Len(before) = base
        /\ \A i \in 1 .. base :
             before[i] = [string |-> StringAt(o, i - 1), valid |-> Flags!IsValid(o, i - 1)]
    BY <1>4, <1>9, CellFacts DEF CellFact
  <2>6. /\ theirs \in Seq(Cell) /\ Len(theirs) = size[source] /\ DOMAIN theirs = 1 .. size[source]
        /\ \A i \in 1 .. size[source] :
             theirs[i] = [string |-> StringAt(source, i - 1), valid |-> Flags!IsValid(source, i - 1)]
    BY <1>4, <2>3, CellFacts DEF CellFact
  <2>7. /\ after \in Seq(Cell) /\ Len(after) = n + take
        /\ \A i \in 1 .. n + take :
             after[i] = [string |-> StringAt(o, i - 1)', valid |-> Flags!IsValid(o, i - 1)']
    BY <1>4, <1>5, <2>2, CellFactsNext DEF CellFact
  <2> HIDE DEF before, after, theirs, f, l, len
  <2>8. /\ part \in Seq(Cell) /\ Len(part) = len
        /\ \A i \in 1 .. len : part[i] = theirs[first + i]
    <3>1. f \in Int /\ l \in Int /\ f <= l
      BY <1>4, <2>4
    <3>2. \A i \in f .. l : theirs[i] \in Cell
      BY <1>4, <2>4, <2>6, ElementOfSeq
    <3>3. /\ part \in Seq(Cell) /\ Len(part) = IF f <= l THEN (l - f) + 1 ELSE 0
          /\ \A i \in 1 .. (l - f) + 1 : part[i] = theirs[(f + i) - 1]
      BY <3>1, <3>2, SubSeqProperties
    <3>4. \A i \in 1 .. len : (f + i) - 1 = first + i
      BY <1>4, <2>4 DEF f
    <3> HIDE DEF part
    <3>5. QED BY <2>4, <3>1, <3>3, <3>4
  <2> HIDE DEF part
  <2>9. /\ before \o part \in Seq(Cell) /\ Len(before \o part) = n + take
        /\ \A i \in 1 .. n + take :
             (before \o part)[i] = IF i <= base THEN before[i] ELSE theirs[first + (i - base)]
    <3>1. /\ before \o part \in Seq(Cell) /\ Len(before \o part) = base + len
          /\ \A i \in 1 .. base + len :
               (before \o part)[i] = IF i <= base THEN before[i] ELSE part[i - base]
      BY <2>5, <2>8, ConcatProperties, ZenonT(30)
    <3>2. \A i \in 1 .. base + len : ~ (i <= base) => i - base \in 1 .. len
      BY <1>4, <2>4
    <3>3. QED BY <2>4, <2>8, <3>1, <3>2
  <2>10. ASSUME NEW i \in 1 .. n + take PROVE after[i] = (before \o part)[i]
    <3> DEFINE j == i - 1
    <3>1. j \in 0 .. (n + take) - 1 /\ j \in Nat
      BY <1>4
    <3>2. after[i] = [string |-> StringAt(o, j), valid |-> Flags!IsValid(o, j)']
      BY <1>7, <2>7
    <3>3. Flags!IsValid(o, j)' \in BOOLEAN /\ \A q, r : Flags!IsValid(q, r) \in BOOLEAN
      BY DEF Flags!IsValid
    <3>4. CASE i <= base
      <4>1. i \in 1 .. base /\ j < n
        BY <1>4, <3>4
      <4>2. before[i] = [string |-> StringAt(o, j), valid |-> Flags!IsValid(o, j)]
        BY <2>5, <4>1
      <4>3. Flags!IsValid(o, j)' <=> Flags!IsValid(o, j)
        BY <1>5, <3>1, <4>1, RowFacts
      <4>4. Flags!IsValid(o, j)' = Flags!IsValid(o, j)
        BY <3>3, <4>3
      <4>5. QED BY <2>9, <3>2, <3>4, <4>2, <4>4
    <3>5. CASE i > base
      <4> DEFINE r == first + (j - base)
                 k == first + (i - base)
      <4>1. k \in 1 .. size[source] /\ k - 1 = r
        <5> DEFINE size_ == size[source]
        <5>1. size_ \in Nat /\ first + len <= size_ /\ i <= base + len
          BY <1>4, <2>4 DEF l
        <5> HIDE DEF size_
        <5>2. k \in 1 .. size_ /\ k - 1 = r
          BY <1>4, <2>4, <3>5, <5>1
        <5>3. QED BY <5>2 DEF size_
      <4>2. theirs[k] = [string |-> StringAt(source, r), valid |-> Flags!IsValid(source, r)]
        <5> HIDE DEF k, r
        <5>1. QED BY <2>6, <4>1
      <4>3. StringAt(o, j) = StringAt(source, r)
        <5>1. j \in base .. n + count - 1
          BY <1>2, <1>4, <1>11, <3>1, <3>5
        <5>2. QED BY <1>4, <5>1
      <4>4. Flag(bits'[o], j) <=> Flag(bits[source], r)
        <5>1. CASE j < n
          <6>1. j \in base .. n - 1
            BY <1>4, <3>1, <3>5, <5>1
          <6>2. QED BY <1>4, <1>5, <3>1, <5>1, <6>1
        <5>2. CASE j >= n
          <6> DEFINE d == j - n
                     start == copy.start
          <6>1. d \in 0 .. take - 1 /\ n + d = j
            BY <1>4, <3>1, <5>2
          <6>2. Flag(bits'[o], n + d) <=> Flag(bits[source], start + d)
            BY <1>1, <1>5, <6>1
          <6>3. start \in Nat /\ start = first + (n - base)
            BY <1>4
          <6>4. start + d = r
            <7> HIDE DEF start
            <7>1. QED BY <1>4, <3>1, <6>3
          <6> HIDE DEF d, start, r
          <6>5. QED BY <6>1, <6>2, <6>4
        <5>3. QED BY <1>4, <3>1, <5>1, <5>2
      <4>5. Flags!IsValid(o, j)' = Flags!IsValid(source, r)
        <5>1. Flags!IsValid(o, j)' <=> Flags!IsValid(source, r)
          BY <4>4, RowFacts
        <5>2. QED BY <3>3, <5>1
      <4>6. (before \o part)[i] = theirs[k]
        BY <1>4, <2>9, <3>5
      <4> HIDE DEF k, r
      <4>7. QED BY <3>2, <4>2, <4>3, <4>5, <4>6
    <3>6. i <= base \/ i > base
      BY <1>4
    <3> HIDE DEF before, part, after
    <3>7. QED BY <3>4, <3>5, <3>6
  <2>11. after = before \o part
    BY <2>7, <2>9, <2>10, SeqEqual
  <2> DEFINE cells == before \o part
  <2>12. cells = Cells_[o] \o SubSeq(Cells_[source], f, l)
    BY <1>4 DEF Cells_, before, part, theirs
  <2>13. CellsOf(o)' = cells
    BY <2>11 DEF after
  <2> HIDE DEF cells
  <2>14. Cells_' = [Cells_ EXCEPT ![o] = cells]
    BY <1>4, <1>8, <2>13, CellsChanged
  <2>15. Abstract!AppendRange(o, source, f, l)
    BY <2>12, <2>14 DEF Abstract!AppendRange, Cells_
  <2>16. f \in DOMAIN CellsOf(source) /\ l \in DOMAIN CellsOf(source)
    BY <2>4, <2>6 DEF theirs
  <2>17. QED BY <1>4, <2>15, <2>16
<1>12. QED BY <1>10, <1>11

\* Every step of a column is a step of its cells, or leaves them alone.
LEMMA CellsSimulated ==
  ASSUME IInv, [Next]_vars
  PROVE  [Abstract!Next]_Cells_
<1>1. ASSUME NEW o \in Objects, NEW n \in 0 .. MaxRows, Reset(o, n) PROVE Abstract!Next
  BY <1>1, ResetCells DEF Abstract!Next
<1>2. ASSUME NEW o \in Objects, NEW row \in 0 .. MaxRows - 1, NEW valid \in BOOLEAN,
             SetValid(o, row, valid)
      PROVE  Abstract!Next
  <2>1. PICK i \in DOMAIN CellsOf(o) : Abstract!SetValid(o, i, valid)
    BY <1>2, SetValidCells
  <2>2. Cells_[o] = CellsOf(o)
    BY DEF Cells_
  <2>3. QED BY <2>1, <2>2 DEF Abstract!Next, Cells_
<1>3. ASSUME NEW o \in Objects, NEW s \in Strings \cup {<< >>}, NEW valid \in BOOLEAN,
             AppendString(o, s, valid)
      PROVE  Abstract!Next
  <2>1. s \in Seq(STRING)
    <3>1. << >> \in Seq(STRING)
      OBVIOUS
    <3>2. QED BY <1>3, <3>1, Constants_
  <2>2. Abstract!AppendCell(o, [string |-> s, valid |-> valid])
    BY <1>3, <2>1, AppendCells
  <2>3. QED BY <2>2 DEF Abstract!Next
<1>4. ASSUME NEW o \in Objects, AppendNull(o) PROVE Abstract!Next
  <2>1. AppendString(o, << >>, FALSE)
    BY <1>4, Zenon DEF AppendNull
  <2>2. QED BY <1>3, <2>1
<1>5. ASSUME NEW o \in Objects, NEW source \in Objects \ {o}, NEW first, NEW last,
             first \in DOMAIN CellsOf(source), last \in DOMAIN CellsOf(source),
             Abstract!AppendRange(o, source, first, last)
      PROVE  Abstract!Next
  <2>1. Cells_[source] = CellsOf(source)
    BY DEF Cells_
  <2>2. QED BY <1>5, <2>1 DEF Abstract!Next, Cells_
<1>6. ASSUME NEW o \in Objects, NEW source \in Objects, NEW row \in 0 .. MaxRows - 1,
             AppendFrom(o, source, row)
      PROVE  Abstract!Next
  BY <1>5, <1>6, AppendFromCells
<1>7. ASSUME NEW o \in Objects, NEW source \in Objects, NEW start \in 0 .. MaxRows - 1,
             NEW count \in 1 .. MaxRows - start, AppendRange(o, source, start, count)
      PROVE  Cells_' = Cells_
  <2>1. start \in Nat /\ count \in Nat \ {0}
    BY Constants_
  <2>2. QED BY <1>7, <2>1, AppendRangeCells
<1>8. CASE AppendFlags
  BY <1>5, <1>8, AppendFlagsCells
<1>9. CASE UNCHANGED vars
  <2>1. /\ bits' = bits /\ size' = size /\ copy' = copy /\ bytes' = bytes /\ offsets' = offsets
    BY <1>9 DEF vars
  <2>2. ASSUME NEW q \in Objects PROVE CellsOf(q)' = CellsOf(q)
    <3>1. Visible(q)' = Visible(q) /\ Visible(q) \in Nat
      BY <2>1, CellFacts DEF Visible, Flags!Idle, CellFact
    <3>2. \A row : /\ StringAt(q, row)' = StringAt(q, row)
                   /\ Flags!IsValid(q, row)' <=> Flags!IsValid(q, row)
      BY <2>1, RowFacts
    <3>3. QED BY <3>1, <3>2, CellsKept
  <2>3. QED BY <2>2 DEF Cells_
<1>10. CASE Call
  BY <1>1, <1>2, <1>3, <1>4, <1>6, <1>7, <1>10 DEF Call
<1>11. QED BY <1>8, <1>9, <1>10 DEF Next

LEMMA CellsInit ==
  ASSUME Init
  PROVE  Abstract!Init
<1>1. size = [o \in Objects |-> 0] /\ copy = Flags!NoCopy
  BY DEF Init, Flags!Init
<1>2. ASSUME NEW o \in Objects PROVE CellsOf(o) = << >>
  <2>1. Visible(o) = 0
    BY <1>1 DEF Visible, Flags!Idle
  <2>2. CellFact(o)
    BY InitIInv, CellFacts
  <2>3. QED BY <2>1, <2>2, EmptySeq DEF CellFact
<1>3. QED BY <1>2 DEF Abstract!Init

\* Arena, offsets and packed flags implement a sequence of cells; a range arrives whole,
\* when its last flag is written (vector.cpp:97-160).
THEOREM ColumnImplementsCells == Spec => ImplementsCells
<1>1. Init => Abstract!Init
  BY CellsInit
<1>2. IInv /\ [Next]_vars => [Abstract!Next]_Cells_
  BY CellsSimulated
<1>3. QED BY <1>1, <1>2, ColumnInvariance, PTL DEF Spec, ImplementsCells, Abstract!Spec, Cells_

=============================================================================
