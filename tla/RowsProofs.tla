----------------------------- MODULE RowsProofs -----------------------------
(***************************************************************************)
(* Proofs about Rows for every number of columns, every batch size and     *)
(* any number of rows and of appends that throw: no accepted batch mixes   *)
(* rows, no selection leaves its batch, the store has whole rows in order, *)
(* and the index names no row it should not.                               *)
(***************************************************************************)
EXTENDS Rows, SequenceTheorems, TLAPS

\* An append in progress is not none.
LEMMA NotNone ==
  /\ \A w : w.into \in {"batch", "store"} => w # None
  /\ None.into = "none"
  BY DEF None

\* The buffers of a column are a sequence and a count.
LEMMA ColumnFacts ==
  ASSUME TypeOK, NEW c \in 1 .. Columns
  PROVE  /\ batch.columns[c].data \in Seq(Nat) /\ batch.columns[c].size \in Nat
         /\ Len(batch.columns[c].data) \in Nat
         /\ store.columns[c].data \in Seq(Nat) /\ store.columns[c].size \in Nat
         /\ Len(store.columns[c].data) \in Nat
         /\ batch.columns[c] \in [data : Seq(Nat), size : Nat]
         /\ store.columns[c] \in [data : Seq(Nat), size : Nat]
<1>1. batch.columns \in ColumnSet /\ store.columns \in ColumnSet
  BY DEF TypeOK
<1>2. /\ batch.columns[c] \in [data : Seq(Nat), size : Nat]
      /\ store.columns[c] \in [data : Seq(Nat), size : Nat]
  BY <1>1 DEF ColumnSet
<1>3. QED BY <1>2, LenProperties

\* An append in progress has a target, a source row and a next column.
LEMMA WritingFacts ==
  ASSUME TypeOK, ~ Idle
  PROVE  /\ writing.into \in {"batch", "store"} /\ writing.row \in Nat
         /\ writing.column \in Nat /\ writing.column >= 1
         /\ Columns \in Nat /\ Columns >= 1 /\ writing.column <= Columns + 1
  BY RowsAssumption DEF TypeOK

\* A column is ahead by one cell or by none.
LEMMA AheadFacts ==
  ASSUME TypeOK, NEW c \in 1 .. Columns, NEW into
  PROVE  /\ Ahead(into, c) \in {0, 1}
         /\ Ahead(into, c) = 1 <=> ~ Idle /\ writing.into = into /\ c < writing.column
  BY DEF Ahead

\* The counters of the batch and of the store.
LEMMA CountFacts ==
  ASSUME TypeOK
  PROVE  /\ batch.physical \in Nat /\ batch.selection.size \in Nat /\ store.rows \in Nat
         /\ batch.selection.dense \in BOOLEAN /\ batch.selection.indices \in Seq(Nat)
         /\ Len(kept) \in Nat /\ Len(chosen) \in Nat /\ Columns \in Nat /\ Columns >= 1
         /\ Capacity \in Nat /\ cursor \in Nat /\ cursor >= 1
<1>1. /\ batch.physical \in Nat /\ batch.selection.size \in Nat /\ store.rows \in Nat
      /\ batch.selection.dense \in BOOLEAN /\ batch.selection.indices \in Seq(Nat)
      /\ cursor \in Nat /\ cursor >= 1
  BY DEF TypeOK
<1>2. Len(kept) \in Nat /\ Len(chosen) \in Nat
  BY LenProperties DEF TypeOK
<1>3. QED BY <1>1, <1>2, RowsAssumption

-----------------------------------------------------------------------------
\* The columns of the empty batch and of the empty store.
LEMMA EmptyTyped ==
  /\ EmptyColumns \in ColumnSet
  /\ \A c \in 1 .. Columns : EmptyColumns[c] = EmptyColumn
  /\ EmptyColumn.size = 0 /\ Len(EmptyColumn.data) = 0
  /\ EmptyBatch \in [columns : ColumnSet, physical : Nat,
                     selection : [dense : BOOLEAN, size : Nat, indices : Seq(Nat)]]
  /\ EmptyBatch.columns = EmptyColumns
<1>1. /\ EmptyColumn \in [data : Seq(Nat), size : Nat] /\ EmptyColumns \in ColumnSet
      /\ \A c \in 1 .. Columns : EmptyColumns[c] = EmptyColumn
      /\ EmptyColumn.size = 0 /\ Len(EmptyColumn.data) = 0
  BY EmptySeq DEF EmptyColumn, EmptyColumns, ColumnSet
<1>2. EmptyBatch \in [columns : ColumnSet, physical : Nat,
                      selection : [dense : BOOLEAN, size : Nat, indices : Seq(Nat)]]
      /\ EmptyBatch.columns = EmptyColumns
  BY <1>1, EmptySeq DEF EmptyBatch, Dense
<1>3. QED BY <1>1, <1>2

\* The empty batch, the empty store and the empty index satisfy the invariant.
LEMMA InitIInv == Init => IInv
<1> SUFFICES ASSUME Init PROVE IInv
  OBVIOUS
<1> USE RowsAssumption DEF Init
<1>1. EmptyColumns \in ColumnSet
  BY EmptyTyped
<1>2. EmptyBatch.columns = EmptyColumns
  BY EmptyTyped
<1>3. TypeOK
  <2>1. chosen \in Seq(RowKeys) /\ kept \in Seq(RowKeys)
    BY EmptySeq
  <2>2. store \in [columns : ColumnSet, rows : Nat]
    BY <1>1
  <2>3. batch \in [columns : ColumnSet, physical : Nat,
                   selection : [dense : BOOLEAN, size : Nat, indices : Seq(Nat)]]
    BY EmptyTyped
  <2>4. /\ owner \in Owners /\ phase \in {"fill", "select", "store", "read"} /\ Idle
        /\ broken \in BOOLEAN /\ halved \in BOOLEAN
    BY Zenon DEF Idle
  <2>6. taken \in Nat /\ cursor \in Nat \ {0} /\ throws \in Nat
    BY SMT
  <2>5. index \subseteq [id : Nat \ {0}, key : RowKeys]
    OBVIOUS
  <2> HIDE DEF Init
  <2>7. QED BY <2>1, <2>2, <2>3, <2>4, <2>5, <2>6 DEF TypeOK
<1>4. Idle /\ \A into, c : Ahead(into, c) = 0
  BY DEF Idle, Ahead
<1>5. PhasesKept /\ SelectionInside
  BY <1>4 DEF PhasesKept, SelectionInside
<1>6. BatchColumnsFall
  BY <1>2, <1>4, EmptyTyped DEF BatchColumnsFall
<1>7. StoreColumnsLevel
  <2>1. Len(kept) = 0 /\ store.columns = EmptyColumns /\ store.rows = 0 /\ broken = FALSE
    BY EmptySeq
  <2>2. QED BY <1>4, <2>1, EmptyTyped DEF StoreColumnsLevel
<1>8. IndexFollowsStore
  BY DEF IndexFollowsStore
<1>9. QED BY <1>3, <1>5, <1>6, <1>7, <1>8 DEF IInv

\* The store and the index stay as right as they are while nothing is written
\* into the store.
LEMMA StoreQuiet ==
  ASSUME IInv, UNCHANGED <<owner, store, index, kept, broken>>,
         Idle \/ writing.into = "batch",
         writing' = None \/ writing'.into = "batch",
         phase = "read" => phase' = "read"
  PROVE  StoreColumnsLevel' /\ IndexFollowsStore'
<1>1. /\ owner' = owner /\ store' = store /\ index' = index /\ kept' = kept /\ broken' = broken
      /\ StoreColumnsLevel /\ IndexFollowsStore
  BY DEF IInv
<1>2. \A c : Ahead("store", c) = 0 /\ Ahead("store", c)' = 0
  BY DEF Ahead, Idle
<1>3. StoreColumnsLevel'
  BY <1>1, <1>2 DEF StoreColumnsLevel
<1>4. \A e : Named(e)' <=> Named(e)
  BY <1>1 DEF Named, RowOf
<1>5. ~ (~ Idle /\ writing.into = "store")
  OBVIOUS
<1>6. IndexFollowsStore'
  BY <1>1, <1>4, <1>5 DEF IndexFollowsStore
<1>7. QED BY <1>3, <1>6

\* The columns of the batch stay as they are while nothing is written into them.
LEMMA BatchQuiet ==
  ASSUME IInv, batch'.columns = batch.columns, halved' = halved,
         \A c \in 1 .. Columns : Ahead("batch", c) = 0 /\ Ahead("batch", c)' = 0
  PROVE  BatchColumnsFall'
  BY DEF IInv, BatchColumnsFall

\* reset() empties the batch.
LEMMA EmptyBatchFalls ==
  ASSUME batch' = EmptyBatch, \A c \in 1 .. Columns : Ahead("batch", c)' = 0
  PROVE  BatchColumnsFall'
<1>1. \A c \in 1 .. Columns : batch'.columns[c].size = 0 /\ Len(batch'.columns[c].data) = 0
  BY EmptySeq DEF EmptyBatch, EmptyColumns, EmptyColumn
<1>2. QED BY <1>1 DEF BatchColumnsFall

-----------------------------------------------------------------------------
\* The column vectors of a batch or a store with one column written.
LEMMA ColumnWritten ==
  ASSUME NEW cols \in ColumnSet, NEW k \in 1 .. Columns,
         NEW col \in [data : Seq(Nat), size : Nat]
  PROVE  /\ [cols EXCEPT ![k] = col] \in ColumnSet
         /\ [cols EXCEPT ![k] = col][k] = col
         /\ \A c \in 1 .. Columns : c # k => [cols EXCEPT ![k] = col][c] = cols[c]
  BY DEF ColumnSet

\* What an append adds to a buffer.
LEMMA Appended ==
  ASSUME NEW s \in Seq(Nat), NEW x \in Nat
  PROVE  /\ Append(s, x) \in Seq(Nat) /\ Len(Append(s, x)) = Len(s) + 1
         /\ \A i \in 1 .. Len(s) : Append(s, x)[i] = s[i]
         /\ Append(s, x)[Len(s) + 1] = x
  BY AppendProperties

\* The cell that is written is the source row's, for the batch by definition, for
\* the store because the selection names a row of the batch.
LEMMA CellFacts ==
  ASSUME IInv, ~ Idle, writing.column <= Columns
  PROVE  /\ Cell \in Nat
         /\ writing.into = "batch" => Cell = writing.row
         /\ writing.into = "store" =>
              /\ phase = "store" /\ cursor \in DOMAIN chosen
              /\ Cell = chosen[cursor][writing.column]
<1>1. /\ TypeOK /\ PhasesKept /\ SelectionInside
  BY DEF IInv
<1>2. /\ writing.into \in {"batch", "store"} /\ writing.row \in Nat
      /\ writing.column \in 1 .. Columns
  BY <1>1, WritingFacts
<1>3. CASE writing.into = "batch"
  BY <1>2, <1>3 DEF Cell
<1>4. CASE writing.into = "store"
  <2>1. phase \in {"fill", "select", "store", "read"}
    BY <1>1 DEF TypeOK
  <2>2. /\ phase = "store" /\ cursor <= batch.selection.size
        /\ writing.row = Selected(batch.selection, cursor)
    BY <1>1, <1>4, <2>1 DEF PhasesKept
  <2>3. cursor \in 1 .. batch.selection.size /\ cursor \in DOMAIN chosen
    BY <1>1, <2>2, CountFacts DEF SelectionInside, TypeOK
  <2>4. chosen[cursor] = RowOf(batch, writing.row)
    BY <1>1, <2>2, <2>3 DEF SelectionInside
  <2>5. Cell = chosen[cursor][writing.column]
    BY <1>2, <1>4, <2>4 DEF Cell, RowOf
  <2>6. chosen[cursor] \in RowKeys
    BY <1>1, <2>3, ElementOfSeq DEF TypeOK
  <2>7. Cell \in Nat
    BY <1>2, <2>5, <2>6 DEF RowKeys
  <2>8. QED BY <1>4, <2>2, <2>3, <2>5, <2>7
<1>5. QED BY <1>2, <1>3, <1>4

-----------------------------------------------------------------------------
\* While nothing is written no column is ahead.
LEMMA IdleAhead ==
  /\ Idle => \A into, c : Ahead(into, c) = 0
  /\ Idle' => \A into, c : Ahead(into, c)' = 0
  BY DEF Idle, Ahead

\* reset() and the next batch from the child.
LEMMA EmptiedIInv ==
  ASSUME IInv, Idle, phase \in {"fill", "select", "store"},
         phase' = "fill", batch' = EmptyBatch, halved' = FALSE,
         UNCHANGED <<owner, store, index, writing, taken, cursor, throws, chosen, kept, broken>>
  PROVE  IInv'
<1>1. TypeOK
  BY DEF IInv
<1>2. /\ owner' = owner /\ store' = store /\ index' = index /\ writing' = writing
      /\ taken' = taken /\ cursor' = cursor /\ throws' = throws
      /\ chosen' = chosen /\ kept' = kept /\ broken' = broken
  OBVIOUS
<1>3. Idle'
  BY <1>2 DEF Idle
<1>4. TypeOK'
  BY <1>1, <1>2, EmptyTyped DEF TypeOK, Idle
<1>5. PhasesKept' /\ SelectionInside'
  BY <1>3 DEF PhasesKept, SelectionInside
<1>6. BatchColumnsFall'
  BY <1>3, IdleAhead, EmptyBatchFalls
<1>7. writing' = None
  BY <1>3 DEF Idle
<1>8. StoreColumnsLevel' /\ IndexFollowsStore'
  BY <1>2, <1>7, StoreQuiet
<1>9. QED BY <1>4, <1>5, <1>6, <1>8 DEF IInv

LEMMA ResetBatchIInv == IInv /\ ResetBatch => IInv'
<1> SUFFICES ASSUME IInv, ResetBatch PROVE IInv'
  OBVIOUS
<1>1. QED BY EmptiedIInv DEF ResetBatch

LEMMA NextBatchIInv == IInv /\ NextBatch => IInv'
<1> SUFFICES ASSUME IInv, NextBatch PROVE IInv'
  OBVIOUS
<1>1. QED BY EmptiedIInv DEF NextBatch

\* append_row() starts in the first column.
LEMMA StartRowIInv == IInv /\ StartRow => IInv'
<1> SUFFICES ASSUME IInv, StartRow PROVE IInv'
  OBVIOUS
<1>1. TypeOK /\ Idle /\ phase = "fill"
  BY DEF IInv, StartRow
<1>2. /\ owner' = owner /\ batch' = batch /\ store' = store /\ index' = index
      /\ phase' = phase /\ cursor' = cursor /\ throws' = throws /\ taken' = taken + 1
      /\ chosen' = chosen /\ kept' = kept /\ broken' = broken /\ halved' = halved
      /\ writing' = [into |-> "batch", row |-> taken + 1, column |-> 1]
  BY DEF StartRow, history
<1>3. writing' \in [into : {"batch", "store"}, row : Nat, column : 1 .. Columns + 1]
  <2>1. taken + 1 \in Nat /\ 1 \in 1 .. Columns + 1
    BY <1>1, RowsAssumption DEF TypeOK
  <2>2. QED BY <1>2, <2>1
<1>4. writing'.into = "batch" /\ writing'.column = 1
  BY <1>2
<1>5. TypeOK'
  <2>1. taken' \in Nat
    BY <1>1, <1>2 DEF TypeOK
  <2>2. QED BY <1>1, <1>2, <1>3, <2>1 DEF TypeOK
<1>6. \A c \in 1 .. Columns : Ahead("batch", c) = 0 /\ Ahead("batch", c)' = 0
  <2>1. \A c \in 1 .. Columns : ~ (c < 1)
    BY RowsAssumption
  <2>2. QED BY <1>1, <1>4, <2>1 DEF Ahead
<1>7. BatchColumnsFall'
  BY <1>2, <1>6, BatchQuiet
<1>8. PhasesKept' /\ SelectionInside'
  BY <1>1, <1>2, <1>4 DEF PhasesKept, SelectionInside
<1>9. StoreColumnsLevel' /\ IndexFollowsStore'
  BY <1>1, <1>2, <1>4, StoreQuiet
<1>10. QED BY <1>5, <1>7, <1>8, <1>9 DEF IInv

\* A selection is handed on as it is.
LEMMA HandOverIInv == IInv /\ HandOver => IInv'
<1> SUFFICES ASSUME IInv, HandOver PROVE IInv'
  OBVIOUS
<1>1. /\ TypeOK /\ PhasesKept /\ SelectionInside /\ phase = "select"
  BY DEF IInv, HandOver
<1>2. /\ owner' = owner /\ batch' = batch /\ store' = store /\ index' = index
      /\ phase' = "store" /\ cursor' = 1 /\ throws' = throws /\ taken' = taken
      /\ chosen' = chosen /\ kept' = kept /\ broken' = broken /\ halved' = halved
      /\ writing' = writing
  BY DEF HandOver, history
<1>3. Idle /\ Idle' /\ writing' = None
  BY <1>1, <1>2 DEF PhasesKept, Idle
<1>4. TypeOK'
  BY <1>1, <1>2, <1>3 DEF TypeOK
<1>5. BatchColumnsFall'
  BY <1>2, <1>3, IdleAhead, BatchQuiet
<1>6. PhasesKept'
  BY <1>2, <1>3 DEF PhasesKept
<1>7. SelectionInside'
  <2>1. Accepts(batch)'
    BY <1>1, <1>2 DEF SelectionInside, Accepts, Selected
  <2>2. QED BY <1>1, <1>2, <2>1 DEF SelectionInside, Selected, RowOf
<1>8. StoreColumnsLevel' /\ IndexFollowsStore'
  BY <1>1, <1>2, <1>3, StoreQuiet
<1>9. QED BY <1>4, <1>5, <1>6, <1>7, <1>8 DEF IInv

\* finish() and the operators that select work on the batch's selection only.
LEMMA SelectedIInv ==
  ASSUME IInv, Idle, phase \in {"fill", "select"}, phase' \in {"fill", "select"},
         batch'.columns = batch.columns, batch'.physical \in Nat,
         batch'.selection \in [dense : BOOLEAN, size : Nat, indices : Seq(Nat)],
         batch' = [columns |-> batch'.columns, physical |-> batch'.physical,
                   selection |-> batch'.selection],
         chosen' \in Seq(RowKeys), SelectionInside',
         UNCHANGED <<owner, store, index, writing, taken, cursor, throws, kept, broken, halved>>
  PROVE  IInv'
<1>1. TypeOK
  BY DEF IInv
<1>2. /\ owner' = owner /\ store' = store /\ index' = index /\ writing' = writing
      /\ taken' = taken /\ cursor' = cursor /\ throws' = throws
      /\ kept' = kept /\ broken' = broken /\ halved' = halved
  OBVIOUS
<1>3. Idle' /\ writing' = None
  BY <1>2 DEF Idle
<1>4. TypeOK'
  <2>1. batch.columns \in ColumnSet
    BY <1>1 DEF TypeOK
  <2>2. batch' \in [columns : ColumnSet, physical : Nat,
                    selection : [dense : BOOLEAN, size : Nat, indices : Seq(Nat)]]
    BY <2>1
  <2>3. phase' \in {"fill", "select", "store", "read"}
    OBVIOUS
  <2>4. QED BY <1>1, <1>2, <1>3, <2>2, <2>3 DEF TypeOK
<1>5. PhasesKept'
  BY <1>3 DEF PhasesKept
<1>6. BatchColumnsFall'
  BY <1>2, <1>3, IdleAhead, BatchQuiet
<1>7. StoreColumnsLevel' /\ IndexFollowsStore'
  BY <1>2, <1>3, StoreQuiet
<1>8. QED BY <1>4, <1>5, <1>6, <1>7 DEF IInv

\* A physical row of the batch has a cell in every column.
LEMMA RowOfTyped ==
  ASSUME TypeOK, BatchColumnsFall, NEW b, b.columns = batch.columns, NEW i \in Nat, i >= 1,
         \A c \in 1 .. Columns : i <= batch.columns[c].size
  PROVE  RowOf(b, i) \in RowKeys
<1>1. \A c \in 1 .. Columns : batch.columns[c].data[i] \in Nat
  <2> TAKE c \in 1 .. Columns
  <2>1. /\ batch.columns[c].data \in Seq(Nat) /\ batch.columns[c].size \in Nat
        /\ Len(batch.columns[c].data) \in Nat
        /\ batch.columns[c].size <= Len(batch.columns[c].data)
    BY ColumnFacts DEF BatchColumnsFall
  <2>2. i \in 1 .. Len(batch.columns[c].data)
    BY <2>1
  <2>3. QED BY <2>1, <2>2, ElementOfSeq
<1>2. QED BY <1>1 DEF RowOf, RowKeys

\* A batch whose selection is set.
LEMMA Updated ==
  ASSUME NEW C, NEW N, NEW S, NEW b \in [columns : C, physical : N, selection : S], NEW n, NEW s
  PROVE  [b EXCEPT !.physical = n, !.selection = s]
           = [columns |-> b.columns, physical |-> n, selection |-> s]
<1> DEFINE x == [b EXCEPT !.physical = n]
           y == [x EXCEPT !.selection = s]
<1>1. y = [columns |-> b.columns, physical |-> n, selection |-> s]
  <2>1. x = [b EXCEPT !.physical = n] /\ y = [x EXCEPT !.selection = s]
    OBVIOUS
  <2> HIDE DEF x, y
  <2>2. QED BY <2>1
<1>2. [b EXCEPT !.physical = n, !.selection = s] = y
  OBVIOUS
<1>3. QED BY <1>1, <1>2

\* finish(): an accepted batch has as many rows as every column has cells.
LEMMA FinishIInv == ASSUME IInv, NEW n \in 0 .. Capacity, Finish(n) PROVE IInv'
<1> DEFINE b == [batch EXCEPT !.physical = n, !.selection = Dense(n)]
<1>1. TypeOK /\ BatchColumnsFall /\ Idle /\ phase = "fill"
  BY DEF IInv, Finish
<1>2. /\ batch' = b
      /\ phase' = IF Accepts(b) THEN "select" ELSE "fill"
      /\ chosen' = IF Accepts(b) THEN [i \in 1 .. n |-> RowOf(b, i)] ELSE chosen
      /\ owner' = owner /\ store' = store /\ index' = index /\ writing' = writing
      /\ taken' = taken /\ cursor' = cursor /\ throws' = throws
      /\ kept' = kept /\ broken' = broken /\ halved' = halved
  BY DEF Finish
<1>3. n \in Nat
  BY RowsAssumption
<1>4. Dense(n) \in [dense : BOOLEAN, size : Nat, indices : Seq(Nat)]
  BY <1>3, EmptySeq DEF Dense
<1>5. b = [columns |-> batch.columns, physical |-> n, selection |-> Dense(n)]
  <2>1. batch \in [columns : ColumnSet, physical : Nat,
                   selection : [dense : BOOLEAN, size : Nat, indices : Seq(Nat)]]
    BY <1>1 DEF TypeOK
  <2>2. b = [batch EXCEPT !.physical = n, !.selection = Dense(n)]
    OBVIOUS
  <2> HIDE DEF b
  <2>3. QED BY <2>1, <2>2, Updated
<1>6. b.columns = batch.columns /\ b.physical = n /\ b.selection = Dense(n)
  BY <1>5
<1>7. Dense(n).dense = TRUE /\ Dense(n).size = n /\ \A j : Selected(Dense(n), j) = j
  BY DEF Dense, Selected
<1> HIDE DEF b
<1>8. Accepts(b) => \A i \in 1 .. n : RowOf(b, i) \in RowKeys
  <2> SUFFICES ASSUME Accepts(b), NEW i \in 1 .. n PROVE RowOf(b, i) \in RowKeys
    OBVIOUS
  <2>1. \A c \in 1 .. Columns : i <= batch.columns[c].size
    BY <1>6 DEF Accepts
  <2>2. QED BY <1>1, <1>3, <1>6, <2>1, RowOfTyped
<1>9. chosen' \in Seq(RowKeys)
  <2>1. CASE Accepts(b)
    <3>1. chosen' = [i \in 1 .. n |-> RowOf(b, i)]
      BY <1>2, <2>1
    <3>2. QED BY <1>3, <1>8, <2>1, <3>1
  <2>2. CASE ~ Accepts(b)
    BY <1>1, <1>2, <2>2 DEF TypeOK
  <2>3. QED BY <2>1, <2>2
<1>10. SelectionInside'
  <2>1. CASE Accepts(b)
    <3>1. Accepts(batch)'
      BY <1>2, <2>1 DEF Accepts, Selected
    <3>2. Len(chosen') = n /\ \A j \in 1 .. n : chosen'[j] = RowOf(b, j)
      BY <1>2, <1>3, <2>1
    <3>3. /\ batch'.selection.dense /\ batch'.selection.size = n /\ batch'.physical = n
          /\ \A j : (IF batch'.selection.dense THEN j ELSE batch'.selection.indices[j]) = j
      BY <1>2, <1>6, <1>7
    <3>4. \A j : RowOf(b, j) = [c \in 1 .. Columns |-> batch'.columns[c].data[j]]
      BY <1>2 DEF RowOf
    <3>5. QED BY <3>1, <3>2, <3>3, <3>4 DEF SelectionInside, Selected, RowOf
  <2>2. CASE ~ Accepts(b)
    BY <1>2, <2>2 DEF SelectionInside
  <2>3. QED BY <2>1, <2>2
<1>11. phase' \in {"fill", "select"}
  BY <1>2
<1>12. /\ batch'.columns = batch.columns /\ batch'.physical \in Nat
       /\ batch'.selection \in [dense : BOOLEAN, size : Nat, indices : Seq(Nat)]
       /\ batch' = [columns |-> batch'.columns, physical |-> batch'.physical,
                    selection |-> batch'.selection]
  BY <1>2, <1>3, <1>4, <1>5, <1>6
<1>13. QED BY <1>1, <1>2, <1>9, <1>10, <1>11, <1>12, SelectedIInv

\* What a selection that is handed on promises.
LEMMA SelectionFacts ==
  ASSUME IInv, phase \in {"select", "store"}, NEW j \in 1 .. batch.selection.size
  PROVE  /\ Len(chosen) = batch.selection.size
         /\ Selected(batch.selection, j) \in 1 .. batch.physical
         /\ batch.physical \in Nat
         /\ chosen[j] = RowOf(batch, Selected(batch.selection, j))
         /\ chosen[j] \in RowKeys
<1>1. TypeOK /\ SelectionInside
  BY DEF IInv
<1>2. Len(chosen) = batch.selection.size /\ chosen \in Seq(RowKeys)
  BY <1>1 DEF SelectionInside, TypeOK
<1>3. chosen[j] \in RowKeys
  BY <1>2, ElementOfSeq
<1>4. QED BY <1>1, <1>2, <1>3, CountFacts DEF SelectionInside

\* Filter::next(): what is kept is selected by its physical index.
LEMMA FilterIInv ==
  ASSUME IInv, NEW n \in 0 .. Capacity, NEW keep \in [1 .. n -> 1 .. Capacity], Filter(keep)
  PROVE  IInv'
<1>1. /\ TypeOK /\ PhasesKept /\ SelectionInside /\ phase = "select"
      /\ \A k \in DOMAIN keep : keep[k] <= batch.selection.size
  BY DEF IInv, Filter
<1>2. /\ batch' = [batch EXCEPT !.selection = Kept(batch.selection, keep)]
      /\ chosen' = [k \in DOMAIN keep |-> chosen[keep[k]]]
      /\ owner' = owner /\ store' = store /\ index' = index /\ writing' = writing
      /\ taken' = taken /\ cursor' = cursor /\ throws' = throws /\ phase' = phase
      /\ kept' = kept /\ broken' = broken /\ halved' = halved
  BY DEF Filter
<1>3. Idle
  BY <1>1 DEF PhasesKept
<1>4. n \in Nat /\ DOMAIN keep = 1 .. n /\ Len(keep) = n
  <2>1. n \in Nat /\ DOMAIN keep = 1 .. n
    BY RowsAssumption
  <2>2. keep \in Seq(1 .. Capacity)
    BY <2>1, SeqDef
  <2>3. QED BY <2>1, <2>2, LenProperties
<1>5. \A k \in 1 .. n : keep[k] \in 1 .. batch.selection.size
  BY <1>1, <1>4, CountFacts
<1> DEFINE p == [k \in 1 .. n |-> Selected(batch.selection, keep[k])]
<1>6. /\ batch.physical \in Nat
      /\ \A k \in 1 .. n : p[k] \in 1 .. batch.physical
  BY <1>1, <1>5, CountFacts, SelectionFacts
<1>7. p \in Seq(Nat) /\ Len(p) = n
  <2>1. \A k \in 1 .. n : p[k] \in Nat
    BY <1>6
  <2>2. p \in [1 .. n -> Nat]
    BY <2>1
  <2>3. QED BY <1>4, <2>2
<1>8. Kept(batch.selection, keep) = [dense |-> FALSE, size |-> n, indices |-> p]
  BY <1>4 DEF Kept, Pushed
<1>9. batch' = [columns |-> batch.columns, physical |-> batch.physical,
                selection |-> [dense |-> FALSE, size |-> n, indices |-> p]]
  <2>1. batch \in [columns : ColumnSet, physical : Nat,
                   selection : [dense : BOOLEAN, size : Nat, indices : Seq(Nat)]]
    BY <1>1 DEF TypeOK
  <2>2. QED BY <1>2, <1>8, <2>1
<1>10. \A k \in 1 .. n : p[k] = Selected(batch.selection, keep[k])
  OBVIOUS
<1> HIDE DEF p
<1>11. /\ batch'.columns = batch.columns /\ batch'.physical = batch.physical
       /\ batch'.selection = [dense |-> FALSE, size |-> n, indices |-> p]
       /\ batch'.selection.dense = FALSE /\ batch'.selection.size = n
       /\ batch'.selection.indices = p
  BY <1>9
<1>12. \A k \in 1 .. n : /\ chosen'[k] = chosen[keep[k]] /\ chosen'[k] \in RowKeys
                         /\ chosen'[k] = RowOf(batch, p[k])
  <2> TAKE k \in 1 .. n
  <2>1. keep[k] \in 1 .. batch.selection.size
    BY <1>5
  <2>2. chosen[keep[k]] = RowOf(batch, p[k]) /\ chosen[keep[k]] \in RowKeys
    BY <1>1, <1>10, <2>1, SelectionFacts
  <2>3. QED BY <1>2, <1>4, <2>2
<1>13. chosen' \in Seq(RowKeys) /\ Len(chosen') = n
  <2>1. chosen' \in [1 .. n -> RowKeys]
    BY <1>2, <1>4, <1>12
  <2>2. QED BY <1>4, <2>1
<1>14. SelectionInside'
  <2>1. Accepts(batch)
    BY <1>1 DEF SelectionInside
  <2>2. Accepts(batch)'
    BY <1>4, <1>6, <1>11, <2>1 DEF Accepts, Selected
  <2>3. \A j : RowOf(batch, j) = [c \in 1 .. Columns |-> batch'.columns[c].data[j]]
    BY <1>11 DEF RowOf
  <2>4. QED BY <1>6, <1>11, <1>12, <1>13, <1>7, <2>2, <2>3 DEF SelectionInside, Selected, RowOf
<1>15. batch'.selection \in [dense : BOOLEAN, size : Nat, indices : Seq(Nat)]
  BY <1>4, <1>7, <1>11
<1>16. batch' = [columns |-> batch'.columns, physical |-> batch'.physical,
                 selection |-> batch'.selection]
  BY <1>9
<1>17. QED BY <1>1, <1>2, <1>3, <1>6, <1>11, <1>13, <1>14, <1>15, <1>16, SelectedIInv

\* Limit::next(): what is cut off is at the end.
LEMMA TruncateIInv == ASSUME IInv, NEW n \in 0 .. Capacity, Truncate(n) PROVE IInv'
<1> DEFINE q == SubSeq(batch.selection.indices, 1, IF batch.selection.dense THEN 0 ELSE n)
<1>1. /\ TypeOK /\ PhasesKept /\ SelectionInside /\ phase = "select"
      /\ n < batch.selection.size
  BY DEF IInv, Truncate
<1>2. /\ batch' = [batch EXCEPT !.selection.size = n, !.selection.indices = q]
      /\ chosen' = SubSeq(chosen, 1, n)
      /\ owner' = owner /\ store' = store /\ index' = index /\ writing' = writing
      /\ taken' = taken /\ cursor' = cursor /\ throws' = throws /\ phase' = phase
      /\ kept' = kept /\ broken' = broken /\ halved' = halved
  BY DEF Truncate
<1>3. Idle
  BY <1>1 DEF PhasesKept
<1>4. n \in Nat
  BY RowsAssumption
<1>5. /\ Len(chosen) = batch.selection.size /\ batch.selection.size \in Nat
      /\ batch.selection.dense \/ Len(batch.selection.indices) = batch.selection.size
      /\ batch.selection.indices \in Seq(Nat) /\ chosen \in Seq(RowKeys)
  BY <1>1, CountFacts DEF SelectionInside, TypeOK
<1>6. /\ q \in Seq(Nat)
      /\ ~ batch.selection.dense => /\ Len(q) = n
                                    /\ \A k \in 1 .. n : q[k] = batch.selection.indices[k]
  <2>1. CASE batch.selection.dense
    <3>1. q = SubSeq(batch.selection.indices, 1, 0)
      BY <2>1
    <3>2. q = << >>
      BY <3>1, <1>5
    <3>3. QED BY <2>1, <3>2, EmptySeq
  <2>2. CASE ~ batch.selection.dense
    <3>1. q = SubSeq(batch.selection.indices, 1, n)
      BY <2>2
    <3>2. \A k \in 1 .. n : k \in 1 .. Len(batch.selection.indices)
      BY <1>1, <1>4, <1>5, <2>2
    <3>3. q \in Seq(Nat) /\ Len(q) = n /\ \A k \in 1 .. n : q[k] = batch.selection.indices[k]
      BY SMTT(30), <1>1, <1>4, <1>5, <2>2, <3>1, <3>2, SubSeqProperties
    <3>4. QED BY <2>2, <3>3
  <2>3. QED BY <2>1, <2>2
<1>7. /\ chosen' \in Seq(RowKeys) /\ Len(chosen') = n
      /\ \A k \in 1 .. n : chosen'[k] = chosen[k]
  BY <1>1, <1>2, <1>4, <1>5, SubSeqProperties
<1> HIDE DEF q
<1>8. batch' = [columns |-> batch.columns, physical |-> batch.physical,
                selection |-> [dense |-> batch.selection.dense, size |-> n, indices |-> q]]
  <2>1. batch \in [columns : ColumnSet, physical : Nat,
                   selection : [dense : BOOLEAN, size : Nat, indices : Seq(Nat)]]
    BY <1>1 DEF TypeOK
  <2>2. batch.selection \in [dense : BOOLEAN, size : Nat, indices : Seq(Nat)]
    BY <2>1
  <2>3. QED BY <1>2, <2>1, <2>2
<1>9. /\ batch'.columns = batch.columns /\ batch'.physical = batch.physical
      /\ batch'.selection = [dense |-> batch.selection.dense, size |-> n, indices |-> q]
      /\ batch'.selection.dense = batch.selection.dense /\ batch'.selection.size = n
      /\ batch'.selection.indices = q
  BY <1>8
<1>10. \A k \in 1 .. n :
         /\ k \in 1 .. batch.selection.size
         /\ (IF batch.selection.dense THEN k ELSE q[k]) = Selected(batch.selection, k)
         /\ Selected(batch.selection, k) \in 1 .. batch.physical
         /\ chosen'[k] = RowOf(batch, Selected(batch.selection, k))
  <2> TAKE k \in 1 .. n
  <2>1. k \in 1 .. batch.selection.size
    BY <1>1, <1>4, <1>5
  <2>2. /\ Selected(batch.selection, k) \in 1 .. batch.physical
        /\ chosen[k] = RowOf(batch, Selected(batch.selection, k))
    BY <1>1, <2>1, SelectionFacts
  <2>3. (IF batch.selection.dense THEN k ELSE q[k]) = Selected(batch.selection, k)
    BY <1>6 DEF Selected
  <2>4. QED BY <1>7, <2>1, <2>2, <2>3
<1>11. SelectionInside'
  <2>1. Accepts(batch)
    BY <1>1 DEF SelectionInside
  <2>2. \A j \in 1 .. batch'.selection.size :
          (IF batch'.selection.dense THEN j ELSE batch'.selection.indices[j]) \in 1 .. batch'.physical
    BY <1>9, <1>10
  <2>3. Accepts(batch)'
    <3>1. /\ batch.physical <= Capacity
          /\ \A c \in 1 .. Columns : batch.columns[c].size = batch.physical
      BY <2>1 DEF Accepts
    <3>2. batch.physical \in Nat
      BY <1>1, CountFacts
    <3>3. \A j \in 1 .. batch'.selection.size :
            (IF batch'.selection.dense THEN j ELSE batch'.selection.indices[j]) <= batch'.physical
      BY <1>9, <2>2, <3>2
    <3>4. QED BY ONLY <1>9, <3>1, <3>3 DEF Accepts, Selected
  <2>4. \A j : RowOf(batch, j) = [c \in 1 .. Columns |-> batch'.columns[c].data[j]]
    BY <1>9 DEF RowOf
  <2>5. batch'.selection.dense \/ Len(batch'.selection.indices) = batch'.selection.size
    BY <1>6, <1>9
  <2>6. \A j \in 1 .. batch'.selection.size :
          chosen'[j] = [c \in 1 .. Columns |-> batch'.columns[c].data[
            IF batch'.selection.dense THEN j ELSE batch'.selection.indices[j]]]
    <3> TAKE j \in 1 .. batch'.selection.size
    <3>1. j \in 1 .. n
      BY <1>9
    <3>2. /\ chosen'[j] = RowOf(batch, Selected(batch.selection, j))
          /\ (IF batch'.selection.dense THEN j ELSE batch'.selection.indices[j])
               = Selected(batch.selection, j)
      BY <1>9, <1>10, <3>1
    <3> DEFINE h == IF batch'.selection.dense THEN j ELSE batch'.selection.indices[j]
    <3>3. chosen'[j] = RowOf(batch, h)
      BY <3>2
    <3> HIDE DEF h
    <3>4. chosen'[j] = [c \in 1 .. Columns |-> batch'.columns[c].data[h]]
      BY <2>4, <3>3
    <3>5. QED BY <3>4 DEF h
  <2>7. QED BY <1>7, <1>9, <2>2, <2>3, <2>5, <2>6 DEF SelectionInside, Selected, RowOf
<1>12. batch'.selection \in [dense : BOOLEAN, size : Nat, indices : Seq(Nat)]
  BY <1>1, <1>4, <1>6, <1>9, CountFacts
<1>13. batch' = [columns |-> batch'.columns, physical |-> batch'.physical,
                 selection |-> batch'.selection]
  BY <1>8, <1>9
<1>14. batch'.physical \in Nat
  BY <1>1, <1>9, CountFacts
<1>15. QED BY <1>1, <1>2, <1>3, <1>7, <1>9, <1>11, <1>12, <1>13, <1>14, SelectedIInv

-----------------------------------------------------------------------------
\* Storing does not touch the selection.
LEMMA SelectionKept ==
  ASSUME IInv, batch' = batch, chosen' = chosen,
         phase' \in {"select", "store"} => phase \in {"select", "store"}
  PROVE  SelectionInside'
<1>1. SelectionInside
  BY DEF IInv
<1>2. QED BY <1>1 DEF SelectionInside, Accepts, Selected, RowOf

\* Rows go into the batch while it is filled, and into the store afterwards.
LEMMA WritingPhase ==
  ASSUME IInv, ~ Idle
  PROVE  /\ writing.into = "batch" => phase = "fill"
         /\ writing.into = "store" =>
              /\ phase = "store" /\ cursor <= batch.selection.size
              /\ writing.row = Selected(batch.selection, cursor)
         /\ writing.into = "batch" \/ writing.into = "store"
<1>1. TypeOK /\ PhasesKept
  BY DEF IInv
<1>2. phase \in {"fill", "select", "store", "read"} /\ writing.into \in {"batch", "store"}
  BY <1>1, WritingFacts DEF TypeOK
<1>3. QED BY <1>1, <1>2 DEF PhasesKept

\* An owner other than a sort does not store after an append threw.
LEMMA StoringUnbroken ==
  ASSUME IInv, phase = "store"
  PROVE  /\ ~ broken \/ owner = "sort"
         /\ ~ broken => store.rows = Len(kept)
         /\ owner # "sort" => store.rows = Len(kept)
<1>1. TypeOK /\ StoreColumnsLevel
  BY DEF IInv
<1>2. QED BY <1>1 DEF StoreColumnsLevel

\* A row begins in the first column of the store; a HashJoin has its name already.
LEMMA StoreRowIInv == IInv /\ StoreRow => IInv'
<1> SUFFICES ASSUME IInv, StoreRow PROVE IInv'
  OBVIOUS
<1> DEFINE e0 == [id |-> store.rows + 1, key |-> chosen[cursor]]
           w == [into |-> "store", row |-> Selected(batch.selection, cursor), column |-> 1]
<1>1. /\ TypeOK /\ IndexFollowsStore /\ StoreColumnsLevel /\ Idle /\ phase = "store"
      /\ cursor <= batch.selection.size
  BY DEF IInv, StoreRow
<1>2. /\ owner' = owner /\ batch' = batch /\ store' = store
      /\ phase' = phase /\ cursor' = cursor /\ throws' = throws /\ taken' = taken
      /\ chosen' = chosen /\ kept' = kept /\ broken' = broken /\ halved' = halved
      /\ writing' = w
  BY DEF StoreRow, history
<1>3. index' = IF owner = "join" THEN index \cup {e0} ELSE index
  BY DEF StoreRow, BindsFirst
<1>4. cursor \in 1 .. batch.selection.size
  BY <1>1, CountFacts
<1>5. chosen[cursor] \in RowKeys /\ Selected(batch.selection, cursor) \in Nat
  BY <1>1, <1>4, SelectionFacts
<1>6. e0 \in [id : Nat \ {0}, key : RowKeys] /\ e0.id = store.rows + 1 /\ e0.key = chosen[cursor]
  <2>1. store.rows + 1 \in Nat \ {0}
    BY <1>1, CountFacts
  <2>2. QED BY <1>5, <2>1
<1>7. /\ w \in [into : {"batch", "store"}, row : Nat, column : 1 .. Columns + 1]
      /\ w.into = "store" /\ w.column = 1 /\ w.row = Selected(batch.selection, cursor)
  <2>1. 1 \in 1 .. Columns + 1
    BY RowsAssumption
  <2>2. QED BY <1>5, <2>1
<1> HIDE DEF e0, w
<1>8. TypeOK'
  <2>1. index \subseteq [id : Nat \ {0}, key : RowKeys]
    BY <1>1 DEF TypeOK
  <2>2. index' \subseteq [id : Nat \ {0}, key : RowKeys]
    BY <1>3, <1>6, <2>1
  <2>3. QED BY <1>1, <1>2, <1>7, <2>2 DEF TypeOK
<1>9. writing'.into = "store" /\ writing'.column = 1 /\ ~ Idle'
  <2>1. writing'.into = "store" /\ writing'.column = 1
    BY <1>2, <1>7
  <2>2. QED BY <2>1, NotNone DEF Idle
<1>10. PhasesKept'
  <2>1. writing'.row = Selected(batch.selection, cursor)
    BY <1>2, <1>7
  <2>2. QED BY <1>1, <1>2, <1>9, <2>1 DEF PhasesKept, Selected
<1>11. \A c \in 1 .. Columns : ~ (c < 1)
  BY RowsAssumption
<1>12. \A c \in 1 .. Columns : \A into \in {"batch", "store"} : Ahead(into, c) = 0 /\ Ahead(into, c)' = 0
  BY <1>1, <1>9, <1>11 DEF Ahead
<1>13. BatchColumnsFall'
  BY <1>2, <1>12, BatchQuiet
<1>14. SelectionInside'
  BY <1>1, <1>2, SelectionKept
<1>15. StoreColumnsLevel'
  BY <1>1, <1>2, <1>12 DEF StoreColumnsLevel
<1>16. IndexFollowsStore'
  <2>1. \A e : Named(e)' <=> Named(e)
    BY <1>2 DEF Named, RowOf
  <2>2. \A e \in index : Named(e)
    BY <1>1, StoringUnbroken DEF IndexFollowsStore
  <2>3. owner = "sort" => index' = {}
    BY <1>1, <1>3 DEF IndexFollowsStore
  <2>4. ASSUME NEW e \in index', e \notin index
        PROVE  owner' = "join" /\ e.id = store'.rows + 1 /\ e.key = chosen'[cursor']
    BY <1>2, <1>3, <1>6, <2>4
  <2>5. QED BY <1>2, <1>9, <2>1, <2>2, <2>3, <2>4 DEF IndexFollowsStore
<1>17. QED BY <1>8, <1>10, <1>13, <1>14, <1>15, <1>16 DEF IInv

\* What one step does to a column that is written: it keeps its cells.
LEMMA Extended ==
  ASSUME NEW s \in Seq(Nat), NEW x \in Nat, NEW t, t = s \/ t = Append(s, x)
  PROVE  /\ t \in Seq(Nat) /\ Len(t) >= Len(s) /\ Len(t) \in Nat
         /\ \A i \in 1 .. Len(s) : t[i] = s[i]
<1>1. Len(s) \in Nat
  BY LenProperties
<1>2. CASE t = s
  BY <1>1, <1>2
<1>3. CASE t = Append(s, x)
  BY <1>1, <1>3, Appended
<1>4. QED BY <1>2, <1>3

\* A column of the store that is written keeps the rows the store has.
LEMMA StoreColumnWritten ==
  ASSUME IInv, ~ Idle, writing.column <= Columns, writing.into = "store",
         NEW col \in [data : Seq(Nat), size : Nat], Write(col),
         col.data = Target.data \/ col.data = Append(Target.data, Cell)
  PROVE  /\ batch' = batch /\ store' \in [columns : ColumnSet, rows : Nat]
         /\ store'.rows = store.rows /\ store'.columns[writing.column] = col
         /\ \A c \in 1 .. Columns : c # writing.column => store'.columns[c] = store.columns[c]
         /\ \A c \in 1 .. Columns :
              /\ Len(store'.columns[c].data) >= Len(store.columns[c].data)
              /\ Len(store'.columns[c].data) \in Nat
              /\ \A i \in 1 .. Len(store.columns[c].data) :
                   store'.columns[c].data[i] = store.columns[c].data[i]
         /\ \A e \in index : Named(e) => Named(e)'
<1> DEFINE k == writing.column
           cols == [store.columns EXCEPT ![k] = col]
<1>1. TypeOK /\ StoreColumnsLevel /\ IndexFollowsStore
  BY DEF IInv
<1>2. k \in 1 .. Columns
  BY <1>1, WritingFacts
<1>3. batch' = batch /\ store' = [store EXCEPT !.columns[k] = col]
  BY NotNone DEF Write
<1>4. store \in [columns : ColumnSet, rows : Nat]
  BY <1>1 DEF TypeOK
<1> HIDE DEF k
<1>5. store' = [columns |-> cols, rows |-> store.rows]
  BY <1>3, <1>4
<1>6. store.columns \in ColumnSet
  BY <1>4
<1>7. /\ cols \in ColumnSet /\ cols[k] = col
      /\ \A c \in 1 .. Columns : c # k => cols[c] = store.columns[c]
  BY <1>2, <1>6, ColumnWritten
<1> HIDE DEF cols
<1>8. /\ store' \in [columns : ColumnSet, rows : Nat] /\ store'.rows = store.rows
      /\ store'.columns[k] = col
      /\ \A c \in 1 .. Columns : c # k => store'.columns[c] = store.columns[c]
  BY <1>4, <1>5, <1>7
<1>9. ASSUME NEW c \in 1 .. Columns
      PROVE  /\ Len(store'.columns[c].data) >= Len(store.columns[c].data)
             /\ Len(store'.columns[c].data) \in Nat
             /\ \A i \in 1 .. Len(store.columns[c].data) :
                  store'.columns[c].data[i] = store.columns[c].data[i]
  <2>1. store.columns[c].data \in Seq(Nat) /\ Len(store.columns[c].data) \in Nat
    BY <1>1, ColumnFacts
  <2>2. CASE c = k
    <3>1. Target = store.columns[k]
      BY DEF Target, k
    <3>2. Cell \in Nat
      BY CellFacts
    <3>3. col.data = store.columns[c].data \/ col.data = Append(store.columns[c].data, Cell)
      BY <2>2, <3>1
    <3>4. store'.columns[c].data = col.data
      BY <1>8, <2>2
    <3> DEFINE s == store.columns[c].data
               t == store'.columns[c].data
    <3>5. s \in Seq(Nat) /\ (t = s \/ t = Append(s, Cell))
      BY <2>1, <3>3, <3>4
    <3> HIDE DEF s, t
    <3>6. Len(t) >= Len(s) /\ Len(t) \in Nat /\ \A i \in 1 .. Len(s) : t[i] = s[i]
      BY <3>2, <3>5, Extended
    <3>7. QED BY <3>6 DEF s, t
  <2>3. CASE c # k
    BY SMTT(30), <1>8, <2>1, <2>3
  <2>4. QED BY <2>2, <2>3
<1>10. ASSUME NEW e \in index, Named(e) PROVE Named(e)'
  <2>1. owner # "sort" /\ e.id \in Nat /\ e.id >= 1
    BY <1>1 DEF IndexFollowsStore, TypeOK
  <2>2. store.rows = Len(kept) /\ store.rows \in Nat
    BY <1>1, <2>1, CountFacts, StoringUnbroken, WritingPhase
  <2>3. e.id <= store.rows
    BY <1>10 DEF Named
  <2>4. \A c \in 1 .. Columns : store'.columns[c].data[e.id] = store.columns[c].data[e.id]
    <3> TAKE c \in 1 .. Columns
    <3>1. Len(kept) <= Len(store.columns[c].data) /\ Len(store.columns[c].data) \in Nat
      BY <1>1, ColumnFacts DEF StoreColumnsLevel
    <3>2. e.id \in 1 .. Len(store.columns[c].data)
      BY <2>1, <2>2, <2>3, <3>1
    <3>3. QED BY <1>9, <3>2
  <2>5. RowOf(store, e.id) = [c \in 1 .. Columns |-> store'.columns[c].data[e.id]]
    BY <2>4 DEF RowOf
  <2>6. QED BY <1>8, <1>10, <2>5 DEF Named, RowOf
<1>11. QED BY <1>3, <1>8, <1>9, <1>10 DEF k

\* A column of the batch that is written.
LEMMA BatchColumnWritten ==
  ASSUME IInv, ~ Idle, writing.column <= Columns, writing.into = "batch",
         NEW col \in [data : Seq(Nat), size : Nat], Write(col)
  PROVE  /\ store' = store
         /\ batch' \in [columns : ColumnSet, physical : Nat,
                        selection : [dense : BOOLEAN, size : Nat, indices : Seq(Nat)]]
         /\ batch'.columns[writing.column] = col
         /\ \A c \in 1 .. Columns : c # writing.column => batch'.columns[c] = batch.columns[c]
<1> DEFINE k == writing.column
           cols == [batch.columns EXCEPT ![k] = col]
<1>1. TypeOK
  BY DEF IInv
<1>2. k \in 1 .. Columns
  BY <1>1, WritingFacts
<1>3. store' = store /\ batch' = [batch EXCEPT !.columns[k] = col]
  BY DEF Write
<1>4. batch \in [columns : ColumnSet, physical : Nat,
                 selection : [dense : BOOLEAN, size : Nat, indices : Seq(Nat)]]
  BY <1>1 DEF TypeOK
<1> HIDE DEF k
<1>5. batch' = [columns |-> cols, physical |-> batch.physical, selection |-> batch.selection]
  BY <1>3, <1>4
<1>6. batch.columns \in ColumnSet
  BY <1>4
<1>7. /\ cols \in ColumnSet /\ cols[k] = col
      /\ \A c \in 1 .. Columns : c # k => cols[c] = batch.columns[c]
  BY <1>2, <1>6, ColumnWritten
<1> HIDE DEF cols
<1>8. batch' \in [columns : ColumnSet, physical : Nat,
                  selection : [dense : BOOLEAN, size : Nat, indices : Seq(Nat)]]
  BY <1>4, <1>5, <1>7
<1>9. batch'.columns = cols
  BY <1>5
<1>10. QED BY <1>3, <1>7, <1>8, <1>9 DEF k

\* A column with other data.
LEMMA OtherData ==
  ASSUME NEW D, NEW S, NEW t \in [data : D, size : S], NEW x
  PROVE  [t EXCEPT !.data = x] = [data |-> x, size |-> t.size]
  OBVIOUS

\* The target of an append, with the cell and with its payload only.
LEMMA TargetFacts ==
  ASSUME IInv, ~ Idle, writing.column <= Columns
  PROVE  /\ Target \in [data : Seq(Nat), size : Nat]
         /\ writing.into = "batch" => Target = batch.columns[writing.column]
         /\ writing.into = "store" => Target = store.columns[writing.column]
         /\ WithPayload(Target) = [data |-> Append(Target.data, Cell), size |-> Target.size]
         /\ WithPayload(Target) \in [data : Seq(Nat), size : Nat]
         /\ WithCell(Target) = [data |-> Append(Target.data, Cell), size |-> Target.size + 1]
         /\ WithCell(Target) \in [data : Seq(Nat), size : Nat]
         /\ Len(Target.data) \in Nat /\ Len(Append(Target.data, Cell)) = Len(Target.data) + 1
         /\ Append(Target.data, Cell)[Len(Target.data) + 1] = Cell
<1>1. TypeOK
  BY DEF IInv
<1>2. writing.column \in 1 .. Columns /\ writing.into \in {"batch", "store"}
  BY <1>1, WritingFacts
<1>3. /\ writing.into = "batch" => Target = batch.columns[writing.column]
      /\ writing.into = "store" => Target = store.columns[writing.column]
  BY DEF Target
<1>4. Target \in [data : Seq(Nat), size : Nat]
  BY <1>1, <1>2, <1>3, ColumnFacts
<1>5. Target.data \in Seq(Nat) /\ Target.size \in Nat /\ Cell \in Nat
  BY <1>4, CellFacts
<1>6. Append(Target.data, Cell) \in Seq(Nat) /\ Len(Target.data) \in Nat
  BY <1>5, Appended, LenProperties
<1>7. WithPayload(Target) = [data |-> Append(Target.data, Cell), size |-> Target.size]
  <2> DEFINE t == Target
             x == Append(Target.data, Cell)
  <2>1. WithPayload(Target) = [t EXCEPT !.data = x]
    BY DEF WithPayload
  <2>2. t \in [data : Seq(Nat), size : Nat]
    BY <1>4
  <2> HIDE DEF t, x
  <2>3. WithPayload(Target) = [data |-> x, size |-> t.size]
    BY <2>1, <2>2, OtherData
  <2>4. QED BY <2>3 DEF t, x
<1>8. WithCell(Target) = [data |-> Append(Target.data, Cell), size |-> Target.size + 1]
  BY DEF WithCell
<1>9. /\ Len(Append(Target.data, Cell)) = Len(Target.data) + 1
      /\ Append(Target.data, Cell)[Len(Target.data) + 1] = Cell
  BY <1>5, Appended
<1>10. QED BY <1>3, <1>4, <1>5, <1>6, <1>7, <1>8, <1>9

\* A column that is one row ahead of another and has that row.
LEMMA LeadOfOne ==
  ASSUME NEW x \in Nat, NEW y \in Nat, (x - 1) - (y - 0) = 0
  PROVE  x = y + 1
OBVIOUS

\* A column that was ahead leads by one more when its cell stays.
LEMMA LeadGrows ==
  ASSUME NEW s \in Nat, NEW t \in Nat, NEW x \in {0, 1}, NEW y \in {0, 1}, y <= x
  PROVE  /\ (s - 0) - (t - 0) \in Int /\ (s - x) - (t - y) \in Int
         /\ (s - 0) - (t - 0) >= (s - x) - (t - y)
         /\ (s - x) - (t - y) = 0 => t <= s
  OBVIOUS

\* The append in progress goes on to the next column.
LEMMA WritingNext ==
  ASSUME IInv, AppendCell
  PROVE  /\ writing' \in [into : {"batch", "store"}, row : Nat, column : 1 .. Columns + 1]
         /\ writing'.into = writing.into /\ writing'.row = writing.row
         /\ writing'.column = writing.column + 1
         /\ ~ Idle /\ ~ Idle' /\ writing.column \in 1 .. Columns
         /\ \A c \in 1 .. Columns : \A into \in {"batch", "store"} :
              /\ into # writing.into => Ahead(into, c) = 0 /\ Ahead(into, c)' = 0
              /\ into = writing.into =>
                   /\ Ahead(into, c) = IF c < writing.column THEN 1 ELSE 0
                   /\ Ahead(into, c)' = IF c <= writing.column THEN 1 ELSE 0
<1>1. /\ TypeOK /\ ~ Idle /\ writing.column <= Columns
      /\ writing' = [writing EXCEPT !.column = @ + 1]
  BY DEF IInv, AppendCell
<1>2. writing \in [into : {"batch", "store"}, row : Nat, column : 1 .. Columns + 1]
  BY <1>1 DEF TypeOK
<1>3. writing.column \in 1 .. Columns /\ Columns \in Nat
  BY <1>1, <1>2, RowsAssumption
<1>4. /\ writing' \in [into : {"batch", "store"}, row : Nat, column : 1 .. Columns + 1]
      /\ writing'.into = writing.into /\ writing'.row = writing.row
      /\ writing'.column = writing.column + 1
  BY <1>1, <1>2, <1>3
<1>5. writing'.into \in {"batch", "store"}
  BY <1>4
<1>6. ~ Idle'
  BY <1>5, NotNone DEF Idle
<1>7. \A c \in 1 .. Columns : c < writing.column + 1 <=> c <= writing.column
  BY <1>3
<1>8. QED BY <1>1, <1>3, <1>4, <1>6, <1>7 DEF Ahead

\* A cell for the batch: its column keeps up with the columns before it.
LEMMA AppendToBatchIInv ==
  ASSUME IInv, AppendCell, writing.into = "batch"
  PROVE  IInv'
<1> DEFINE k == writing.column
<1>1. /\ TypeOK /\ BatchColumnsFall /\ ~ Idle /\ k <= Columns
      /\ Write(WithCell(Target)) /\ phase = "fill"
  BY WritingPhase DEF IInv, AppendCell
<1>2. /\ owner' = owner /\ index' = index /\ phase' = phase /\ cursor' = cursor
      /\ throws' = throws /\ taken' = taken
      /\ chosen' = chosen /\ kept' = kept /\ broken' = broken /\ halved' = halved
  BY DEF AppendCell, history
<1>3. /\ writing' \in [into : {"batch", "store"}, row : Nat, column : 1 .. Columns + 1]
      /\ writing'.into = "batch" /\ writing'.row = writing.row /\ writing'.column = k + 1
      /\ ~ Idle' /\ k \in 1 .. Columns
      /\ \A c \in 1 .. Columns : /\ Ahead("batch", c) = IF c < k THEN 1 ELSE 0
                                 /\ Ahead("batch", c)' = IF c <= k THEN 1 ELSE 0
  BY WritingNext
<1>4. /\ store' = store
      /\ batch' \in [columns : ColumnSet, physical : Nat,
                     selection : [dense : BOOLEAN, size : Nat, indices : Seq(Nat)]]
      /\ batch'.columns[k] = WithCell(Target)
      /\ \A c \in 1 .. Columns : c # k => batch'.columns[c] = batch.columns[c]
  BY <1>1, TargetFacts, BatchColumnWritten
<1>5. TypeOK'
  BY <1>1, <1>2, <1>3, <1>4 DEF TypeOK
<1>6. PhasesKept' /\ SelectionInside'
  BY <1>1, <1>2, <1>3 DEF PhasesKept, SelectionInside
<1>7. Target = batch.columns[k] /\ Cell = writing.row
  BY <1>1, TargetFacts, CellFacts
<1> DEFINE before == batch.columns[k].data
           after == batch'.columns[k].data
<1>8. /\ batch'.columns[k].size = batch.columns[k].size + 1
      /\ after = Append(before, Cell)
      /\ before \in Seq(Nat) /\ Cell \in Nat /\ Len(before) \in Nat
  <2>1. before \in Seq(Nat) /\ Len(before) \in Nat
    BY <1>1, <1>3, ColumnFacts
  <2>2. Cell \in Nat /\ WithCell(Target) = [data |-> Append(Target.data, Cell), size |-> Target.size + 1]
    BY <1>1, TargetFacts, CellFacts
  <2>3. Target.data = before /\ Target.size = batch.columns[k].size
    BY <1>7
  <2>4. /\ WithCell(Target).data = Append(before, Cell)
        /\ WithCell(Target).size = batch.columns[k].size + 1
    <3>1. WithCell(Target).data = Append(Target.data, Cell)
      BY <2>2
    <3>2. WithCell(Target).size = Target.size + 1
      BY <2>2
    <3>3. QED BY <2>3, <3>1, <3>2
  <2>5. QED BY <1>4, <2>1, <2>2, <2>4
<1>9. /\ Len(after) = Len(before) + 1 /\ after[Len(before) + 1] = writing.row
      /\ \A i \in 1 .. Len(before) : after[i] = before[i]
  <2> HIDE DEF before, after
  <2>1. QED BY <1>7, <1>8, Appended
<1>10. \A c \in 1 .. Columns :
         /\ batch.columns[c].size \in Nat /\ Len(batch.columns[c].data) \in Nat
         /\ batch.columns[c].size <= Len(batch.columns[c].data)
  BY <1>1, ColumnFacts DEF BatchColumnsFall
<1>11. \A c \in 1 .. Columns : batch'.columns[c].size <= Len(batch'.columns[c].data)
  <2> TAKE c \in 1 .. Columns
  <2>1. CASE c = k
    <3>1. batch'.columns[k].size <= Len(after)
      <4>1. batch.columns[k].size \in Nat /\ batch.columns[k].size <= Len(before)
        BY <1>3, <1>10
      <4> HIDE DEF before, after
      <4>2. QED BY <1>8, <1>9, <4>1
    <3>2. QED BY <2>1, <3>1
  <2>2. CASE c # k
    BY <1>4, <1>10, <2>2
  <2>3. QED BY <2>1, <2>2
<1>12. ASSUME ~ halved, NEW c \in 1 .. Columns
       PROVE  /\ batch'.columns[c].size = Len(batch'.columns[c].data)
              /\ c <= k => /\ batch'.columns[c].size > 0
                           /\ batch'.columns[c].data[batch'.columns[c].size] = writing.row
  <2>1. /\ batch.columns[c].size = Len(batch.columns[c].data)
        /\ c < k => /\ batch.columns[c].size > 0
                    /\ batch.columns[c].data[batch.columns[c].size] = writing.row
    BY <1>1, <1>3, <1>12 DEF BatchColumnsFall
  <2>2. CASE c = k
    <3>1. batch.columns[k].size = Len(before) /\ batch.columns[k].size \in Nat
      BY <1>3, <1>10, <2>1, <2>2
    <3>2. batch'.columns[k].size = Len(before) + 1
      BY <1>8, <3>1
    <3>3. /\ batch'.columns[k].size = Len(after) /\ batch'.columns[k].size > 0
          /\ after[batch'.columns[k].size] = writing.row
      <4> HIDE DEF before, after
      <4>1. QED BY <1>8, <1>9, <3>2
    <3>4. QED BY <2>2, <3>3
  <2>3. CASE c # k
    <3>1. c <= k => c < k
      BY <1>3, <2>3
    <3>2. batch'.columns[c] = batch.columns[c]
      BY <1>4, <2>3
    <3>3. QED BY <2>1, <3>1, <3>2
  <2>4. QED BY <2>2, <2>3
<1>13. ASSUME ~ halved, NEW c \in 1 .. Columns, NEW d \in 1 .. Columns, c < d
       PROVE  LET lead == (batch'.columns[c].size - Ahead("batch", c)')
                            - (batch'.columns[d].size - Ahead("batch", d)')
              IN  /\ lead >= 0
                  /\ lead = 0 => \A i \in 1 .. batch'.columns[d].size :
                                   batch'.columns[c].data[i] = batch'.columns[d].data[i]
  <2> DEFINE old == (batch.columns[c].size - Ahead("batch", c))
                      - (batch.columns[d].size - Ahead("batch", d))
             new == (batch'.columns[c].size - Ahead("batch", c)')
                      - (batch'.columns[d].size - Ahead("batch", d)')
  <2>1. /\ old >= 0
        /\ old = 0 => \A i \in 1 .. batch.columns[d].size :
                        batch.columns[c].data[i] = batch.columns[d].data[i]
    BY <1>1, <1>13 DEF BatchColumnsFall
  <2>2. new = old
    <3>1. \A e \in 1 .. Columns : batch'.columns[e].size - Ahead("batch", e)'
                                    = batch.columns[e].size - Ahead("batch", e)
      <4> TAKE e \in 1 .. Columns
      <4>1. CASE e = k
        BY SMTT(30), <1>3, <1>8, <1>10, <4>1
      <4>2. CASE e # k
        <5>1. batch'.columns[e].size = batch.columns[e].size
          BY <1>4, <4>2
        <5>2. Ahead("batch", e)' = Ahead("batch", e)
          <6>1. e <= k <=> e < k
            BY <1>3, <4>2
          <6>2. QED BY <1>3, <6>1
        <5>3. QED BY <5>1, <5>2
      <4>3. QED BY <4>1, <4>2
    <3>2. QED BY <3>1
  <2>3. ASSUME old = 0
        PROVE  \A i \in 1 .. batch'.columns[d].size :
                 batch'.columns[c].data[i] = batch'.columns[d].data[i]
    <3>1. \A i \in 1 .. batch.columns[d].size :
            batch.columns[c].data[i] = batch.columns[d].data[i]
      BY <2>1, <2>3
    <3>2. /\ batch.columns[c].size = Len(batch.columns[c].data)
          /\ batch.columns[d].size = Len(batch.columns[d].data)
      BY <1>1, <1>13 DEF BatchColumnsFall
    <3>3. CASE d = k
      <4>1. c < k /\ c # k
        BY <1>13, <3>3, <1>3
      <4>2. batch.columns[c].size = batch.columns[d].size + 1
        <5>1. Ahead("batch", c) = 1 /\ Ahead("batch", d) = 0
          BY <1>3, <3>3, <4>1
        <5>2. (batch.columns[c].size - 1) - (batch.columns[d].size - 0) = 0
          BY <2>3, <5>1
        <5>3. batch.columns[c].size \in Nat /\ batch.columns[d].size \in Nat
          BY <1>10
        <5> HIDE DEF old
        <5>4. QED BY ONLY <5>2, <5>3, LeadOfOne
      <4>3. batch.columns[c].data[batch.columns[c].size] = writing.row
        BY <1>1, <1>3, <1>13, <4>1 DEF BatchColumnsFall
      <4>4. batch'.columns[c] = batch.columns[c]
        BY <1>4, <4>1
      <4>5. batch'.columns[d].size = batch.columns[d].size + 1
        BY <1>8, <3>3
      <4>6. \A i \in 1 .. batch.columns[d].size + 1 :
              batch'.columns[d].data[i] = IF i = batch.columns[d].size + 1 THEN writing.row
                                          ELSE batch.columns[d].data[i]
        <5>1. batch.columns[k].size = Len(before)
          BY <3>2, <3>3
        <5>2. \A i \in 1 .. Len(before) + 1 :
                after[i] = IF i = Len(before) + 1 THEN writing.row ELSE before[i]
          <6> HIDE DEF before, after
          <6>1. QED BY <1>8, <1>9
        <5>3. QED BY <3>3, <5>1, <5>2
      <4> DEFINE n == batch.columns[d].size
      <4>7. n \in Nat
        BY <1>10
      <4>8. ASSUME NEW i \in 1 .. n + 1
            PROVE  batch.columns[c].data[i] = batch'.columns[d].data[i]
        <5>1. CASE i = n + 1
          BY <4>2, <4>3, <4>6, <5>1
        <5>2. CASE i # n + 1
          <6>1. i \in 1 .. n
            BY <4>7, <5>2
          <6>2. QED BY <3>1, <4>6, <5>2, <6>1
        <5>3. QED BY <5>1, <5>2
      <4> HIDE DEF n
      <4>9. QED BY <4>4, <4>5, <4>8 DEF n
    <3>4. CASE d # k
      <4>1. batch'.columns[d] = batch.columns[d]
        BY <1>4, <3>4
      <4>2. batch.columns[d].size <= batch.columns[c].size
        <5>1. Ahead("batch", c) >= Ahead("batch", d)
          BY <1>3, <1>13
        <5>2. Ahead("batch", c) \in {0, 1} /\ Ahead("batch", d) \in {0, 1}
          BY <1>3
        <5>3. batch.columns[c].size \in Nat /\ batch.columns[d].size \in Nat
          BY <1>10
        <5> HIDE DEF old
        <5>4. (batch.columns[c].size - Ahead("batch", c))
                - (batch.columns[d].size - Ahead("batch", d)) = 0
          BY <2>3 DEF old
        <5>5. QED BY ONLY <5>1, <5>2, <5>3, <5>4, LeadGrows
      <4>3. \A i \in 1 .. batch.columns[c].size :
              batch'.columns[c].data[i] = batch.columns[c].data[i]
        BY <1>4, <1>9, <3>2
      <4>4. QED BY SMTT(30), <1>10, <3>1, <4>1, <4>2, <4>3
    <3>5. QED BY <3>3, <3>4
  <2> HIDE DEF old
  <2>4. QED BY <2>1, <2>2, <2>3
<1>14. BatchColumnsFall'
  <2>1. \A c \in 1 .. Columns : Ahead("batch", c)' = 1 => c <= k
    BY <1>3
  <2> HIDE DEF k, before, after
  <2>2. QED BY <1>2, <1>3, <1>11, <1>12, <1>13, <2>1 DEF BatchColumnsFall
<1>15. StoreColumnsLevel' /\ IndexFollowsStore'
  BY <1>1, <1>2, <1>3, <1>4, StoreQuiet
<1>16. QED BY <1>5, <1>6, <1>14, <1>15 DEF IInv

\* A cell for the store is the one of the row that is stored.
LEMMA AppendToStoreIInv ==
  ASSUME IInv, AppendCell, writing.into = "store"
  PROVE  IInv'
<1> DEFINE k == writing.column
<1>1. /\ TypeOK /\ PhasesKept /\ StoreColumnsLevel /\ IndexFollowsStore /\ ~ Idle
      /\ k <= Columns /\ Write(WithCell(Target)) /\ phase = "store"
      /\ cursor <= batch.selection.size /\ writing.row = Selected(batch.selection, cursor)
  BY WritingPhase DEF IInv, AppendCell
<1>2. /\ owner' = owner /\ index' = index /\ phase' = phase /\ cursor' = cursor
      /\ throws' = throws /\ taken' = taken
      /\ chosen' = chosen /\ kept' = kept /\ broken' = broken /\ halved' = halved
  BY DEF AppendCell, history
<1>3. /\ writing' \in [into : {"batch", "store"}, row : Nat, column : 1 .. Columns + 1]
      /\ writing'.into = "store" /\ writing'.row = writing.row
      /\ ~ Idle' /\ k \in 1 .. Columns
      /\ \A c \in 1 .. Columns : /\ Ahead("store", c) = IF c < k THEN 1 ELSE 0
                                 /\ Ahead("store", c)' = IF c <= k THEN 1 ELSE 0
                                 /\ Ahead("batch", c) = 0 /\ Ahead("batch", c)' = 0
  BY WritingNext
<1>4. /\ WithCell(Target) \in [data : Seq(Nat), size : Nat]
      /\ WithCell(Target).data = Append(Target.data, Cell)
      /\ Target = store.columns[k]
      /\ Len(Append(Target.data, Cell)) = Len(Target.data) + 1
      /\ Append(Target.data, Cell)[Len(Target.data) + 1] = Cell
      /\ Cell = chosen[cursor][k]
  BY <1>1, TargetFacts, CellFacts
<1>5. /\ batch' = batch /\ store' \in [columns : ColumnSet, rows : Nat]
      /\ store'.rows = store.rows /\ store'.columns[k] = WithCell(Target)
      /\ \A c \in 1 .. Columns : c # k => store'.columns[c] = store.columns[c]
      /\ \A c \in 1 .. Columns :
           /\ Len(store'.columns[c].data) >= Len(store.columns[c].data)
           /\ Len(store'.columns[c].data) \in Nat
           /\ \A i \in 1 .. Len(store.columns[c].data) :
                store'.columns[c].data[i] = store.columns[c].data[i]
      /\ \A e \in index : Named(e) => Named(e)'
  BY <1>1, <1>4, StoreColumnWritten
<1>6. TypeOK'
  BY <1>1, <1>2, <1>3, <1>5 DEF TypeOK
<1>7. PhasesKept'
  BY <1>1, <1>2, <1>3, <1>5 DEF PhasesKept, Selected
<1>8. SelectionInside'
  BY <1>1, <1>2, <1>5, SelectionKept
<1>9. BatchColumnsFall'
  BY <1>2, <1>3, <1>5, BatchQuiet
<1>10. /\ Len(kept) \in Nat /\ store.rows \in Nat
       /\ \A c \in 1 .. Columns : Len(store.columns[c].data) \in Nat
  BY <1>1, CountFacts, ColumnFacts
<1>11. ASSUME NEW c \in 1 .. Columns
       PROVE  /\ Len(kept) <= Len(store'.columns[c].data)
              /\ \A i \in 1 .. Len(kept) : store'.columns[c].data[i] = kept[i][c]
  <2>1. /\ Len(kept) <= Len(store.columns[c].data)
        /\ \A i \in 1 .. Len(kept) : store.columns[c].data[i] = kept[i][c]
    BY <1>1 DEF StoreColumnsLevel
  <2>2. \A i \in 1 .. Len(kept) : i \in 1 .. Len(store.columns[c].data)
    BY <1>10, <2>1
  <2>3. /\ Len(store'.columns[c].data) >= Len(store.columns[c].data)
        /\ Len(store'.columns[c].data) \in Nat /\ Len(store.columns[c].data) \in Nat
    BY <1>5, <1>10
  <2>4. \A i \in 1 .. Len(store.columns[c].data) :
          store'.columns[c].data[i] = store.columns[c].data[i]
    BY <1>5
  <2>5. Len(kept) <= Len(store'.columns[c].data)
    BY <1>10, <2>1, <2>3
  <2>6. QED BY <2>1, <2>2, <2>4, <2>5
<1>12. ASSUME ~ broken, NEW c \in 1 .. Columns
       PROVE  /\ Len(store'.columns[c].data) = store.rows + Ahead("store", c)'
              /\ Ahead("store", c)' = 1 =>
                   store'.columns[c].data[store.rows + 1] = chosen[cursor][c]
  <2>1. /\ Len(store.columns[c].data) = store.rows + Ahead("store", c)
        /\ Ahead("store", c) = 1 => store.columns[c].data[store.rows + 1] = chosen[cursor][c]
    BY <1>1, <1>12 DEF StoreColumnsLevel
  <2>2. CASE c = k
    <3>1. Ahead("store", c) = 0 /\ Ahead("store", c)' = 1
      BY <1>3, <2>2
    <3>2. Len(Target.data) = store.rows
      BY <1>4, <1>10, <2>1, <2>2, <3>1
    <3>3. store'.columns[c].data = Append(Target.data, Cell)
      BY <1>4, <1>5, <2>2
    <3>4. QED BY <1>4, <2>2, <3>1, <3>2, <3>3
  <2>3. CASE c # k
    <3>1. c <= k <=> c < k
      BY <1>3, <2>3
    <3>2. Ahead("store", c)' = Ahead("store", c)
      BY <1>3, <3>1
    <3>3. store'.columns[c] = store.columns[c]
      BY <1>5, <2>3
    <3>4. QED BY <2>1, <3>2, <3>3
  <2>4. QED BY <2>2, <2>3
<1>13. StoreColumnsLevel'
  <2>1. /\ ~ broken \/ owner # "sort" => store.rows = Len(kept)
        /\ broken /\ owner # "sort" => phase = "read"
    BY <1>1 DEF StoreColumnsLevel
  <2> HIDE DEF k
  <2>2. QED BY <1>2, <1>5, <1>11, <1>12, <2>1 DEF StoreColumnsLevel
<1>14. IndexFollowsStore'
  BY <1>1, <1>2, <1>3, <1>5 DEF IndexFollowsStore
<1>15. QED BY <1>6, <1>7, <1>8, <1>9, <1>13, <1>14 DEF IInv

LEMMA AppendCellIInv == IInv /\ AppendCell => IInv'
<1> SUFFICES ASSUME IInv, AppendCell PROVE IInv'
  OBVIOUS
<1>1. ~ Idle
  BY DEF AppendCell
<1>2. QED BY <1>1, WritingPhase, AppendToBatchIInv, AppendToStoreIInv

\* The columns that have the cells of a whole row are all ahead.
LEMMA WholeAhead ==
  ASSUME IInv, ~ Idle, writing.column > Columns
  PROVE  \A c \in 1 .. Columns : Ahead(writing.into, c) = 1
<1>1. TypeOK
  BY DEF IInv
<1>2. writing.column \in Nat /\ Columns \in Nat
  BY <1>1, WritingFacts
<1>3. QED BY <1>2 DEF Ahead

\* append_row() counts the row: no column is ahead any more.
LEMMA BatchRowWrittenIInv ==
  ASSUME IInv, RowWritten, writing.into = "batch"
  PROVE  IInv'
<1>1. /\ TypeOK /\ BatchColumnsFall /\ ~ Idle /\ writing.column > Columns /\ phase = "fill"
  BY WritingPhase DEF IInv, RowWritten
<1>2. /\ owner' = owner /\ index' = index /\ phase' = phase /\ cursor' = cursor
      /\ throws' = throws /\ taken' = taken /\ store' = store
      /\ chosen' = chosen /\ kept' = kept /\ broken' = broken /\ halved' = halved
      /\ batch' = [batch EXCEPT !.physical = @ + 1] /\ writing' = None
  BY DEF RowWritten
<1>3. Idle' /\ \A c \in 1 .. Columns : Ahead("batch", c) = 1 /\ Ahead("batch", c)' = 0
  BY <1>1, <1>2, WholeAhead, IdleAhead DEF Idle
<1>4. batch \in [columns : ColumnSet, physical : Nat,
                 selection : [dense : BOOLEAN, size : Nat, indices : Seq(Nat)]]
  BY <1>1 DEF TypeOK
<1>5. /\ batch' \in [columns : ColumnSet, physical : Nat,
                     selection : [dense : BOOLEAN, size : Nat, indices : Seq(Nat)]]
      /\ batch'.columns = batch.columns
  BY <1>2, <1>4
<1>6. TypeOK'
  BY <1>1, <1>2, <1>3, <1>5 DEF TypeOK
<1>7. PhasesKept' /\ SelectionInside'
  BY <1>1, <1>2, <1>3 DEF PhasesKept, SelectionInside
<1>8. \A c \in 1 .. Columns : batch.columns[c].size \in Nat
  BY <1>1, ColumnFacts
<1>9. ASSUME ~ halved, NEW c \in 1 .. Columns, NEW d \in 1 .. Columns, c < d
      PROVE  LET lead == (batch.columns[c].size - Ahead("batch", c)')
                           - (batch.columns[d].size - Ahead("batch", d)')
             IN  /\ lead >= 0
                 /\ lead = 0 => \A i \in 1 .. batch.columns[d].size :
                                  batch.columns[c].data[i] = batch.columns[d].data[i]
  <2>1. LET lead == (batch.columns[c].size - 1) - (batch.columns[d].size - 1)
        IN  /\ lead >= 0
            /\ lead = 0 => \A i \in 1 .. batch.columns[d].size :
                             batch.columns[c].data[i] = batch.columns[d].data[i]
    BY <1>1, <1>3, <1>9 DEF BatchColumnsFall
  <2>2. (batch.columns[c].size - 1) - (batch.columns[d].size - 1)
          = (batch.columns[c].size - Ahead("batch", c)')
              - (batch.columns[d].size - Ahead("batch", d)')
    BY <1>3, <1>8
  <2>3. QED BY <2>1, <2>2
<1>10. BatchColumnsFall'
  <2>1. /\ \A c \in 1 .. Columns : batch.columns[c].size <= Len(batch.columns[c].data)
        /\ ~ halved => \A c \in 1 .. Columns :
                         batch.columns[c].size = Len(batch.columns[c].data)
    BY <1>1 DEF BatchColumnsFall
  <2>2. QED BY <1>2, <1>3, <1>5, <1>9, <2>1 DEF BatchColumnsFall
<1>11. StoreColumnsLevel' /\ IndexFollowsStore'
  BY <1>1, <1>2, StoreQuiet
<1>12. QED BY <1>6, <1>7, <1>10, <1>11 DEF IInv

\* Every column of the store has one row more.
LEMMA StoreRowWrittenIInv ==
  ASSUME IInv, RowWritten, writing.into = "store"
  PROVE  IInv'
<1> DEFINE e0 == [id |-> store.rows + 1, key |-> chosen[cursor]]
<1>1. /\ TypeOK /\ StoreColumnsLevel /\ IndexFollowsStore /\ ~ Idle
      /\ writing.column > Columns /\ phase = "store" /\ cursor <= batch.selection.size
  BY WritingPhase DEF IInv, RowWritten
<1>2. /\ owner' = owner /\ phase' = phase /\ cursor' = cursor + 1 /\ batch' = batch
      /\ throws' = throws /\ taken' = taken
      /\ chosen' = chosen /\ broken' = broken /\ halved' = halved
      /\ store' = [store EXCEPT !.rows = @ + 1] /\ writing' = None
      /\ kept' = IF broken THEN kept ELSE Append(kept, chosen[cursor])
  BY NotNone DEF RowWritten
<1>3. index' = IF owner = "aggregate" /\ ~ BindsFirst THEN index \cup {e0} ELSE index
  BY NotNone DEF RowWritten
<1>4. /\ Idle'
      /\ \A c \in 1 .. Columns : /\ Ahead("store", c) = 1 /\ Ahead("store", c)' = 0
                                 /\ Ahead("batch", c) = 0 /\ Ahead("batch", c)' = 0
  <2>1. Idle'
    BY <1>2 DEF Idle
  <2>2. \A c \in 1 .. Columns : Ahead("batch", c) = 0
    BY DEF Ahead
  <2>3. QED BY <1>1, <2>1, <2>2, WholeAhead, IdleAhead
<1>5. /\ store' \in [columns : ColumnSet, rows : Nat]
      /\ store'.columns = store.columns /\ store'.rows = store.rows + 1
      /\ store.rows \in Nat
  <2>1. store \in [columns : ColumnSet, rows : Nat]
    BY <1>1 DEF TypeOK
  <2>2. QED BY <1>2, <2>1
<1>6. chosen[cursor] \in RowKeys
  <2>1. cursor \in 1 .. batch.selection.size
    BY <1>1, CountFacts
  <2>2. QED BY <1>1, <2>1, SelectionFacts
<1>7. /\ e0 \in [id : Nat \ {0}, key : RowKeys]
      /\ e0.id = store.rows + 1 /\ e0.key = chosen[cursor]
  <2>1. store.rows + 1 \in Nat \ {0}
    BY <1>5
  <2>2. QED BY <1>6, <2>1
<1> HIDE DEF e0
<1>8. /\ kept \in Seq(RowKeys) /\ Len(kept) \in Nat
      /\ kept' \in Seq(RowKeys)
      /\ ~ broken => /\ Len(kept') = Len(kept) + 1
                     /\ \A i \in 1 .. Len(kept) : kept'[i] = kept[i]
                     /\ kept'[Len(kept) + 1] = chosen[cursor]
  <2>1. kept \in Seq(RowKeys) /\ Len(kept) \in Nat
    BY <1>1, LenProperties DEF TypeOK
  <2>2. QED BY <1>2, <1>6, <2>1, AppendProperties
<1>9. TypeOK'
  <2>1. index' \subseteq [id : Nat \ {0}, key : RowKeys]
    BY <1>1, <1>3, <1>7 DEF TypeOK
  <2>2. cursor' \in Nat \ {0}
    BY <1>1, <1>2 DEF TypeOK
  <2>3. QED BY <1>1, <1>2, <1>4, <1>5, <1>8, <2>1, <2>2 DEF TypeOK
<1>10. PhasesKept'
  BY <1>4 DEF PhasesKept
<1>11. SelectionInside'
  BY <1>1, <1>2, SelectionKept
<1>12. BatchColumnsFall'
  BY <1>2, <1>4, BatchQuiet
<1>13. ASSUME ~ broken
       PROVE  /\ store.rows = Len(kept)
              /\ \A c \in 1 .. Columns :
                   /\ Len(store.columns[c].data) = store.rows + 1
                   /\ store.columns[c].data[store.rows + 1] = chosen[cursor][c]
  BY <1>1, <1>4, <1>13 DEF StoreColumnsLevel
<1>14. ASSUME NEW c \in 1 .. Columns
       PROVE  /\ Len(kept') <= Len(store.columns[c].data)
              /\ \A i \in 1 .. Len(kept') : store.columns[c].data[i] = kept'[i][c]
  <2>1. /\ Len(kept) <= Len(store.columns[c].data)
        /\ \A i \in 1 .. Len(kept) : store.columns[c].data[i] = kept[i][c]
    BY <1>1 DEF StoreColumnsLevel
  <2>2. CASE broken
    BY <1>2, <2>1, <2>2
  <2>3. CASE ~ broken
    <3>1. \A i \in 1 .. Len(kept') : i \in 1 .. Len(kept) \/ i = Len(kept) + 1
      BY <1>8, <2>3
    <3>2. Len(kept') <= Len(store.columns[c].data)
      BY <1>8, <1>13, <2>3
    <3>3. QED BY <1>8, <1>13, <2>1, <2>3, <3>1, <3>2
  <2>4. QED BY <2>2, <2>3
<1>15. (~ broken \/ owner # "sort") /\ ~ (broken /\ owner # "sort") => store'.rows = Len(kept')
  BY <1>5, <1>8, <1>13
<1>16. ~ (broken /\ owner # "sort")
  BY <1>1, StoringUnbroken
<1>17. StoreColumnsLevel'
  BY <1>2, <1>4, <1>5, <1>13, <1>14, <1>15, <1>16 DEF StoreColumnsLevel
<1>18. ASSUME NEW e \in index, Named(e) PROVE Named(e)'
  <2>1. e.id \in Nat
    BY <1>1 DEF TypeOK
  <2>2. QED BY <1>5, <1>18, <2>1 DEF Named, RowOf
<1>19. ASSUME NEW e, ~ broken, e.id = store.rows + 1, e.key = chosen[cursor]
       PROVE  Named(e)'
  <2>1. chosen[cursor] = [c \in 1 .. Columns |-> chosen[cursor][c]]
    BY <1>6 DEF RowKeys
  <2>2. chosen[cursor] = [c \in 1 .. Columns |-> store.columns[c].data[store.rows + 1]]
    BY <1>13, <1>19, <2>1
  <2>3. QED BY <1>5, <1>19, <2>2 DEF Named, RowOf
<1>20. IndexFollowsStore'
  <2>1. owner = "sort" => index' = {}
    BY <1>1, <1>3 DEF IndexFollowsStore
  <2>2. ASSUME NEW e \in index' PROVE Named(e)'
    <3>1. ~ broken
      <4>1. owner # "sort"
        BY <2>1
      <4>2. QED BY <1>16, <4>1
    <3>2. CASE e \in index
      <4>1. CASE Named(e)
        BY <1>18, <3>2, <4>1
      <4>2. CASE ~ Named(e)
        <5>1. e.id = store.rows + 1 /\ e.key = chosen[cursor]
          BY <1>1, <3>1, <3>2, <4>2 DEF IndexFollowsStore
        <5>2. QED BY <1>19, <3>1, <5>1
      <4>3. QED BY <4>1, <4>2
    <3>3. CASE e \notin index
      <4>1. e = e0
        BY <1>3, <3>3
      <4>2. QED BY <1>7, <1>19, <3>1, <4>1
    <3>4. QED BY <3>2, <3>3
  <2>3. QED BY <1>2, <2>1, <2>2 DEF IndexFollowsStore
<1>21. QED BY <1>9, <1>10, <1>11, <1>12, <1>17, <1>20 DEF IInv

LEMMA RowWrittenIInv == IInv /\ RowWritten => IInv'
<1> SUFFICES ASSUME IInv, RowWritten PROVE IInv'
  OBVIOUS
<1>1. ~ Idle
  BY DEF RowWritten
<1>2. QED BY <1>1, WritingPhase, BatchRowWrittenIInv, StoreRowWrittenIInv

-----------------------------------------------------------------------------
\* append_row() threw: the columns before the one that threw are longer for good,
\* so they lead.
LEMMA BatchThrowIInv ==
  ASSUME IInv, NEW column \in [data : Seq(Nat), size : Nat], NEW memory \in BOOLEAN,
         AppendThrows(column, memory), writing.into = "batch",
         column.size = Target.size,
         column.data = Target.data \/ column.data = Append(Target.data, Cell),
         ~ memory => column = Target
  PROVE  IInv'
<1> DEFINE k == writing.column
<1>1. /\ TypeOK /\ BatchColumnsFall /\ ~ Idle /\ k <= Columns
      /\ Write(column) /\ phase = "fill"
  BY WritingPhase DEF IInv, AppendThrows
<1>2. /\ owner' = owner /\ index' = index /\ phase' = phase /\ cursor' = cursor
      /\ throws' = throws + 1 /\ taken' = taken /\ writing' = None
      /\ chosen' = chosen /\ kept' = kept /\ broken' = broken /\ halved' = (halved \/ memory)
  BY DEF AppendThrows
<1>3. k \in 1 .. Columns
  BY <1>1, WritingFacts
<1>4. /\ Idle'
      /\ \A c \in 1 .. Columns : /\ Ahead("batch", c) = IF c < k THEN 1 ELSE 0
                                 /\ Ahead("batch", c)' = 0
  BY <1>1, <1>2, IdleAhead DEF Idle, Ahead
<1>5. Target = batch.columns[k] /\ Target.data \in Seq(Nat) /\ Cell \in Nat
  BY <1>1, TargetFacts, CellFacts
<1>6. /\ store' = store
      /\ batch' \in [columns : ColumnSet, physical : Nat,
                     selection : [dense : BOOLEAN, size : Nat, indices : Seq(Nat)]]
      /\ batch'.columns[k] = column
      /\ \A c \in 1 .. Columns : c # k => batch'.columns[c] = batch.columns[c]
  BY <1>1, BatchColumnWritten
<1>7. TypeOK'
  <2>1. throws' \in Nat /\ halved' \in BOOLEAN
    BY <1>1, <1>2 DEF TypeOK
  <2>2. QED BY <1>1, <1>2, <1>4, <1>6, <2>1 DEF TypeOK
<1>8. PhasesKept' /\ SelectionInside'
  BY <1>1, <1>2, <1>4 DEF PhasesKept, SelectionInside
<1>9. \A c \in 1 .. Columns :
        /\ batch.columns[c].size \in Nat /\ Len(batch.columns[c].data) \in Nat
        /\ batch.columns[c].size <= Len(batch.columns[c].data)
  BY <1>1, ColumnFacts DEF BatchColumnsFall
<1>10. \A c \in 1 .. Columns : batch'.columns[c].size <= Len(batch'.columns[c].data)
  <2> TAKE c \in 1 .. Columns
  <2>1. CASE c = k
    <3> DEFINE t == column.data
               u == Target.data
    <3>1. u \in Seq(Nat) /\ (t = u \/ t = Append(u, Cell))
      BY <1>5
    <3> HIDE DEF t, u
    <3>2. Len(t) >= Len(u) /\ Len(t) \in Nat /\ Len(u) \in Nat
      BY <1>5, <3>1, Extended, LenProperties
    <3>3. column.size <= Len(u) /\ column.size \in Nat
      BY <1>3, <1>5, <1>9 DEF u
    <3>4. column.size <= Len(column.data)
      BY <3>2, <3>3 DEF t
    <3>5. QED BY <1>6, <2>1, <3>4
  <2>2. CASE c # k
    BY <1>6, <1>9, <2>2
  <2>3. QED BY <2>1, <2>2
<1>11. ASSUME ~ halved' PROVE \A c \in 1 .. Columns : batch'.columns[c] = batch.columns[c]
  BY <1>2, <1>5, <1>6, <1>11
<1>12. ASSUME ~ halved', NEW c \in 1 .. Columns, NEW d \in 1 .. Columns, c < d
       PROVE  LET lead == (batch.columns[c].size - Ahead("batch", c)')
                            - (batch.columns[d].size - Ahead("batch", d)')
              IN  /\ lead >= 0
                  /\ lead = 0 => \A i \in 1 .. batch.columns[d].size :
                                   batch.columns[c].data[i] = batch.columns[d].data[i]
  <2> DEFINE old == (batch.columns[c].size - Ahead("batch", c))
                      - (batch.columns[d].size - Ahead("batch", d))
             new == (batch.columns[c].size - Ahead("batch", c)')
                      - (batch.columns[d].size - Ahead("batch", d)')
  <2>1. /\ old >= 0
        /\ old = 0 => \A i \in 1 .. batch.columns[d].size :
                        batch.columns[c].data[i] = batch.columns[d].data[i]
    BY <1>1, <1>2, <1>12 DEF BatchColumnsFall
  <2>2. /\ Ahead("batch", c) \in {0, 1} /\ Ahead("batch", d) \in {0, 1}
        /\ Ahead("batch", d) <= Ahead("batch", c)
    BY <1>3, <1>4, <1>12
  <2>3. batch.columns[c].size \in Nat /\ batch.columns[d].size \in Nat
    BY <1>9
  <2>4. new = (batch.columns[c].size - 0) - (batch.columns[d].size - 0)
    BY <1>4
  <2>5. new \in Int /\ old \in Int /\ new >= old
    BY <2>2, <2>3, <2>4, LeadGrows
  <2> HIDE DEF old, new
  <2>6. new >= 0 /\ (new = 0 => old = 0)
    BY <2>1, <2>5
  <2>7. QED BY <2>1, <2>6 DEF new
<1>13. BatchColumnsFall'
  <2>1. ASSUME ~ halved', NEW c \in 1 .. Columns
        PROVE  batch'.columns[c].size = Len(batch'.columns[c].data)
    <3>1. batch.columns[c].size = Len(batch.columns[c].data)
      BY <1>1, <1>2, <2>1 DEF BatchColumnsFall
    <3>2. QED BY <1>11, <2>1, <3>1
  <2>2. \A c \in 1 .. Columns : Ahead("batch", c)' # 1
    BY <1>4
  <2> HIDE DEF k
  <2>3. ASSUME ~ halved', NEW c \in 1 .. Columns, NEW d \in 1 .. Columns, c < d
        PROVE  LET lead == (batch'.columns[c].size - Ahead("batch", c)')
                             - (batch'.columns[d].size - Ahead("batch", d)')
               IN  /\ lead >= 0
                   /\ lead = 0 => \A i \in 1 .. batch'.columns[d].size :
                                    batch'.columns[c].data[i] = batch'.columns[d].data[i]
    <3>1. batch'.columns[c] = batch.columns[c] /\ batch'.columns[d] = batch.columns[d]
      BY <1>11, <2>3
    <3>2. QED BY <1>12, <2>3, <3>1
  <2>4. QED BY <1>10, <2>1, <2>2, <2>3 DEF BatchColumnsFall
<1>14. StoreColumnsLevel' /\ IndexFollowsStore'
  BY <1>1, <1>2, <1>6, StoreQuiet
<1>15. QED BY <1>7, <1>8, <1>13, <1>14 DEF IInv

\* An append to the store threw: the rows that are in it stay, the row under way
\* does not count.
LEMMA StoreThrowIInv ==
  ASSUME IInv, NEW column \in [data : Seq(Nat), size : Nat], NEW memory \in BOOLEAN,
         AppendThrows(column, memory), writing.into = "store",
         column.data = Target.data \/ column.data = Append(Target.data, Cell)
  PROVE  IInv'
<1>1. /\ TypeOK /\ StoreColumnsLevel /\ IndexFollowsStore /\ ~ Idle
      /\ writing.column <= Columns /\ Write(column) /\ phase = "store"
  BY WritingPhase DEF IInv, AppendThrows
<1>2. /\ owner' = owner /\ index' = index /\ taken' = taken /\ throws' = throws + 1
      /\ writing' = None /\ phase' = IF owner = "sort" THEN "store" ELSE "read"
      /\ cursor' = batch.selection.size + 1
      /\ chosen' = chosen /\ kept' = kept /\ broken' = TRUE /\ halved' = halved
  BY NotNone DEF AppendThrows
<1>3. /\ Idle' /\ \A c \in 1 .. Columns : Ahead("batch", c) = 0 /\ Ahead("batch", c)' = 0
  BY <1>2, IdleAhead DEF Idle, Ahead
<1>4. /\ batch' = batch /\ store' \in [columns : ColumnSet, rows : Nat]
      /\ store'.rows = store.rows
      /\ \A c \in 1 .. Columns :
           /\ Len(store'.columns[c].data) >= Len(store.columns[c].data)
           /\ Len(store'.columns[c].data) \in Nat
           /\ \A i \in 1 .. Len(store.columns[c].data) :
                store'.columns[c].data[i] = store.columns[c].data[i]
      /\ \A e \in index : Named(e) => Named(e)'
  BY <1>1, StoreColumnWritten
<1>5. TypeOK'
  <2>1. throws' \in Nat /\ cursor' \in Nat \ {0}
    BY SMTT(30), <1>1, <1>2, CountFacts DEF TypeOK
  <2>2. phase' \in {"fill", "select", "store", "read"} /\ broken' \in BOOLEAN
    BY <1>2
  <2>3. QED BY <1>1, <1>2, <1>3, <1>4, <2>1, <2>2 DEF TypeOK
<1>6. PhasesKept'
  <2>1. phase' # "fill"
    BY <1>2
  <2>2. QED BY <1>3, <2>1 DEF PhasesKept
<1>7. SelectionInside'
  BY <1>1, <1>2, <1>4, SelectionKept
<1>8. BatchColumnsFall'
  BY <1>2, <1>3, <1>4, BatchQuiet
<1>9. ASSUME NEW c \in 1 .. Columns
      PROVE  /\ Len(kept) <= Len(store'.columns[c].data)
             /\ \A i \in 1 .. Len(kept) : store'.columns[c].data[i] = kept[i][c]
  <2>1. /\ Len(kept) <= Len(store.columns[c].data)
        /\ \A i \in 1 .. Len(kept) : store.columns[c].data[i] = kept[i][c]
    BY <1>1 DEF StoreColumnsLevel
  <2>2. /\ Len(store'.columns[c].data) >= Len(store.columns[c].data)
        /\ Len(store'.columns[c].data) \in Nat /\ Len(store.columns[c].data) \in Nat
        /\ Len(kept) \in Nat
    BY <1>1, <1>4, ColumnFacts, CountFacts
  <2>3. \A i \in 1 .. Len(kept) : i \in 1 .. Len(store.columns[c].data)
    BY <2>1, <2>2
  <2>4. \A i \in 1 .. Len(store.columns[c].data) :
          store'.columns[c].data[i] = store.columns[c].data[i]
    BY <1>4
  <2>5. Len(kept) <= Len(store'.columns[c].data)
    BY SMTT(30), <2>1, <2>2
  <2>6. QED BY <2>1, <2>3, <2>4, <2>5
<1>10. StoreColumnsLevel'
  <2>1. owner # "sort" => store.rows = Len(kept)
    BY <1>1, StoringUnbroken
  <2>2. owner # "sort" => phase' = "read"
    BY <1>2
  <2>3. QED BY <1>2, <1>4, <1>9, <2>1, <2>2 DEF StoreColumnsLevel
<1>11. IndexFollowsStore'
  BY <1>1, <1>2, <1>4 DEF IndexFollowsStore
<1>12. QED BY <1>5, <1>6, <1>7, <1>8, <1>10, <1>11 DEF IInv

\* A full arena throws before anything is written.
LEMMA ArenaFullIInv == IInv /\ ArenaFull => IInv'
<1> SUFFICES ASSUME IInv, ArenaFull PROVE IInv'
  OBVIOUS
<1>1. AppendThrows(Target, FALSE)
  BY DEF ArenaFull, Full
<1>2. ~ Idle /\ writing.column <= Columns
  BY <1>1 DEF AppendThrows
<1>3. Target \in [data : Seq(Nat), size : Nat]
  BY <1>2, TargetFacts
<1>4. CASE writing.into = "batch"
  BY <1>1, <1>3, <1>4, BatchThrowIInv
<1>5. CASE writing.into = "store"
  BY <1>1, <1>3, <1>5, StoreThrowIInv
<1>6. QED BY <1>2, <1>4, <1>5, WritingPhase

\* Without memory for the flag the payload stays.
LEMMA OutOfMemoryIInv == IInv /\ OutOfMemory => IInv'
<1> SUFFICES ASSUME IInv, OutOfMemory PROVE IInv'
  OBVIOUS
<1>1. AppendThrows(WithPayload(Target), TRUE)
  BY DEF OutOfMemory
<1>2. ~ Idle /\ writing.column <= Columns
  BY <1>1 DEF AppendThrows
<1>3. /\ WithPayload(Target) \in [data : Seq(Nat), size : Nat]
      /\ WithPayload(Target).data = Append(Target.data, Cell)
      /\ WithPayload(Target).size = Target.size
  BY <1>2, TargetFacts
<1>4. CASE writing.into = "batch"
  BY <1>1, <1>3, <1>4, BatchThrowIInv
<1>5. CASE writing.into = "store"
  BY <1>1, <1>3, <1>5, StoreThrowIInv
<1>6. QED BY <1>2, <1>4, <1>5, WritingPhase

\* Every step keeps the invariant.
LEMMA NextIInv == IInv /\ [Next]_vars => IInv'
<1> SUFFICES ASSUME IInv, [Next]_vars PROVE IInv'
  OBVIOUS
<1>1. CASE UNCHANGED vars
  <2>1. /\ owner' = owner /\ batch' = batch /\ store' = store /\ index' = index
        /\ phase' = phase /\ writing' = writing /\ taken' = taken /\ cursor' = cursor
        /\ throws' = throws /\ chosen' = chosen /\ kept' = kept /\ broken' = broken
        /\ halved' = halved
    BY <1>1 DEF vars
  <2>2. \A into, c : Ahead(into, c)' = Ahead(into, c)
    BY <2>1 DEF Ahead, Idle
  <2>3. TypeOK'
    BY <2>1 DEF IInv, TypeOK, Idle
  <2>4. PhasesKept'
    BY <2>1 DEF IInv, PhasesKept, Idle, Selected
  <2>5. BatchColumnsFall'
    BY <2>1, <2>2 DEF IInv, BatchColumnsFall
  <2>6. SelectionInside'
    BY <2>1, SelectionKept
  <2>7. StoreColumnsLevel'
    BY <2>1, <2>2 DEF IInv, StoreColumnsLevel
  <2>8. IndexFollowsStore'
    BY <2>1 DEF IInv, IndexFollowsStore, Named, RowOf, Idle
  <2>9. QED BY <2>3, <2>4, <2>5, <2>6, <2>7, <2>8 DEF IInv
<1>2. CASE Next
  BY <1>2, ResetBatchIInv, StartRowIInv, HandOverIInv, NextBatchIInv, FinishIInv,
     TruncateIInv, FilterIInv, StoreRowIInv, AppendCellIInv, RowWrittenIInv,
     ArenaFullIInv, OutOfMemoryIInv DEF Next
<1>3. QED BY <1>1, <1>2

\* Whatever throws, and wherever: batches, selections, the store and the index are
\* as the code that reads them takes them to be.
THEOREM RowsInvariance == Spec => []IInv
<1>1. QED BY InitIInv, NextIInv, PTL DEF Spec

\* The types of the batch, of the store, of the index and of the append in progress.
THEOREM RowsTypes == Spec => []TypeOK
<1>1. IInv => TypeOK
  BY DEF IInv
<1>2. QED BY <1>1, RowsInvariance, PTL

\* No batch that validate() accepts has a row with cells of two source rows,
\* unless memory ran out between a payload and its flag.
THEOREM BatchRowsWhole == Spec => []ValidatedRowsWhole
<1>1. IInv => ValidatedRowsWhole
  <2> SUFFICES ASSUME IInv, Idle, ~ halved, Accepts(batch),
                      NEW i \in 1 .. batch.physical, NEW c \in 1 .. Columns, NEW d \in 1 .. Columns
               PROVE  batch.columns[c].data[i] = batch.columns[d].data[i]
    BY DEF ValidatedRowsWhole
  <2>1. TypeOK /\ BatchColumnsFall
    BY DEF IInv
  <2>2. batch.physical \in Nat
    BY <2>1, CountFacts
  <2>3. \A e \in 1 .. Columns : batch.columns[e].size = batch.physical /\ Ahead("batch", e) = 0
    BY IdleAhead DEF Accepts
  <2>4. ASSUME NEW e \in 1 .. Columns, NEW f \in 1 .. Columns, e < f
        PROVE  batch.columns[e].data[i] = batch.columns[f].data[i]
    <3>1. (batch.columns[e].size - Ahead("batch", e))
             - (batch.columns[f].size - Ahead("batch", f)) = 0
      BY <2>2, <2>3
    <3>2. QED BY <2>1, <2>3, <2>4, <3>1 DEF BatchColumnsFall
  <2>5. c < d \/ d < c \/ c = d
    BY RowsAssumption
  <2>6. QED BY <2>4, <2>5
<1>2. QED BY <1>1, RowsInvariance, PTL

\* The store has whole rows, in the order in which they were selected; those stored
\* before an append threw stay.
THEOREM StoreRowsWhole == Spec => []StoredRowsWhole
<1>1. IInv => StoredRowsWhole
  <2> SUFFICES ASSUME IInv PROVE StoredRowsWhole
    OBVIOUS
  <2>1. TypeOK /\ StoreColumnsLevel
    BY DEF IInv
  <2>2. kept \in Seq(RowKeys) /\ DOMAIN kept = 1 .. Len(kept)
    BY <2>1, LenProperties DEF TypeOK
  <2>3. ASSUME NEW i \in DOMAIN kept PROVE kept[i] = RowOf(store, i)
    <3>1. kept[i] \in RowKeys
      BY <2>2, <2>3, ElementOfSeq
    <3>2. kept[i] = [c \in 1 .. Columns |-> kept[i][c]]
      BY <3>1 DEF RowKeys
    <3>3. \A c \in 1 .. Columns : store.columns[c].data[i] = kept[i][c]
      BY <2>1, <2>2 DEF StoreColumnsLevel
    <3>4. QED BY <3>2, <3>3 DEF RowOf
  <2>4. (owner = "sort" /\ broken) \/ store.rows = Len(kept)
    BY <2>1 DEF StoreColumnsLevel, TypeOK
  <2>5. QED BY <2>3, <2>4 DEF StoredRowsWhole
<1>2. QED BY <1>1, RowsInvariance, PTL

\* The index of a HashAggregate names stored rows only, that of a HashJoin the row
\* being stored, or the one that was when an append threw, as well.
THEOREM IndexNamesRows == Spec => []IndexNamesStoredRows
<1>1. IInv => IndexNamesStoredRows
  BY DEF IInv, IndexFollowsStore, IndexNamesStoredRows
<1>2. QED BY <1>1, RowsInvariance, PTL

=============================================================================
