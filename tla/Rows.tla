-------------------------------- MODULE Rows --------------------------------
(***************************************************************************)
(* Rows that are written column by column: vqe::Batch with its Selection   *)
(* (src/vector.cpp) and the RowStore (src/hash.cpp) that HashAggregate,    *)
(* HashJoin and Sort fill from the selected rows of batches, an index      *)
(* naming the rows in the first two (src/blocking.cpp).  An append may     *)
(* throw in any column.  A cell is the number of the source row it is      *)
(* from, so that every row is a key of its own; rows are numbered from 1.  *)
(***************************************************************************)
EXTENDS Integers, Sequences

CONSTANTS Columns,      \* the number of columns
          Capacity,     \* of a batch
          MaxRows,      \* bound: source rows
          MaxThrows     \* bound: appends that throw

ASSUME RowsAssumption == /\ {Columns, Capacity} \subseteq Nat \ {0}
                         /\ {MaxRows, MaxThrows} \subseteq Nat

VARIABLES owner,      \* "aggregate", "join" or "sort": who fills the store
          batch,      \* columns, physical_size and selection of the batch
          store,      \* columns and rows_ of the store
          index,      \* the rows the index names: id and key
          phase,      \* what is done with the batch; "read" once the owner only reads
          writing,    \* the append in progress and its next column
          taken,      \* source rows appended so far, those that threw included
          cursor,     \* position in the selection of the row to be stored
          throws      \* appends that threw

\* For the properties: the rows the selection stands for, the rows the store took
\* before an append to it threw, whether one did, and whether one to the batch's
\* columns ran out of memory.
VARIABLES chosen, kept, broken, halved

vars == <<owner, batch, store, index, phase, writing, taken, cursor, throws,
          chosen, kept, broken, halved>>
history == <<chosen, kept, broken, halved>>

Owners == {"aggregate", "join", "sort"}
None == [into |-> "none"]
Idle == writing = None
EmptyColumn == [data |-> << >>, size |-> 0]
EmptyColumns == [c \in 1 .. Columns |-> EmptyColumn]

Dense(n) == [dense |-> TRUE, size |-> n, indices |-> << >>]
EmptyBatch == [columns |-> EmptyColumns, physical |-> 0, selection |-> Dense(0)]

\* Selection::operator[]
Selected(s, j) == IF s.dense THEN j ELSE s.indices[j]

Init == /\ owner \in Owners
        /\ batch = EmptyBatch
        /\ store = [columns |-> EmptyColumns, rows |-> 0]
        /\ index = {}
        /\ phase = "fill"
        /\ writing = None
        /\ taken = 0 /\ cursor = 1 /\ throws = 0
        /\ chosen = << >> /\ kept = << >> /\ broken = FALSE /\ halved = FALSE

-----------------------------------------------------------------------------
\* validate(): every column has physical_size rows, and the selection is inside.
Accepts(b) ==
  /\ b.physical <= Capacity
  /\ \A c \in 1 .. Columns : b.columns[c].size = b.physical
  /\ \A j \in 1 .. b.selection.size : Selected(b.selection, j) <= b.physical

RowOf(b, i) == [c \in 1 .. Columns |-> b.columns[c].data[i]]

ResetBatch == /\ phase = "fill" /\ Idle
              /\ batch # EmptyBatch
              /\ batch' = EmptyBatch
              /\ halved' = FALSE
              /\ UNCHANGED <<owner, store, index, phase, writing, taken, cursor, throws,
                             chosen, kept, broken>>

\* append_row(): "batch full" throws before anything is written.
StartRow == /\ phase = "fill" /\ Idle
            /\ taken < MaxRows
            /\ batch.physical # Capacity
            /\ writing' = [into |-> "batch", row |-> taken + 1, column |-> 1]
            /\ taken' = taken + 1
            /\ UNCHANGED <<owner, batch, store, index, phase, cursor, throws, history>>

\* finish(n): physical_size and the selection are set first, and stay when
\* validate() throws.
Finish(n) ==
  /\ phase = "fill" /\ Idle
  /\ LET b == [batch EXCEPT !.physical = n, !.selection = Dense(n)]
     IN  /\ batch' = b
         /\ phase' = IF Accepts(b) THEN "select" ELSE "fill"
         /\ chosen' = IF Accepts(b) THEN [i \in 1 .. n |-> RowOf(b, i)] ELSE chosen
  /\ UNCHANGED <<owner, store, index, writing, taken, cursor, throws, kept, broken, halved>>

\* Filter::next(): clear() and a push() per row that is kept, of its physical index;
\* keep is the sequence of the positions that are, read from the first to the last.
PushPosition(s, j) == j             \* mutant: positions for physical rows
Pushed(s, j) == Selected(s, j)
Kept(s, keep) ==
  [dense |-> FALSE, size |-> Len(keep), indices |-> [k \in DOMAIN keep |-> Pushed(s, keep[k])]]

Filter(keep) ==
  /\ phase = "select"
  /\ \A k \in DOMAIN keep : keep[k] <= batch.selection.size
  /\ \A j, k \in DOMAIN keep : j < k => keep[j] < keep[k]
  /\ batch' = [batch EXCEPT !.selection = Kept(batch.selection, keep)]
  /\ chosen' = [k \in DOMAIN keep |-> chosen[keep[k]]]
  /\ UNCHANGED <<owner, store, index, phase, writing, taken, cursor, throws, kept, broken, halved>>

\* Limit::next(): truncate().
Truncate(n) ==
  /\ phase = "select"
  /\ n < batch.selection.size
  /\ batch' = [batch EXCEPT !.selection.size = n,
                             !.selection.indices = SubSeq(@, 1, IF batch.selection.dense THEN 0 ELSE n)]
  /\ chosen' = SubSeq(chosen, 1, n)
  /\ UNCHANGED <<owner, store, index, phase, writing, taken, cursor, throws, kept, broken, halved>>

HandOver == /\ phase = "select"
            /\ batch.selection.size > 0
            /\ phase' = "store"
            /\ cursor' = 1
            /\ UNCHANGED <<owner, batch, store, index, writing, taken, throws, history>>

-----------------------------------------------------------------------------
BindsAlways == TRUE                 \* mutant: every owner indexes first
BindsFirst == owner = "join"

\* HashJoin::build() indexes the id the row is going to have; HashAggregate names
\* a row when append_key() has returned.  Every key here is new.
StoreRow ==
  /\ phase = "store" /\ Idle
  /\ cursor <= batch.selection.size
  /\ writing' = [into |-> "store", row |-> Selected(batch.selection, cursor), column |-> 1]
  /\ index' = IF BindsFirst THEN index \cup {[id |-> store.rows + 1, key |-> chosen[cursor]]}
              ELSE index
  /\ UNCHANGED <<owner, batch, store, phase, taken, cursor, throws, history>>

\* Column::append(): the payload, then the flag.
Cell == IF writing.into = "batch" THEN writing.row
        ELSE batch.columns[writing.column].data[writing.row]
Target == IF writing.into = "batch" THEN batch.columns[writing.column]
          ELSE store.columns[writing.column]
WithPayload(column) == [column EXCEPT !.data = Append(@, Cell)]
WithCell(column) == [data |-> Append(column.data, Cell), size |-> column.size + 1]
Write(column) ==
  IF writing.into = "batch"
  THEN batch' = [batch EXCEPT !.columns[writing.column] = column] /\ UNCHANGED store
  ELSE store' = [store EXCEPT !.columns[writing.column] = column] /\ UNCHANGED batch

AppendCell == /\ ~ Idle /\ writing.column <= Columns
              /\ Write(WithCell(Target))
              /\ writing' = [writing EXCEPT !.column = @ + 1]
              /\ UNCHANGED <<owner, index, phase, taken, cursor, throws, history>>

\* The row counts when all of its cells are there.
RowWritten ==
  /\ ~ Idle /\ writing.column > Columns
  /\ writing' = None
  /\ IF writing.into = "batch"
     THEN /\ batch' = [batch EXCEPT !.physical = @ + 1]
          /\ UNCHANGED <<store, index, cursor, kept>>
     ELSE /\ store' = [store EXCEPT !.rows = @ + 1]
          /\ index' = IF owner = "aggregate" /\ ~ BindsFirst
                      THEN index \cup {[id |-> store.rows + 1, key |-> chosen[cursor]]}
                      ELSE index
          /\ cursor' = cursor + 1
          /\ kept' = IF broken THEN kept ELSE Append(kept, chosen[cursor])
          /\ UNCHANGED batch
  /\ UNCHANGED <<owner, phase, taken, throws, chosen, broken, halved>>

\* A full string arena throws before anything is written; without memory for the
\* flag the payload is there and no row.  HashAggregate and HashJoin do not take
\* up their input again, Sort goes on with the next batch.
AppendThrows(column, memory) ==
  /\ ~ Idle /\ writing.column <= Columns
  /\ throws < MaxThrows
  /\ Write(column)
  /\ throws' = throws + 1
  /\ writing' = None
  /\ IF writing.into = "batch"
     THEN /\ halved' = (halved \/ memory)
          /\ UNCHANGED <<phase, cursor, broken>>
     ELSE /\ phase' = IF owner = "sort" THEN "store" ELSE "read"
          /\ cursor' = batch.selection.size + 1
          /\ broken' = TRUE
          /\ UNCHANGED halved
  /\ UNCHANGED <<owner, index, taken, chosen, kept>>

FullLate(column) == WithPayload(column)     \* mutant: checked after the bytes are in
Full(column) == column
ArenaFull == AppendThrows(Full(Target), FALSE)
OutOfMemory == AppendThrows(WithPayload(Target), TRUE)

\* The batch is used up, or no row of it is left and the child is asked again.
NextBatch == /\ Idle
             /\ \/ phase = "store" /\ cursor > batch.selection.size
                \/ phase = "select" /\ batch.selection.size = 0
             /\ phase' = "fill"
             /\ batch' = EmptyBatch
             /\ halved' = FALSE
             /\ UNCHANGED <<owner, store, index, writing, taken, cursor, throws, chosen, kept, broken>>

Next == \/ ResetBatch \/ StartRow \/ HandOver \/ NextBatch
        \/ \E n \in 0 .. Capacity : Finish(n) \/ Truncate(n)
        \/ \E n \in 0 .. Capacity : \E keep \in [1 .. n -> 1 .. Capacity] : Filter(keep)
        \/ StoreRow \/ AppendCell \/ RowWritten \/ ArenaFull \/ OutOfMemory

Spec == Init /\ [][Next]_vars

-----------------------------------------------------------------------------
\* A batch that validate() accepts has no row with cells of two source rows, even
\* if append_row() threw in one of its columns and the caller went on: the columns
\* before that one stay longer until reset().  Only bad_alloc between a payload
\* and its flag is not seen (vector.cpp:183-200, vector.hpp:73-75).
ValidatedRowsWhole ==
  Idle /\ ~ halved /\ Accepts(batch) =>
    \A i \in 1 .. batch.physical : \A c, d \in 1 .. Columns :
      batch.columns[c].data[i] = batch.columns[d].data[i]

\* The store has the rows the selections stood for, in order and whole; those
\* stored before an append threw stay so whatever follows, and only Sort, which
\* goes on, counts rows after that (hash.cpp:69-78, operators.cpp:58-66).
StoredRowsWhole ==
  /\ \A i \in DOMAIN kept : kept[i] = RowOf(store, i)
  /\ (owner = "sort" /\ broken) \/ store.rows = Len(kept)

\* The index of a HashAggregate names only stored rows with the entry's key, at
\* any time.  That of a HashJoin names the row being stored as well, and one that
\* is never stored once an append has thrown (blocking.cpp:38-43, 100-104).
Named(e) == /\ e.id <= store.rows
            /\ RowOf(store, e.id) = e.key
IndexNamesStoredRows ==
  \A e \in index : \/ Named(e)
                   \/ owner = "join" /\ e.id = store.rows + 1 /\ (~ Idle \/ broken)

-----------------------------------------------------------------------------
\* What makes the invariants above inductive.
RowKeys == [1 .. Columns -> Nat]
ColumnSet == [1 .. Columns -> [data : Seq(Nat), size : Nat]]

TypeOK ==
  /\ owner \in Owners /\ phase \in {"fill", "select", "store", "read"}
  /\ batch \in [columns : ColumnSet, physical : Nat,
                selection : [dense : BOOLEAN, size : Nat, indices : Seq(Nat)]]
  /\ store \in [columns : ColumnSet, rows : Nat]
  /\ index \subseteq [id : Nat \ {0}, key : RowKeys]
  /\ \/ Idle
     \/ writing \in [into : {"batch", "store"}, row : Nat, column : 1 .. Columns + 1]
  /\ taken \in Nat /\ cursor \in Nat \ {0} /\ throws \in Nat
  /\ chosen \in Seq(RowKeys) /\ kept \in Seq(RowKeys)
  /\ broken \in BOOLEAN /\ halved \in BOOLEAN

\* The cell that column c has of the row being written.
Ahead(into, c) == IF ~ Idle /\ writing.into = into /\ c < writing.column THEN 1 ELSE 0

\* Rows are written into the batch while it is filled, and into the store from
\* the selection.
PhasesKept ==
  /\ phase = "fill" => Idle \/ writing.into = "batch"
  /\ phase = "store" => \/ Idle
                        \/ /\ writing.into = "store" /\ cursor <= batch.selection.size
                           /\ writing.row = Selected(batch.selection, cursor)
  /\ phase \in {"select", "read"} => Idle

\* An append that threw leaves the columns before it longer for good: a column
\* is never behind a later one, and has the same cells while it is not ahead.
BatchColumnsFall ==
  /\ \A c \in 1 .. Columns : batch.columns[c].size <= Len(batch.columns[c].data)
  /\ ~ halved =>
       /\ \A c \in 1 .. Columns :
            /\ batch.columns[c].size = Len(batch.columns[c].data)
            /\ Ahead("batch", c) = 1 =>
                 /\ batch.columns[c].size > 0
                 /\ batch.columns[c].data[batch.columns[c].size] = writing.row
       /\ \A c, d \in 1 .. Columns : c < d =>
            LET lead == (batch.columns[c].size - Ahead("batch", c))
                          - (batch.columns[d].size - Ahead("batch", d))
            IN  /\ lead >= 0
                /\ lead = 0 => \A i \in 1 .. batch.columns[d].size :
                                 batch.columns[c].data[i] = batch.columns[d].data[i]

\* Every position of a selection that is handed on names a row of its batch.
SelectionInside ==
  phase \in {"select", "store"} =>
    /\ Accepts(batch)
    /\ batch.selection.dense \/ Len(batch.selection.indices) = batch.selection.size
    /\ Len(chosen) = batch.selection.size
    /\ \A j \in 1 .. batch.selection.size :
         /\ Selected(batch.selection, j) \in 1 .. batch.physical
         /\ chosen[j] = RowOf(batch, Selected(batch.selection, j))

\* The cells of the store: the rows it took, and the part of the one under way.
StoreColumnsLevel ==
  /\ \A c \in 1 .. Columns :
       /\ Len(kept) <= Len(store.columns[c].data)
       /\ \A i \in 1 .. Len(kept) : store.columns[c].data[i] = kept[i][c]
       /\ ~ broken =>
            /\ Len(store.columns[c].data) = store.rows + Ahead("store", c)
            /\ Ahead("store", c) = 1 =>
                 store.columns[c].data[store.rows + 1] = chosen[cursor][c]
  /\ ~ broken \/ owner # "sort" => store.rows = Len(kept)
  /\ broken /\ owner # "sort" => phase = "read"

\* An entry of the index names a row of the store or, in a HashJoin, the next.
IndexFollowsStore ==
  /\ owner = "sort" => index = {}
  /\ \A e \in index :
       \/ Named(e)
       \/ /\ owner = "join" /\ e.id = store.rows + 1
          /\ ~ broken => ~ Idle /\ writing.into = "store" /\ e.key = chosen[cursor]

\* Whatever threw, and wherever: no batch that validate() accepts mixes rows, no
\* selection points outside its batch, and the store has whole rows.
IInv == /\ TypeOK /\ PhasesKept
        /\ BatchColumnsFall /\ SelectionInside
        /\ StoreColumnsLevel /\ IndexFollowsStore
=============================================================================
