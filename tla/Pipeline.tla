------------------------------ MODULE Pipeline ------------------------------
(***************************************************************************)
(* The streaming spine of a plan, Limit over Projection over Filter over a *)
(* scan (src/operators.cpp, src/blocking.cpp).  Scan copies row groups of  *)
(* a table into a batch, across group boundaries and with a position kept  *)
(* between calls; ParquetScan (src/parquet.cpp) chooses the row groups of  *)
(* a file when it is made and takes the batches Arrow's reader gives.      *)
(* Filter replaces the batch's selection and pulls again when no row is    *)
(* left; Projection copies the selected rows into the caller's batch;      *)
(* Limit cuts that one short.  A row is <<group, position>>, and of its    *)
(* columns only the value of the filter's predicate is kept.               *)
(***************************************************************************)
EXTENDS Integers, Sequences, FiniteSets, SequencesExt, FiniteSetsExt

CONSTANTS Tables,    \* the tables and files: sequences of row groups, of sequences of
                     \* BOOLEAN, whether the predicate is true (not false or NULL)
          Limits,    \* the row counts a Limit is given
          Capacity,  \* rows in a batch
          MaxAgain   \* bound: how often a group is counted again

ASSUME PipelineAssumption == /\ Tables \subseteq Seq(Seq(BOOLEAN) \ {<< >>})
                             /\ Limits \subseteq Nat
                             /\ Capacity \in Nat \ {0}
                             /\ MaxAgain \in Nat

VARIABLES table, pruned, limit,   \* the table, the groups may_match rules out, n
          leaf,                   \* "table", "file", or "bare": a file without columns
          group, row,             \* Scan: group_, row_ (rows of it already copied)
          read, skipped,          \* groups_read_ or selected, groups_skipped_ or skipped
          again,                  \* history: exceptions between counting a group and its rows
          taken, unread,          \* ParquetScan: rows the reader has given; remaining
          batch, selection,       \* Projection's input_: physical rows, selection
          remaining,              \* Limit: remaining_
          pc, delivered, verdict

frozen == <<table, pruned, limit, leaf>>
scan == <<group, row, read, skipped, again, taken, unread>>
vars == <<table, pruned, limit, leaf, group, row, read, skipped, again, taken, unread, batch,
          selection, remaining, pc, delivered, verdict>>

Groups == 1 .. Len(table)

\* Statistics rule out only groups without a row the predicate accepts: what
\* may_match guarantees (module Sources).
SoundPruning(t) == SUBSET {g \in 1 .. Len(t) : TRUE \notin Range(t[g])}

Rows == UNION {{g} \X DOMAIN table[g] : g \in Groups}
Earlier(r, q) == r[1] < q[1] \/ (r[1] = q[1] /\ r[2] < q[2])

\* A set from its first member to its last: the place of each is one
\* behind those before it.
Arranged(S, Before(_, _)) ==
  LET place == [x \in S |-> 1 + Cardinality({y \in S : Before(y, x)})]
  IN  [n \in 1 .. Cardinality(S) |-> CHOOSE x \in S : place[x] = n]

\* The rows of a file's selected groups, in the order the reader has them.
FileRows == Arranged({r \in Rows : r[1] \notin pruned}, Earlier)

\* A scan without columns is under a predicate without columns.
OneVerdict == Cardinality(UNION {Range(table[g]) : g \in Groups}) <= 1

\* ParquetScan selects its row groups when it is made, Scan when it comes to one.
Init == /\ table \in Tables
        /\ pruned \in SoundPruning(table)
        /\ limit \in Limits
        /\ leaf \in {"table", "file"} \cup (IF OneVerdict THEN {"bare"} ELSE {})
        /\ group = 1
        /\ row = 0
        /\ read = IF leaf = "table" THEN 0 ELSE Cardinality(Groups \ pruned)
        /\ skipped = IF leaf = "table" THEN 0 ELSE Cardinality(pruned)
        /\ again = 0
        /\ taken = 0
        /\ unread = IF leaf = "table" THEN 0 ELSE Len(FileRows)
        /\ batch = << >>
        /\ selection = << >>
        /\ remaining = limit
        /\ pc = "idle"
        /\ delivered = << >>
        /\ verdict = "more"

-----------------------------------------------------------------------------
\* False, unless the caller goes on after an exception.
Told == IF verdict = "threw" THEN "threw" ELSE "end"

\* Limit::next with nothing left to give: false, and the child is not pulled.
LimitReached == /\ pc = "idle"
                /\ remaining = 0
                /\ verdict' = Told
                /\ UNCHANGED <<frozen, scan, batch, selection, remaining, pc, delivered>>

\* Limit pulls Projection, Projection pulls Filter, Filter pulls Scan.
Call == /\ pc = "idle"
        /\ remaining > 0
        /\ pc' = "scan"
        /\ batch' = << >>
        /\ selection' = << >>
        /\ UNCHANGED <<frozen, scan, remaining, delivered, verdict>>

RoomLeft == Capacity - Len(batch)

\* Scan: a group about to be started is skipped when its statistics allow it.
ScanSkip == /\ pc = "scan"
            /\ leaf = "table"
            /\ RoomLeft > 0
            /\ group \in Groups
            /\ row = 0
            /\ group \in pruned
            /\ group' = group + 1
            /\ skipped' = skipped + 1
            /\ UNCHANGED <<frozen, row, read, again, taken, unread, batch, selection, remaining,
                           pc, delivered, verdict>>

StartsAlways == TRUE          \* mutant: counted again by every batch
Starts == row = 0
Counted == IF Starts THEN read + 1 ELSE read

Copied == Min({Len(table[group]) - row, RoomLeft})

GroupDone(n) == row + n = Len(table[group])

CopiesNow == RoomLeft > 0 /\ group \in Groups /\ (row > 0 \/ group \notin pruned)

\* Scan: copy a range of the group, as much as fits, and go on where it ends.
ScanCopy == /\ pc = "scan"
            /\ leaf = "table"
            /\ CopiesNow
            /\ read' = Counted
            /\ batch' = batch \o [i \in 1 .. Copied |-> <<group, row + i>>]
            /\ IF GroupDone(Copied)
               THEN group' = group + 1 /\ row' = 0
               ELSE group' = group /\ row' = row + Copied
            /\ UNCHANGED <<frozen, skipped, again, taken, unread, selection, remaining, pc,
                           delivered, verdict>>

\* Scan returns a batch whose selection is every row of it.
ScanFull == /\ pc = "scan"
            /\ leaf = "table"
            /\ batch # << >>
            /\ RoomLeft = 0 \/ group \notin Groups
            /\ selection' = [i \in DOMAIN batch |-> i]
            /\ pc' = "filter"
            /\ UNCHANGED <<frozen, scan, batch, remaining, delivered, verdict>>

\* Scan has no row left: false, up to the caller.
ScanEnd == /\ pc = "scan"
           /\ leaf = "table"
           /\ batch = << >>
           /\ group \notin Groups
           /\ pc' = "idle"
           /\ verdict' = Told
           /\ UNCHANGED <<frozen, scan, batch, selection, remaining, delivered>>

-----------------------------------------------------------------------------
\* ParquetScan: every row the metadata counts has been given.
FileEnd == /\ pc = "scan"
           /\ leaf # "table"
           /\ unread = 0
           /\ pc' = "idle"
           /\ verdict' = Told
           /\ UNCHANGED <<frozen, scan, batch, selection, remaining, delivered>>

\* ReadNext gives a record batch of at most batch_size rows, cut as Arrow likes;
\* without columns there is no reader, and full batches are made up.
InReader == Len(FileRows) - taken
Readable == IF leaf = "bare" THEN {Min({Capacity, unread})}
            ELSE 1 .. Min({Capacity, InReader})

UnreadWhole(n) == Max({0, unread - Capacity})     \* mutant: a whole batch is counted
UnreadAfter(n) == unread - n
FileRead == /\ pc = "scan"
            /\ leaf # "table"
            /\ unread > 0
            /\ \E n \in Readable :
                 /\ batch' = SubSeq(FileRows, taken + 1, taken + n)
                 /\ selection' = [i \in 1 .. n |-> i]
                 /\ taken' = taken + n
                 /\ unread' = UnreadAfter(n)
            /\ pc' = "filter"
            /\ UNCHANGED <<frozen, group, row, read, skipped, again, remaining, delivered, verdict>>

\* The reader is at its end although rows are missing: an earlier call threw
\* after the reader had moved on.
ReaderEnd == /\ pc = "scan"
             /\ leaf = "file"
             /\ unread > 0
             /\ InReader = 0
             /\ unread' = 0
             /\ pc' = "idle"
             /\ verdict' = Told
             /\ UNCHANGED <<frozen, group, row, read, skipped, again, taken, batch, selection,
                            remaining, delivered>>

\* The scan throws (a read error, a full string arena).  What the batch holds is
\* lost, and with it the rows the reader had given for it; a group that was being
\* begun has been counted and will be again.
ScanThrow == /\ pc = "scan"
             /\ \/ /\ leaf = "table" /\ CopiesNow
                   /\ Starts => again < MaxAgain
                   /\ read' = Counted
                   /\ again' = IF Starts THEN again + 1 ELSE again
                   /\ taken' = taken
                \/ /\ leaf = "file" /\ unread > 0
                   /\ \E n \in 0 .. Min({Capacity, InReader}) : taken' = taken + n
                   /\ UNCHANGED <<read, again>>
             /\ pc' = "idle"
             /\ verdict' = "threw"
             /\ UNCHANGED <<frozen, group, row, skipped, unread, batch, selection, remaining,
                            delivered>>

-----------------------------------------------------------------------------
Accepts(r) == table[r[1]][r[2]]

\* selected_: the rows of the selection that pass, in the order of the selection.
Lower(i, j) == i < j
Selected == LET passing == Arranged({j \in DOMAIN selection : Accepts(batch[selection[j]])}, Lower)
            IN  [n \in DOMAIN passing |-> selection[passing[n]]]

\* Filter: no selected row passes, so it pulls the next batch.
FilterNone == /\ pc = "filter"
              /\ Selected = << >>
              /\ batch' = << >>
              /\ selection' = << >>
              /\ pc' = "scan"
              /\ UNCHANGED <<frozen, scan, remaining, delivered, verdict>>

FilterSome == /\ pc = "filter"
              /\ Selected # << >>
              /\ selection' = Selected
              /\ pc' = "project"
              /\ UNCHANGED <<frozen, scan, batch, remaining, delivered, verdict>>

\* Projection copies the selected rows and finishes a dense batch; Limit
\* truncates its selection and counts what is left of it.
ProjectedDense == [j \in DOMAIN selection |-> batch[j]]    \* mutant: selection ignored
Projected == [j \in DOMAIN selection |-> batch[selection[j]]]
Kept == Min({remaining, Len(selection)})
ProjectAndLimit == /\ pc = "project"
                   /\ delivered' = delivered \o SubSeq(Projected, 1, Kept)
                   /\ remaining' = remaining - Kept
                   /\ pc' = "idle"
                   /\ UNCHANGED <<frozen, scan, batch, selection, verdict>>

Work == \/ LimitReached \/ ScanSkip \/ ScanCopy \/ ScanFull \/ ScanEnd
        \/ FileEnd \/ FileRead \/ ReaderEnd \/ FilterNone \/ FilterSome \/ ProjectAndLimit
Next == Call \/ Work \/ ScanThrow

\* The caller pulls until false, and a call runs to its return.
Spec == Init /\ [][Next]_vars /\ WF_vars(Call \/ Work)

-----------------------------------------------------------------------------
\* groups_read() and groups_skipped() count the groups a scan of a table has
\* begun and passed over, a group that takes several batches once; one whose
\* first rows could not be copied is counted by every attempt.
CountersExact ==
  LET begun == IF leaf # "table" THEN Groups ELSE IF row > 0 THEN 1 .. group ELSE 1 .. group - 1
  IN  /\ read = Cardinality(begun \ pruned) + again
      /\ skipped = Cardinality(begun \cap pruned)

TypeOK == /\ table \in Tables
          /\ limit \in Limits
          /\ leaf \in {"table", "file", "bare"}
          /\ pruned \in SoundPruning(table)
          /\ group \in 1 .. Len(table) + 1
          /\ row \in Nat
          /\ row > 0 => group \in Groups /\ row < Len(table[group])
          /\ again \in Nat
          /\ CountersExact
          /\ taken \in 0 .. Len(FileRows)
          /\ unread = 0 \/ unread \in InReader .. Len(FileRows)
          /\ batch \in Seq(Rows)
          /\ Len(batch) <= Capacity
          /\ selection \in Seq(DOMAIN batch)
          /\ remaining \in 0 .. limit
          /\ delivered \in Seq(Rows)
          /\ pc \in {"idle", "scan", "filter", "project"}
          /\ verdict \in {"more", "end", "threw"}

\* The first `limit' rows the predicate accepts, in the order of the source.
Accepted == {r \in Rows : Accepts(r)}
Answer == [n \in 1 .. Min({limit, Cardinality(Accepted)}) |-> Arranged(Accepted, Earlier)[n]]

InOrder(s) == \A i, j \in DOMAIN s : i < j => Earlier(s[i], s[j])

\* Whatever threw in between: only accepted rows come, in the order of the
\* source, none twice, and no more than the limit.
RowsInOrderAndOnce == /\ Range(delivered) \subseteq Accepted
                      /\ InOrder(delivered)
                      /\ Len(delivered) <= limit

\* The spine keeps the promise of every operator: skipped groups, batches that
\* span groups, filtered-out batches and the cut at the limit lose no row,
\* repeat none, never end the result early, and the end always comes.
Contract == INSTANCE PullContract WITH answer <- Answer
KeepsContract == Contract!Spec

-----------------------------------------------------------------------------
\* What makes the invariants above inductive: where the scan is between its calls.

\* The rows the scan has come past, copied, skipped, given or lost.
Passed == IF leaf = "table" THEN {q \in Rows : q[1] < group \/ (q[1] = group /\ q[2] <= row)}
          ELSE {FileRows[n] : n \in 1 .. taken}

\* The scan has nothing left to give.
Exhausted == IF leaf = "table" THEN group \notin Groups ELSE unread = 0

\* The batch holds rows the scan has come past, in order, all of them later than
\* what has been delivered.
BatchInOrder == /\ Range(batch) \subseteq Passed
                /\ InOrder(batch)
                /\ pc # "idle" => \A r \in Range(delivered), q \in Range(batch) : Earlier(r, q)

\* The selection is in order; it is the whole batch for the filter, and after it
\* the accepted rows.
Selects(i) == \E j \in DOMAIN selection : selection[j] = i
SelectionInOrder ==
  /\ \A i, j \in DOMAIN selection : i < j => selection[i] < selection[j]
  /\ Len(selection) <= Len(batch)
  /\ pc = "scan" => selection = << >>
  /\ pc = "filter" => \A i \in DOMAIN batch : Selects(i)
  /\ pc = "project" => /\ selection # << >>
                       /\ \A i \in DOMAIN batch : Selects(i) <=> Accepts(batch[i])

\* What has been delivered are accepted rows the scan has come past; remaining_
\* counts them, and Limit pulls only while some may come.
DeliveredInOrder == /\ Range(delivered) \subseteq Accepted \cap Passed
                    /\ InOrder(delivered)
                    /\ Len(delivered) = limit - remaining
                    /\ pc # "idle" => remaining > 0

\* Unless something threw, no accepted row is lost: those the scan has come past
\* are delivered, or in the batch, or beyond the limit.
NothingLost ==
  verdict # "threw" =>
    /\ leaf = "table" \/ unread = InReader
    /\ \A a \in Accepted, d \in Range(delivered) : Earlier(a, d) => a \in Range(delivered)
    /\ remaining = 0 \/ \A a \in Accepted \cap Passed :
                           a \in Range(delivered) \/ (pc # "idle" /\ a \in Range(batch))

\* The end is told when there is nothing left or nothing left to ask for.
EndTold == verdict = "end" => /\ remaining = 0 \/ Exhausted
                              /\ pc \in {"idle", "scan"}
                              /\ pc = "scan" => batch = << >>

\* The scan of a file gives a batch in one read; without columns there is no
\* reader that could be ahead of the count.
FileScan == /\ leaf # "table" /\ pc = "scan" => batch = << >>
            /\ leaf = "bare" => unread = InReader

\* In the middle of a call and between calls, with exceptions and without.
IInv == /\ TypeOK /\ BatchInOrder /\ SelectionInOrder /\ DeliveredInOrder
        /\ NothingLost /\ EndTold /\ FileScan
=============================================================================
