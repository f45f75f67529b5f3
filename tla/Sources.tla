------------------------------ MODULE Sources ------------------------------
(***************************************************************************)
(* The two implementations of vqe::Source and the metadata scans prune     *)
(* with.  A MemorySource reads a Table (src/operators.cpp), which analyses *)
(* every batch appended to it; a ParquetSource (src/parquet.cpp) reads the *)
(* footer of a file, where a row group may lack a count of NULLs or its    *)
(* bounds.  Either keeps statistics of each row group and of all of them.  *)
(* There is one numeric column.  The footer is Arrow's: it says what a     *)
(* writer wrote, which is right or absent, and whose bounds may be loose.  *)
(***************************************************************************)
EXTENDS Statistics

CONSTANTS Batches,     \* batches appended to a table: [cells, selection]
          RowGroups,   \* row groups of a file: [cells, footer]
          Predicates,  \* the predicates scans prune with
          MaxGroups    \* bound: row groups of a source

\* The count of NULLs in a footer is right or absent, its bounds enclose the
\* numbers or are both absent.
FooterRight(cells, footer) ==
  /\ footer.nulls \in {None, NullsIn(cells)}
  /\ \/ footer.minimum = None /\ footer.maximum = None
     \/ /\ footer.minimum \in Int /\ footer.maximum \in Int
        /\ \A x \in Numbers(cells) : footer.minimum <= x /\ x <= footer.maximum

ASSUME SourcesAssumption ==
  /\ MaxGroups \in Nat
  /\ Predicates \subseteq {e \in Trees : IsTruth(e)}
  /\ \A b \in Batches : b.cells \in Seq(Cell) /\ b.selection \in Seq(DOMAIN b.cells)
  /\ \A g \in RowGroups : g.cells \in Seq(Cell) /\ FooterRight(g.cells, g.footer)

VARIABLES kind, isDouble,           \* "table" or "file"; the type of the column
          groups, groupStatistics,  \* groups_ (their cells) and their statistics
          statistics, rows,         \* statistics_ and rows_
          unknownBounds,            \* ParquetSource(): unknown_bounds
          opened,                   \* whether the constructor has returned
          failed                    \* whether an append has thrown

frozen == <<kind, isDouble>>
vars == <<kind, isDouble, groups, groupStatistics, statistics, rows, unknownBounds, opened, failed>>

Init == /\ kind \in {"table", "file"}
        /\ isDouble \in BOOLEAN
        /\ groups = << >>
        /\ groupStatistics = << >>
        /\ statistics = Unknown
        /\ rows = 0
        /\ unknownBounds = FALSE
        /\ opened = (kind = "table")
        /\ failed = FALSE

FitsType(cells) == isDouble \/ NaN \notin Range(cells)

-----------------------------------------------------------------------------
\* Table::append copies the selected cells; an empty selection adds no group.
Dense(b) == [j \in DOMAIN b.selection |-> b.cells[b.selection[j]]]
Appendable(b) == /\ kind = "table"
                 /\ FitsType(b.cells)
                 /\ Dense(b) # << >>
                 /\ Len(groupStatistics) < MaxGroups

Append_(b) == /\ Appendable(b)
              /\ groups' = Append(groups, Dense(b))
              /\ groupStatistics' = Append(groupStatistics, Analyze(Dense(b)))
              /\ statistics' = Merge(statistics, Analyze(Dense(b)))
              /\ rows' = rows + Len(Dense(b))
              /\ UNCHANGED <<frozen, unknownBounds, opened, failed>>

\* group_statistics_.push_back throws bad_alloc: the batch is merged already.
\* Bound: one failure in the life of a table.
AppendFailsEarly(b) == /\ ~ failed
                       /\ Appendable(b)
                       /\ statistics' = Merge(statistics, Analyze(Dense(b)))
                       /\ failed' = TRUE
                       /\ UNCHANGED <<frozen, groups, groupStatistics, rows, unknownBounds, opened>>

\* groups_.push_back throws: only the group itself is missing.
AppendFailsLate(b) == /\ ~ failed
                      /\ Appendable(b)
                      /\ statistics' = Merge(statistics, Analyze(Dense(b)))
                      /\ groupStatistics' = Append(groupStatistics, Analyze(Dense(b)))
                      /\ rows' = rows + Len(Dense(b))
                      /\ failed' = TRUE
                      /\ UNCHANGED <<frozen, groups, unknownBounds, opened>>

-----------------------------------------------------------------------------
\* What the constructor takes over from the footer of a row group.
NullsKnown(footer) == footer.nulls # None
FromFooter(g) ==
  [rows |-> Len(g.cells),
   nulls |-> IF g.footer.nulls = None THEN 0 ELSE g.footer.nulls,
   nullsKnown |-> NullsKnown(g.footer),
   hasNaN |-> isDouble,
   minimum |-> g.footer.minimum,
   maximum |-> g.footer.maximum]

\* No bounds, and not because every cell is NULL.
NeverLacking(s) == FALSE                 \* mutant: the other groups' bounds kept
BoundsLacking(s) == /\ s.minimum = None \/ s.maximum = None
                    /\ ~ s.nullsKnown \/ s.rows # s.nulls

\* One turn of the loop over the row groups.
ReadRowGroup(g) == /\ kind = "file"
                   /\ ~ opened
                   /\ FitsType(g.cells)
                   /\ Len(groups) < MaxGroups
                   /\ groups' = Append(groups, g.cells)
                   /\ groupStatistics' = Append(groupStatistics, FromFooter(g))
                   /\ statistics' = Merge(statistics, FromFooter(g))
                   /\ unknownBounds' = (unknownBounds \/ BoundsLacking(FromFooter(g)))
                   /\ UNCHANGED <<frozen, rows, opened, failed>>

\* After the loop the file's bounds go when one group has none to give; the
\* number of rows is the footer's.
Open == /\ kind = "file"
        /\ ~ opened
        /\ opened' = TRUE
        /\ statistics' = IF unknownBounds
                         THEN [statistics EXCEPT !.minimum = None, !.maximum = None]
                         ELSE statistics
        /\ rows' = Len(FlattenSeq(groups))
        /\ UNCHANGED <<frozen, groups, groupStatistics, unknownBounds, failed>>

Next == \/ \E b \in Batches : Append_(b) \/ AppendFailsEarly(b) \/ AppendFailsLate(b)
        \/ \E g \in RowGroups : ReadRowGroup(g)
        \/ Open

Spec == Init /\ [][Next]_vars

-----------------------------------------------------------------------------
AllCells == FlattenSeq(groups)
Matches(cells, e) == \E x \in Range(cells) : Keeps(e, [c \in {"x"} |-> x])

\* docs/architecture.md: metadata pruning must never drop qualifying rows.
QualifyingRowsKept ==
  \A e \in Predicates, g \in DOMAIN groups :
    Matches(groups[g], e) => MayMatch(e, groupStatistics[g])

\* A group is never skipped when one of its rows satisfies the predicate: with
\* NULL, NaN, literals on either side, under AND, OR and NOT, and whatever the
\* footer does not say; as long as no append has failed half way.
PruningSound == ~ failed => QualifyingRowsKept

\* The same of the statistics of the whole source, which the planner reads; of
\* a table they hold even when appends have failed in the middle.
SourceStatisticsSound ==
  opened => \A e \in Predicates : Matches(AllCells, e) => MayMatch(e, statistics)

\* Merging group by group yields what one analysis of the whole table would,
\* and of a file the rows and, when every group states them, the NULLs.
StatisticsExact ==
  opened /\ ~ failed =>
    /\ rows = Len(AllCells) /\ statistics.rows = rows
    /\ statistics.nullsKnown => statistics.nulls = NullsIn(AllCells)
    /\ kind = "table" => statistics = Analyze(AllCells)

-----------------------------------------------------------------------------
\* The invariant that makes them so.
Bound == Int \cup {None}
ColumnStatistics == [rows : Nat, nulls : Nat, nullsKnown : BOOLEAN, hasNaN : BOOLEAN,
                     minimum : Bound, maximum : Bound]

\* The statistics count a cell and have room for a number.
Counts(s, x) == /\ s.nullsKnown => IF x = Null THEN s.nulls # 0 ELSE s.nulls # s.rows
                /\ x = NaN => s.hasNaN
Encloses(s, x) == x \in Int => /\ s.minimum # None /\ s.minimum <= x
                               /\ s.maximum # None /\ x <= s.maximum
Unbounded(s) == s.minimum = None \/ s.maximum = None
Admits(s, x) == Counts(s, x) /\ (Unbounded(s) \/ Encloses(s, x))

TypeOK ==
  /\ kind \in {"table", "file"} /\ isDouble \in BOOLEAN
  /\ groups \in Seq(Seq(Cell))
  /\ groupStatistics \in Seq(ColumnStatistics)
  /\ statistics \in ColumnStatistics
  /\ rows \in Nat
  /\ unknownBounds \in BOOLEAN /\ opened \in BOOLEAN /\ failed \in BOOLEAN

\* A table is open from the start and knows its bounds; only an append can fail.
KindsDiffer == /\ kind = "table" => opened /\ ~ unknownBounds
               /\ kind = "file" => ~ failed

GroupsAdmitted ==
  ~ failed => /\ Len(groupStatistics) = Len(groups)
              /\ \A g \in DOMAIN groups : \A x \in Range(groups[g]) : Admits(groupStatistics[g], x)

\* What is merged counts all the cells, and encloses them until some group had
\* no bounds to give; then the constructor drops the bounds before it returns.
AllCounted == /\ statistics.nulls <= statistics.rows
              /\ \A x \in Range(AllCells) : Counts(statistics, x)
AllEnclosed == IF unknownBounds THEN opened => Unbounded(statistics)
               ELSE \A x \in Range(AllCells) : Encloses(statistics, x)

MergedExactly ==
  ~ failed => /\ statistics.rows = Len(AllCells)
              /\ statistics.nullsKnown => statistics.nulls = NullsIn(AllCells)
              /\ opened => rows = Len(AllCells)
              /\ kind = "table" => statistics = Analyze(AllCells)

IInv == TypeOK /\ KindsDiffer /\ GroupsAdmitted /\ AllCounted /\ AllEnclosed /\ MergedExactly
=============================================================================
