\* What the documentation says of pruning, when appends may fail.
CONSTANTS
    Null = Null
    NaN = NaN
    MaxInt = 3
    Height <- MCHeight
    Batches <- MCBatches
    RowGroups <- MCRowGroups
    Predicates <- MCPredicates
    MaxGroups = 2

SPECIFICATION Spec

INVARIANTS
    QualifyingRowsKept

\* A source holds at most MaxGroups groups here.
CHECK_DEADLOCK FALSE
