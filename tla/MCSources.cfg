\* Every table and every file of up to two row groups.
CONSTANTS
    Null = Null
    NaN = NaN
    MaxInt = 3
    Height <- MCHeight
    Batches <- MCBatches
    RowGroups <- MCRowGroups
    Predicates <- MCPredicates
    MaxGroups = 2

SPECIFICATION Spec

INVARIANTS
    PruningSound
    SourceStatisticsSound
    StatisticsExact

\* A source holds at most MaxGroups groups here.
CHECK_DEADLOCK FALSE
