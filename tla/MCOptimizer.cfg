\* Every plan of up to three nodes over a scan.
CONSTANTS
    Null = Null
    NaN = NaN
    MaxInt = 3
    Queries <- MCQueries
    Sources <- MCSources

SPECIFICATION Spec

INVARIANTS
    TypeOK
    SchemaUnchanged
    ResultUnchanged
    SkippedRowsNotMissed
    RulesExhausted

\* A lowered plan is final.
CHECK_DEADLOCK FALSE
