\* Two columns and up to two appends that throw.
CONSTANTS
    Columns = 2
    Capacity = 3
    MaxRows = 5
    MaxThrows = 2

SPECIFICATION Spec

INVARIANTS
    ValidatedRowsWhole
    StoredRowsWhole
    IndexNamesStoredRows

\* The source rows are bounded.
CHECK_DEADLOCK FALSE
