\* Eleven expressions, one of them ill-typed.
CONSTANTS
    Null = Null
    NaN = NaN
    MaxInt = 3
    Types <- MCTypes
    Height <- MCHeight
    Roots <- MCRoots
    Batches <- MCBatches
    Lanes = 2

SPECIFICATION Spec

INVARIANTS
    TypeOK
    SelectedRowsEvaluated
    ThrowsOnlyWithoutRows
