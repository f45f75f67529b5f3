\* One key over one cell, two keys over two; batches of two rows.
CONSTANTS
    Null = Null
    NaN = NaN
    Inputs <- MCInputs
    SortKeys <- MCSortKeys
    Capacity = 2

SPECIFICATION Spec

INVARIANTS
    IInv
    ComparatorIsStrictWeak
    RowsInOrderAndOnce

PROPERTIES
    KeepsContract
