CONSTANTS
    Tables <- MCTables
    Limits = {0, 3, 9}
    Capacity = 2
    MaxAgain = 2

SPECIFICATION Spec

INVARIANTS
    IInv
    RowsInOrderAndOnce

PROPERTIES
    KeepsContract
