\* Each column is filled by reset(n) and set() or by appending.
CONSTANTS
    Objects = {x, y}
    Width = 2
    MaxRows = 3
    Strings <- MCStrings
    ArenaLimit = 3

SPECIFICATION Spec

INVARIANTS
    IInv
    NullCountExact

PROPERTIES
    ImplementsCells
