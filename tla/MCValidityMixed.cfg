\* Rows made by reset(n) may be followed by appended ones.
CONSTANTS
    Objects = {x, y}
    Width = 3
    MaxRows = 4
    Mixed = TRUE

SPECIFICATION Spec

INVARIANTS
    NullCountExact
