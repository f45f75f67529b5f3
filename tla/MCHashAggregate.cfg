\* Accumulators three bits wide, batches of two groups.
CONSTANTS
    k1 = k1
    k2 = k2
    k3 = k3
    Null = Null
    NaN = NaN
    GlobalKey = GlobalKey
    Inputs <- MCInputs
    MaxInt = 3
    Keys = {k1, k2, k3}
    Capacity = 2

SPECIFICATION Spec

INVARIANTS
    IInv
    StatesExact

PROPERTIES
    CountThrowsAtTheLimit
    KeepsContract
