CONSTANTS
    Keys = {k1, k2}
    NullKey = NullKey
    MaxRows = 3
    Inputs <- MCInputs
    Capacity = 2
    ChildCapacity = 2

SPECIFICATION Spec

INVARIANTS
    IInv
    ChainsInOrder
    PairsGenuineAndOnce

PROPERTIES
    KeepsContract
