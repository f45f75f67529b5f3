\* HashJoin's use, every row stored and the first of each key indexed; until a
\* key comes again it is HashAggregate's.
CONSTANTS
    a = a
    b = b
    c = c
    d = d
    e = e
    Keys <- MCKeys
    HashOf <- MCHashes
    InitialCapacity = 2
    StoresDuplicates = TRUE
    MaxRows = 6

SPECIFICATION Spec

INVARIANTS
    TypeOK
    EntriesReachable
    OccupancyBounded
    MissMeansAbsent
    IInv
    FirstRowIndexed

PROPERTIES
    ImplementsDirectory
    CallsReturn
