CONSTANTS
    Rows = {r1, r2}
    Keys = {k1, k2, k3}
    NoKey = NoKey
    MaxStarts = 4
SYMMETRY AnyKey
SPECIFICATION Spec
INVARIANTS
    NothingLost
    NoForeignWal
PROPERTIES
    ImplementsStoredData
