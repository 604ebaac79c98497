CONSTANTS
    k1 = k1  k2 = k2  k3 = k3  k4 = k4  k5 = k5
    NULL = NULL
    Keys = {k1, k2, k3, k4, k5}
    Vals = {v1, v2, v3, v4, v5}
    Hash <- MCHash
    PrefixOf <- None
    InitialSize = 4
    MaxChain = 2
SYMMETRY Symmetry
SPECIFICATION Spec
CHECK_DEADLOCK FALSE
INVARIANTS Counted OwnsValues
PROPERTY RefinesMap
