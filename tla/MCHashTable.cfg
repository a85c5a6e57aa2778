CONSTANTS
    k1 = k1
    k2 = k2
    k3 = k3
    k4 = k4
    NULL = NULL
    Keys <- MCKeys
    Hash <- MCHash
    Values = {v1, v2, v3, v4, v5}
    MIN_SIZE = 4
SPECIFICATION Spec
SYMMETRY Symm
CHECK_DEADLOCK FALSE
INVARIANTS
    TypeOK
    LookupFindsContents
    UsableSlots
    Ownership
PROPERTY MapSpec
