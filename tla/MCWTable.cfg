CONSTANTS
    NULL = NULL
    Finals <- MCFinals
    Wildcards <- MCWildcards
    Matches <- MCMatches
    Hash <- MCHash
    Readers = {r1, r2}
    Incarnations <- MCIncarnations
    MIN_SIZE = 2
SPECIFICATION Spec
SYMMETRY ReaderSymm
CHECK_DEADLOCK FALSE
INVARIANTS
    TypeOK
    CacheCoherent
    AlwaysSpace
    Ownership
PROPERTY TableSpec
