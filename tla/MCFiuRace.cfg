CONSTANTS
    n1 = n1
    w1 = w1
    NULL = NULL
    Finals = {n1}
    Wildcards = {w1}
    Matches <- MCMatches
    Threads = {t1, t2, t3}
    Pfs = {p1, p2, p3}
    Infos = {1}
    Methods = {"always"}
    CallbackChanges = {}
    MaxCalls = 2
SPECIFICATION Spec
SYMMETRY Symm
CHECK_DEADLOCK FALSE
INVARIANTS
    TypeOK
    NoUseAfterFree
    OnetimeExclusive
    RecursionGuard
PROPERTY APISpec
