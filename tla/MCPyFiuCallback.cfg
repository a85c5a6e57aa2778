CONSTANTS
    p1 = p1
    p2 = p2
    rc = rc
    n1 = n1
    n2 = n2
    NULL = NULL
    Python = {p1, p2}
    Others = {}
    Names = {n1, n2}
    Programs <- OnlyBoth
SPECIFICATION FairSpec
CHECK_DEADLOCK FALSE
PROPERTY EveryCallReturns
