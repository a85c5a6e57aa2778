CONSTANTS
    n1 = n1
    w1 = w1
    NULL = NULL
    Finals = {n1}
    Wildcards = {}
    Matches = {}
    Threads = {t1, t2}
    Pfs = {p1, p2, p3}
    Infos = {1, 2}
    Methods = {"prob", "external"}
    CallbackChanges = {"info"}
    MaxCalls = 2
SPECIFICATION FairSpec
CHECK_DEADLOCK FALSE
INVARIANT FailinfoOfOnetime
PROPERTY EveryCallReturns
