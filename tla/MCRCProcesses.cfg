CONSTANTS
    p1 = p1
    p2 = p2
    NULL = NULL
    Pids = {p1, p2}
    First = p1
    Client = Client
    MaxForks = 2
    MaxFaults = 1
    MaxCmds = 2
SPECIFICATION FairSpec
CHECK_DEADLOCK FALSE
INVARIANTS
    TypeOK
    OwnPipes
    RemovedAtExit
    NoDeadEnds
PROPERTY EveryCommandReturns
