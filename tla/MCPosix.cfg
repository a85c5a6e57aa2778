CONSTANTS
    t1 = t1
    t2 = t2
    NULL = NULL
    Threads = {t1, t2}
    Main = t1
    Streams = {f1, stdout}
    stdin = stdout
    stdout = stdout
    Program <- MCProgram
    Callees = {"malloc"}
    Callbacks = {"open64"}
    Counts = {1, 2}
    MaxNested <- MCNested
SPECIFICATION FairSpec
CHECK_DEADLOCK FALSE
INVARIANTS
    TypeOK
    FailsOnlyAtTop
    CountedOut
    InitNeverRecurses
    FerrorKeepsFailures
    NoStaleEntries
PROPERTY EveryCallReturns
