CONSTANTS
    t1 = t1
    t2 = t2
    NULL = NULL
    Threads = {t1}
    Main = t1
    Streams = {f1, stdout}
    stdin = stdout
    stdout = stdout
    Program <- PipeProgram
    Callees = {"malloc"}
    Callbacks = {}
    Counts = {1}
    MaxNested <- NoNested
SPECIFICATION Spec
CHECK_DEADLOCK FALSE
INVARIANT NoStaleEntries
