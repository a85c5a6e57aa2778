CONSTANTS
    n1 = n1
    c1 = c1
    NULL = NULL
    KnownFunctions = {"f"}
    Clients = {c1}
    Kind <- OnePipe
    Names = {n1}
    Lines = {"enable", "disable", "word", "long", "exact"}
    Chunks <- MCChunks
    Presets <- MCPresets
    MAX_ERRORS = 0
    MaxCmds <- Two
    MaxKills = 1
    MaxSignals = 2
SPECIFICATION FairSpec
CHECK_DEADLOCK FALSE
INVARIANTS
    TypeOK
    ExecutedInOrder
PROPERTY EveryCommandReturns
