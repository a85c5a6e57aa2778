CONSTANTS
    n1 = n1
    c1 = c1
    NULL = NULL
    KnownFunctions = {"f"}
    Clients = {c1}
    Kind <- OnePipe
    Names = {n1}
    Lines = {"enable", "random", "disable", "word"}
    Chunks <- MCChunks
    Presets <- NoPresets
    MAX_ERRORS = 1
    MaxCmds <- Two
    MaxKills = 0
    MaxSignals = 0
SPECIFICATION Spec
CHECK_DEADLOCK FALSE
INVARIANT EveryCommandAnswered
