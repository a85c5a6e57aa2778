CONSTANTS
    n1 = n1
    c1 = c1
    NULL = NULL
    KnownFunctions = {"f"}
    Clients = {c1}
    Kind <- OneCtrl
    Names = {n1}
    Lines = {"enable", "random", "stack", "disable", "word", "empty", "long", "exact"}
    Chunks <- MCChunks
    Presets <- NoPresets
    MAX_ERRORS = 1
    MaxCmds <- Three
    MaxKills = 0
    MaxSignals = 1
SPECIFICATION FairSpec
CHECK_DEADLOCK FALSE
INVARIANTS
    ReportIsTrue
    LatestCommandHolds
    EveryCommandAnswered
    ProcessSurvives
PROPERTY EveryCommandReturns
