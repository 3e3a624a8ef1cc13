\* A refused close frees the functions of the statement that refuses it.
CONSTANTS
    COUNT_DB = 2
    BusyTimeout = 1000
    Timeouts <- MCTimeouts
    MaxDepth = 2
    f = f
    g = g
    FcnNames <- MCFcnNames
    NoFcn = NoFcn
SPECIFICATION FcnSpec
INVARIANT FunctorsOutliveStatements
CHECK_DEADLOCK FALSE
