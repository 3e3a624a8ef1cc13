\* Two slots (a statement's own and another one), two functions, one nested call.
CONSTANTS
    COUNT_DB = 2
    BusyTimeout = 1000
    Timeouts <- MCTimeouts
    MaxDepth = 2
    f = f
    g = g
    FcnNames <- MCFcnNames
    NoFcn = NoFcn
SPECIFICATION FcnSpec
INVARIANTS FcnTypeOK FunctorsOfTheirDatabase NoRecursion PendingHasOwner
PROPERTIES StatementsKeepFunctions OnlyRefusedCloseDangles
SYMMETRY FcnSymmetry
VIEW FcnView
CHECK_DEADLOCK FALSE
