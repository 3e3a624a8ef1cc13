\* Three slots: a named one, another one, and one more for "the least free".
\* The system stops where the code has no defined behaviour (crashed).
CONSTANTS
    COUNT_DB = 3
    BusyTimeout = 1000
    Timeouts <- MCTimeouts
    MaxDepth = 2
SPECIFICATION Spec
INVARIANTS TypeOK StatementsKeepConnection CrashesAreKnown
PROPERTIES OpenZeroSparesOthers OpenIsAllOrNothing OnlyNamedSlotChanges TableSpec
VIEW StateView
CHECK_DEADLOCK FALSE
