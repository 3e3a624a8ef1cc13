\* A setting acts on the slot that is current, not on the one it names.
CONSTANTS
    COUNT_DB = 3
    BusyTimeout = 1000
    Timeouts <- MCTimeouts
    MaxDepth = 2
SPECIFICATION Spec
INVARIANT SettingsReachNamedSlot
CHECK_DEADLOCK FALSE
