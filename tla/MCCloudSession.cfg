\* One redirect, and the default no-video budget.
CONSTANTS
    MaxSockets = 2
    HasDeadline = TRUE
SPECIFICATION Spec
CHECK_DEADLOCK FALSE
INVARIANTS NoMissedWakeup WokenBeforeClose
PROPERTIES KeepsContract NoVideoEnds StreamEndEnds PumpEndsToo
