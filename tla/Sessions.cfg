SPECIFICATION Spec
CONSTANTS
    Addrs = {a1, a2}
    MaxSessions = 2
    MaxPending = 2
    MaxGarbled = 1
INVARIANT RemovedOnlyIfGone
PROPERTIES DeadRemoved AddReturns
CHECK_DEADLOCK FALSE
