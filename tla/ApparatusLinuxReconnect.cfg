SPECIFICATION Spec
CONSTANTS
    Watched = {"state"}
    TouchAt = 1
    HaltAt = 2
    Horizon = 2
    MaxInstances = 1
    MaxSessions = 2
INVARIANT NotWaitingInBout
CHECK_DEADLOCK FALSE
