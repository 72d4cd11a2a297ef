SPECIFICATION Spec
CONSTANTS
    Watched = {"state"}
    TouchAt = 1
    HaltAt = 2
    Horizon = 3
    MaxBoots = 1
    MaxSessions = 2
PROPERTY BoutHalts
CHECK_DEADLOCK FALSE
