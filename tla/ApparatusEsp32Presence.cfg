SPECIFICATION Spec
CONSTANTS
    Watched = {"connection"}
    TouchAt = 1
    HaltAt = 2
    Horizon = 3
    MaxBoots = 1
    MaxSessions = 2
INVARIANT PresentIsOnline
CHECK_DEADLOCK FALSE
