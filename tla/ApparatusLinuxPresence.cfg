SPECIFICATION Spec
CONSTANTS
    Watched = {"connection"}
    TouchAt = 1
    HaltAt = 2
    Horizon = 3
    MaxInstances = 2
    MaxSessions = 3
INVARIANTS TypeOK PresentIsOnline
PROPERTIES OnlineNoticed OfflineAfterExit BoutHalts
CHECK_DEADLOCK FALSE
