SPECIFICATION Spec
CONSTANTS
    Watched = {"connection", "lights"}
    TouchAt = 1
    HaltAt = 2
    Horizon = 3
    MaxBoots = 2
    MaxSessions = 3
INVARIANT TypeOK
PROPERTIES OfflineAfterPowerLoss Reconnects
CHECK_DEADLOCK FALSE
