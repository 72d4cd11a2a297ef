SPECIFICATION SystemSpec
CONSTANTS
    Watched = {"state", "score"}
    TouchAt = 1
    HaltAt = 2
    Horizon = 2
    MaxInstances = 1
    MaxSessions = 2
    Topics <- PisteTopics
    Contents <- PisteContents
    NoValue = "nothing"
    SubscribedQos = 1
    MaxSubs = 2
    MaxInbox = 2
INVARIANTS SystemTypeOK SettledMirror ViewersSeeHalt HaltIsFinal
PROPERTY MirrorFollows
CHECK_DEADLOCK FALSE
