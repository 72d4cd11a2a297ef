SPECIFICATION Spec
CONSTANTS
    SegLen <- MCSegLen
    Bodies <- MCBodies
    Mirrors = {m1}
    NoMirror = NoMirror
    Topics <- TwoTypes
    Payloads <- Mixed
    AppSlots <- AllPistesSlots
    NestIn = {"any","type","error"}
    ReconfigureIn = {"setup"}
    MaxDepth = 3
    MaxDispatches = 3
INVARIANT ReturnIsOwnOutcome
CHECK_DEADLOCK FALSE
