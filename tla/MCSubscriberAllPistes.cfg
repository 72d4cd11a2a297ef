SPECIFICATION Spec
CONSTANTS
    SegLen <- MCSegLen
    Bodies <- MCBodies
    Mirrors = {m1}
    NoMirror = NoMirror
    Topics <- TwoPistes
    Payloads <- Valid
    AppSlots <- AllPistesSlots
    NestIn = {}
    ReconfigureIn = {"setup"}
    MaxDepth = 3
    MaxDispatches = 4
INVARIANT MirrorOfOnePiste
CHECK_DEADLOCK FALSE
