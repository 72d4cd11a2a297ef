SPECIFICATION Spec
CONSTANTS
    SegLen <- MCSegLen
    Bodies <- MCBodies
    Mirrors = {m1}
    NoMirror = NoMirror
    Topics <- TwoTypes
    Payloads <- Mixed
    AppSlots <- AllPistesSlots
    NestIn = {"type", "error"}
    ReconfigureIn = {"setup"}
    MaxDepth = 3
    MaxDispatches = 4
INVARIANT ViewsAgree
PROPERTY CallbackOrder
CHECK_DEADLOCK FALSE
