SPECIFICATION Spec
CONSTANTS
    SegLen <- MCSegLen
    Bodies <- MCBodies
    Mirrors = {m1, m2}
    NoMirror = NoMirror
    Topics <- OnePiste
    Payloads <- Mixed
    AppSlots <- OneTypeSlots
    NestIn = {"any", "type"}
    ReconfigureIn = {"setup", "idle", "any", "type", "error"}
    MaxDepth = 2
    MaxDispatches = 3
INVARIANTS TypeOK ReturnIsOwnOutcome ErrorExplained MirrorNotBehind
PROPERTY MirrorChangesOnlyByDelivery
SYMMETRY MirrorSymmetry
