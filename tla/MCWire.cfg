CONSTANTS
    Word = 1048576
    Low = 4
    MaxCalls = 2
    Bodies = {}
    SegLen <- MCSegLen
    Senders <- MCSenders
    Structs <- MCStructs
    Others <- MCOthers
SPECIFICATION Spec
INVARIANTS TypeOK ReceivedAsSent AddressedAsMeant NotMistaken RelayFaithful TimesAgree ReusedAsSent
