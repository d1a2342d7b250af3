\* Two honest endpoints: messages both ways, one that is too long, the session
\* rate limit, closes, a connection that breaks.
SPECIFICATION Spec
CONSTANTS
    Body = {"a", "big"}
    Oversize = {"big"}
    RekeyEveryMsgs = 2
    MaxMsgPerSecond = 1
    Misbehaving = {}
    Forged = {}
    NetErrors = TRUE
    UseAfterClose = TRUE
    MaxSend <- TwoAndOne
    MaxRekey = 1
    MaxFrames = 0
    MaxAhead = 0
INVARIANTS
    TypeOK
    HonestFramesAccepted
    KeysInPhase
    CloseIsLast
    OneRekeyAtATime
    CleanEndLosesNothing
PROPERTIES
    ImplementsChannel
CHECK_DEADLOCK FALSE
