\* One close() against a rekey of the peer.
SPECIFICATION Spec
CONSTANTS
    Body = {"a"}
    Oversize = {}
    RekeyEveryMsgs = 1
    MaxMsgPerSecond = 1
    Misbehaving = {}
    Forged = {}
    NetErrors = FALSE
    UseAfterClose = FALSE
    MaxSend <- OneEach
    MaxRekey = 1
    MaxFrames = 0
    MaxAhead = 0
INVARIANTS
    CloseIsClean
CHECK_DEADLOCK FALSE
