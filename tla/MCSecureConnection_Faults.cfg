\* An initiator that makes up frames, repeats them and sends back the other
\* side's, an oversize one among them; one rekey of each side; and what must
\* happen in the end.
SPECIFICATION FairSpec
CONSTANTS
    Body = {"a", "big"}
    Oversize = {"big"}
    RekeyEveryMsgs = 2
    MaxMsgPerSecond = 1
    Misbehaving = {"I"}
    Forged <- Forgeries
    NetErrors = FALSE
    UseAfterClose = FALSE
    MaxSend <- NoSends
    MaxRekey = 1
    MaxFrames = 5
    MaxAhead = 1
PROPERTIES
    StaleFramesEndSession
    HandshakeEnds
    RekeyEnds
    CloseReachesBoth
CHECK_DEADLOCK FALSE
