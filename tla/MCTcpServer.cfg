SPECIFICATION Spec
CONSTANTS
    ip1 = ip1
    p1 = p1
    p2 = p2
    p3 = p3
    c1 = c1
    c2 = c2
    Ip = {ip1}
    BanMs = 2
    StrikeThreshold = 2
    StrikeWindowMs = 2
    RateLimit = 2
    RateWindowMs = 1
    Packet = {p1, p2, p3}
    KeyOf <- OwnKeys
    ReplayWindowMs = 1
    MaxEntries = 2
    Conn = {c1, c2}
    IpOf <- OneIp
    MaxPacketsPerSecond = 1
SYMMETRY Symmetry
INVARIANTS
    TypeOK
    NoReplayAccepted
    CacheSound
    RateBound
PROPERTIES
    BanJustified
