\* Three connections behind one address.
SPECIFICATION FairSpec
CONSTANTS
    ip1 = ip1
    c1 = c1
    c2 = c2
    c3 = c3
    Ip = {ip1}
    BanMs = 2
    StrikeThreshold = 3
    StrikeWindowMs = 2
    RateLimit = 2
    RateWindowMs = 1
    Conn = {c1, c2, c3}
    IpOf <- OneIp
PROPERTIES
    BansEarned
    BanEnds
