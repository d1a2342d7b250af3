\* A handshake that times out, and a tick before its "close" event.
SPECIFICATION Spec
CONSTANTS
    a = a
    b = b
    old = old
    Node = {a, b}
    Id = {a, b, old}
    Announced <- FormerKey
    Conn = {c1, c2, c3}
    Bootstrap <- BToA
    Stoppable = {a, b}
    MaxTimeouts = 1
    MaxBreaks = 1
    None = None
INVARIANTS
    OneDialPerPeer

CHECK_DEADLOCK FALSE
