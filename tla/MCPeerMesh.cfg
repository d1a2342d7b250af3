\* A peer announced under its former identity, a manual connection the other
\* way, nodes that are stopped at any time.
SPECIFICATION FairSpec
CONSTANTS
    a = a
    b = b
    old = old
    Node = {a, b}
    Id = {a, b, old}
    Announced <- FormerKey
    Conn = {c1, c2, c3}
    Bootstrap <- BToA
    Stoppable = {a, b}
    MaxTimeouts = 1
    MaxBreaks = 1
    None = None
INVARIANTS
    TypeOK
    EntriesOpen
    AuthenticatedRoute
PROPERTIES
    EntryKept
    DialEnds
    PeersReached

\* A node whose only peer was stopped has nothing left to do.
CHECK_DEADLOCK FALSE
