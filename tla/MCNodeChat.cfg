\* Two peers, two polls under way at once, one text and its reply, one failure.
SPECIFICATION FairSpec
CONSTANTS
    Peer = {p, q}
    MaxPolls = 2
    MaxTexts = 1
    MaxBreaks = 1
    Twice = {p}
INVARIANTS
    TypeOK
PROPERTIES
    ShownIsSelected
    AsksEnd
    CatchesUp
CHECK_DEADLOCK FALSE
