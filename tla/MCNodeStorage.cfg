\* A file of two chunks and one of one, two peers to approve, three faults.
SPECIFICATION Spec
CONSTANTS
    f1 = f1
    f2 = f2
    c1 = c1
    c2 = c2
    c3 = c3
    File = {f1, f2}
    Chunk = {c1, c2, c3}
    FileOf <- TwoFiles
    Contact = {p1, p2}
    MaxSeeds = 2
    MaxFaults = 3
INVARIANTS
    TypeOK
    StableIdentity
    IndexSound
    SavedKept
    SeedRepairs
CHECK_DEADLOCK FALSE
