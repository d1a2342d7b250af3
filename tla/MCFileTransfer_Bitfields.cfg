SPECIFICATION FairSpec
CONSTANTS
    src = src
    torn = torn
    dst = dst
    c1 = c1
    c2 = c2
    Node = {src, torn, dst}
    Chunk = {c1, c2}
    Link <- Star
    Disk <- RestartedDisk
    Damaged <- EmptyDisk
    Seeder = {}
    Downloader = {dst}
    Parallel = 1
    MaxDownloads <- OnceEach
    MaxTimeouts = 0
    MaxBreaks = 0
    MaxRestarts = 0
CHECK_DEADLOCK FALSE
PROPERTIES
    BitfieldsAsked
