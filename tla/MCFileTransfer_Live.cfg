SPECIFICATION FairSpec
CONSTANTS
    src = src
    torn = torn
    dst = dst
    c1 = c1
    c2 = c2
    Node = {src, torn, dst}
    Chunk = {c1, c2}
    Link <- Star
    Disk <- TornDisk
    Damaged <- TornChunk
    Seeder = {src}
    Downloader = {dst}
    Parallel = 1
    MaxDownloads <- OnceEach
    MaxTimeouts = 1
    MaxBreaks = 1
    MaxRestarts = 0
CHECK_DEADLOCK FALSE
INVARIANTS
    InFlightSound
    NeverIdle
PROPERTIES
    DownloadEnds
