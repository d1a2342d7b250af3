SPECIFICATION Spec
CONSTANTS
    src = src
    torn = torn
    dst = dst
    c1 = c1
    c2 = c2
    Node = {src, torn, dst}
    Chunk = {c1, c2}
    Link <- Star
    Disk <- TornDisk
    Damaged <- TornChunk
    Seeder = {src}
    Downloader = {dst, torn}
    Parallel = 2
    MaxDownloads <- TwiceDst
    MaxTimeouts = 0
    MaxBreaks = 0
    MaxRestarts = 1
CHECK_DEADLOCK FALSE
INVARIANTS
    TypeOK
    InFlightSound
    RequestsServable
    DownloadIntact
