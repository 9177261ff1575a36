SPECIFICATION FairSpec
CONSTANTS
    c1 = c1
    c2 = c2
    Conns <- MCConns
    Paths <- MCPaths
    Files <- MCFiles
    Variant <- MCVariant
    Requests <- MCRequestsKinds
    Lengths = {0, 2}
    MaxClock = 2
    MaxU64 = 7
    TicksPerSecond = 1
    MemoryCache = TRUE
    MaxFileSize = 2
    CompressionStatic = FALSE
    InPlaceWrites = FALSE
    BlockSize = 1
    BufReaderSize = 2
INVARIANTS
    ReplaceNeverTears

    
