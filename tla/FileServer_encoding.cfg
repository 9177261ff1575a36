SPECIFICATION Spec
CONSTANTS
    c1 = c1
    c2 = c2
    Conns <- MCConns
    Paths <- MCPaths
    Files <- MCFilesGz
    Variant <- MCVariantGz
    Requests <- MCRequestsGz
    Lengths = {0, 2, 3}
    MaxClock = 3
    MaxU64 = 7
    TicksPerSecond = 1
    MemoryCache = TRUE
    MaxFileSize = 2
    CompressionStatic = TRUE
    InPlaceWrites = TRUE
    BlockSize = 1
    BufReaderSize = 2
SYMMETRY MCSymmetry
INVARIANTS
    EncodingAnnounced
