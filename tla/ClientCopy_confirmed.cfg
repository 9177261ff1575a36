SPECIFICATION CSpec
CONSTANTS
    Conns = {1, 2}
    Client = 1
    Page = "page"
    Paths <- MCFiles
    Files <- MCFiles
    Variant <- MCVariant
    Requests <- MCRequests
    Lengths = {0, 2}
    MaxClock = 3
    MaxU64 = 7
    TicksPerSecond = 2
    MemoryCache = TRUE
    MaxFileSize = 2
    CompressionStatic = FALSE
    InPlaceWrites = TRUE
    BlockSize = 1
    BufReaderSize = 2
INVARIANTS
    ConfirmedCopyExact
    ConfirmedToTheSecond
    CopyNotOlder
