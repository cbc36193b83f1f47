SPECIFICATION MCSpec
CONSTANTS
    WindowSize = 2
    BlockSize = 2
    ReadBufferMax = 3
    BudgetA = 6
    BudgetB = 1
    Budget <- Budgets
    SiWorlds <- Negotiations
    MaxChunks = 2
    ProxyLists <- Proxies
    MinProxies = 2
    CacheSize = 2
    MaxAsked = 3
    FileWorlds <- Transfers
    FileSize = 2
INVARIANTS
    StreamSound
    BytestreamsAgree
    TransfersTracked
PROPERTIES
    InBandEnds
    AreBytestreams
\* a bytestream or transfer that is over does nothing more
CHECK_DEADLOCK FALSE
