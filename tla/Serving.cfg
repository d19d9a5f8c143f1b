\* Chunks of four bytes, two blocks each, and responses of up to five of them.
CONSTANTS
    a = a
    b = b
    c = c
    long = long
    Paths <- MCPaths
    Configs <- MCConfigs
    LongPaths <- MCLong
    MaxRoutes = 2
    Chunk = 4
    MaxChunks = 5
    MaxSidOffs = 5
    MaxFrameSize = 2
    PageSize = 8
    Http1Head = 2
    Hpack = 2
    SidAt = 1
    SidLen = 2
    Rewrites = {1, 6}
    CopyBlock = 2
    Messages <- MCMessages

SPECIFICATION Spec
INVARIANTS TypeOK ArenaHolds RewritesWhole AnswersWhatItCan
PROPERTIES ImplementsReply
CHECK_DEADLOCK FALSE
