CONSTANTS
    Conns = {a}
    NoConn = NoConn
    MayStall = {a}
    SubBuffer = 2
    SocketRoom = 1
    MaxChunks = 4
    MaxOutput = 2
    MaxQueries = 2
    InputRoom = 1
    MaxGestures = 2
    Columns = 2
    Rows = 2
    ClientRows = {2, 3, 5}
    MaxCommands = 7
SPECIFICATION OutputSpec
INVARIANTS
    OutputTypeOK
    ReplayIsFaithful
PROPERTIES
    PromiseSpec
    ReadLoopNeverBlocks
    EveryChunkArrives
    OutputIsPainted
