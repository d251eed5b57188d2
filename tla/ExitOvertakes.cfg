CONSTANTS
    Conns = {a}
    NoConn = NoConn
    MayStall = {a}
    SubBuffer = 2
    SocketRoom = 1
    MaxChunks = 4
SPECIFICATION Spec
INVARIANTS
    NothingMissingAtTheEnd
