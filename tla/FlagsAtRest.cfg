CONSTANTS
    Conns = {tui, phone}
    NoConn = NoConn
    Sizes = {wide, narrow}
    NoSize = NoSize
    MaxRequests = 4
SPECIFICATION HistorySpec
INVARIANTS FlagsAgreeAtRest
