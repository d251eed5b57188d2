CONSTANTS
    Conns = {a, b}
    NoConn = NoConn
    MayStall = {}
    MaxSessions = 1
    MaxRequests = 3
SPECIFICATION Spec
PROPERTIES AttachedLearnTheEnd
