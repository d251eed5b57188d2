CONSTANTS
    Conns = {a, b}
    NoConn = NoConn
    MayStall = {}
    MaxSessions = 1
    MaxRequests = 3
SPECIFICATION LivenessSpec
PROPERTIES
    SubscribersLearnTheEnd
    StreamsReturn
    EndedIsForgotten
    SignalEndsDaemon
