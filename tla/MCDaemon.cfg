CONSTANTS
    Conns = {a, b}
    NoConn = NoConn
    MayStall = {b}
    MaxSessions = 2
    MaxRequests = 3
    Procs = {p, q, r}
    Own = {s}
    MaxLists = 2
SPECIFICATION DaemonSpec
INVARIANTS
    DaemonTypeOK
    KilledIsDead
    EndNoticeIsFinal
PROPERTIES
    OwnedNeverOffered
