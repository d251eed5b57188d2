CONSTANTS
    Conns = {tui, phone}
    NoConn = NoConn
    Sizes = {wide, narrow}
    NoSize = NoSize
    MaxRequests = 5
    Sids = {s, t}
    Sockets = {c1, c2, c3}
    Nobody = Nobody
    Desk = Desk
    MaxEvents = 2
SPECIFICATION SizesAndWebSpec
SYMMETRY Symmetry
INVARIANTS
    SizesAndWebTypeOK
    OnlyHoldersResize
    FlagsAgreeWhenSerial
    SizeFollowsOwnerWhenSerial
    NeverStranded
    TerminalOwnsSize
PROPERTIES
    NeverFreedUnderWatchers
    LeaseSpec
