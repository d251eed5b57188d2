CONSTANTS
    MaxSids = 1
    MaxViews = 2
    MaxKeys = 3
    MaxFlags = 3
    ActiveRoom = 1
    HistoryLimit = 4
    RowsPerNotch = 2
    MaxLines = 5
    maxFrameBytes = 2
    ReplayBytes = {0, 2, 3}
    MaxWrites = 2
SPECIFICATION ClientsSpec
CHECK_DEADLOCK FALSE
INVARIANTS
    ClientsTypeOK
    StaysListening
    OneConnection
    FrameFollowsFlags
    ReaderKeepsPlace
    FramesIntact
    ReplayRestoresModes
PROPERTIES
    EndedViewIsLeft
