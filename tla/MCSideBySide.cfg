CONSTANTS
    Starters = {a, b}
    NoProcess = NoProcess
    MaxCrashes = 2
    MaxMoves = 1
    MaxKeys = 3
    MaxTaps = 2
    Callers = {g1, g2, g3}
    Nobody = Nobody
    MaxCalls = 4
    Agents = {shell, claude}
    Shell = shell
    Viewers = {v1, v2}
    MaxChanges = 3
    MaxVisits = 3
    Pages = {p1, p2}
    MaxRebinds = 2
    MaxPresses = 1
    MaxLinks = 3
SPECIFICATION SideSpec
SYMMETRY Symmetry
CHECK_DEADLOCK FALSE
INVARIANTS
    OneDaemon
    StopLeavesNothing
    SideTypeOK
    KeysInOrder
    TakeOverFirst
    RepliesMatch
    TitleIsCurrent
    PadTellsBinding
PROPERTIES
    OwnReach
    ReadyHasDaemon
