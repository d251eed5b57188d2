CONSTANTS
    MaxOutput = 2
    MaxQueries = 2
    InputRoom = 1
    MaxGestures = 1
SPECIFICATION TermSpec
CHECK_DEADLOCK FALSE
PROPERTIES
    CloseReturns
