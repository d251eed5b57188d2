CONSTANTS
    MaxSids = 1
    MaxViews = 2
    MaxKeys = 3
    MaxFlags = 3
    ActiveRoom = 1
SPECIFICATION Spec
CHECK_DEADLOCK FALSE
PROPERTIES
    LeftOnlyWhenEnded
