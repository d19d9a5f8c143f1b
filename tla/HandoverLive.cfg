\* Two requests under fair scheduling, for what must eventually happen.
CONSTANTS
    TableCap = 2
    MaxSync = 1
    MaxFlowFrames = 3
    MaxWindow = 4
    InitWindow = 2
    RouteLen = 0
    BodyLen = 0
    MaxReqs = 2
    MaxUpdates = 0
    MaxMsg = 3
    Entries <- OneEntry
    Windows <- OneWindow

SPECIFICATION FairSpec
PROPERTIES EventuallyTaken
CHECK_DEADLOCK FALSE
