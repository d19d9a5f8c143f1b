\* Three requests that each may add an entry to tables with room for two.
CONSTANTS
    TableCap = 2
    MaxSync = 1
    MaxFlowFrames = 3
    MaxWindow = 4
    InitWindow = 2
    RouteLen = 0
    BodyLen = 0
    MaxReqs = 3
    MaxUpdates = 0
    MaxMsg = 3
    Entries <- OneEntry
    Windows <- OneWindow

SPECIFICATION Spec
INVARIANTS DecodesRight
PROPERTIES HandshakeFirst Dispatches
CHECK_DEADLOCK FALSE
