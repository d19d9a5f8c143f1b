\* A request is answered and the next cannot be parsed: what the connection is
\* left with.
CONSTANTS
    TableCap = 2
    MaxSync = 1
    MaxFlowFrames = 3
    MaxWindow = 4
    InitWindow = 2
    RouteLen = 0
    BodyLen = 0
    MaxReqs = 2
    MaxUpdates = 0
    MaxMsg = 3
    Entries <- OneEntry
    Windows <- OneWindow

SPECIFICATION Spec
INVARIANTS LeftDecodesRight
CHECK_DEADLOCK FALSE
