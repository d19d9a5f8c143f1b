\* A request bundled behind another frame, and two more: the table of a sync frame
\* against the table the next request was encoded with.
CONSTANTS
    TableCap = 2
    MaxSync = 1
    MaxFlowFrames = 3
    MaxWindow = 4
    InitWindow = 2
    RouteLen = 0
    BodyLen = 0
    MaxReqs = 3
    MaxUpdates = 0
    MaxMsg = 3
    Entries <- OneEntry
    Windows <- OneWindow

SPECIFICATION Spec
INVARIANTS SyncIsTable
CHECK_DEADLOCK FALSE
