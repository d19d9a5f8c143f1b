\* Requests that add up to two entries, of which a sync frame carries one.
CONSTANTS
    TableCap = 2
    MaxSync = 1
    MaxFlowFrames = 3
    MaxWindow = 4
    InitWindow = 2
    RouteLen = 0
    BodyLen = 0
    MaxReqs = 2
    MaxUpdates = 0
    MaxMsg = 3
    Entries <- UpToTwo
    Windows <- OneWindow

SPECIFICATION Spec
INVARIANTS SyncFits
CHECK_DEADLOCK FALSE
