\* A window update for what the server sent, after which the client has back all
\* it gave: conn_window against the window.
CONSTANTS
    TableCap = 1
    MaxSync = 1
    MaxFlowFrames = 2
    MaxWindow = 3
    InitWindow = 2
    RouteLen = 1
    BodyLen = 1
    MaxReqs = 2
    MaxUpdates = 2
    MaxMsg = 2
    Entries <- NoEntries
    Windows <- TwoWindows

SPECIFICATION Spec
INVARIANTS WindowRestored
CHECK_DEADLOCK FALSE
