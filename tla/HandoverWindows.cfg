\* Windows of a few bytes that two requests and two updates use up and refill.
CONSTANTS
    TableCap = 1
    MaxSync = 1
    MaxFlowFrames = 2
    MaxWindow = 2
    InitWindow = 1
    RouteLen = 1
    BodyLen = 1
    MaxReqs = 2
    MaxUpdates = 2
    MaxMsg = 2
    Entries <- NoEntries
    Windows <- ZeroOrOne

SPECIFICATION Spec
INVARIANTS TypeOK AccountsBalance WindowBounded NeverOverdrawn
PROPERTIES AnswersFit
CHECK_DEADLOCK FALSE
