\* One connection of four frames or of another protocol, read in chunks of every size.
CONSTANTS
    Preface <- MCPreface
    HeaderLen = 3
    FcKind = 250
    DtKind = 251
    FlowLen = 2
    MaxSyncFrame = 2
    ReadChunk = 16
    MaxRoom = 4
    Inputs <- MCInputs

SPECIFICATION FairSpec
INVARIANTS TypeOK
PROPERTIES ImplementsFilter AllDelivered
CHECK_DEADLOCK FALSE
