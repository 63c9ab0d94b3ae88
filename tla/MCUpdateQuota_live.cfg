SPECIFICATION UpqSpec
CONSTANTS
    Nodes <- MCNodes
    Root = "root"
    DisplayName <- MCDisplayName
    RqDepth = 1
    Pools = {}
    InitialSpec <- Full
    Requests <- NoRequests
    Loads = {}
    MaxUpdates = 0
    MaxFailures = 0
    Upqs <- OneUpq
    Source <- SourceRoot
    Dest <- DestC
    Amount <- Amount1
    SecondaryRoots = {}
    Unit = 1
    MaxTouches = 1
PROPERTIES
    UpqsTerminate
\* Nothing is left to do once every Updatequota has ended and all is in force.
CHECK_DEADLOCK FALSE
