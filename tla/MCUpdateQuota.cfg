SPECIFICATION UpqSpec
CONSTANTS
    Nodes <- MCNodes
    Root = "root"
    DisplayName <- MCDisplayName
    RqDepth = 1
    Pools = {}
    InitialSpec <- Full
    Requests <- NoRequests
    Loads = {}
    MaxUpdates = 0
    MaxFailures = 1
    Upqs <- MCUpqs
    Source <- MCSource
    Dest <- MCDest
    Amount <- MCAmount
    SecondaryRoots = {}
    Unit = 1
    MaxTouches = 0
INVARIANTS
    UpqTypeOK
    
    WaitPreventsRaces
    CompleteMeansMoved
    
    FitsInParentWhenSettled
\* Nothing is left to do once every Updatequota has ended and all is in force.
CHECK_DEADLOCK FALSE
