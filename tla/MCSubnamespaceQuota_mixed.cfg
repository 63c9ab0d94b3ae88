SPECIFICATION Spec
CONSTANTS
    Nodes <- MCNodes
    Root = "root"
    DisplayName <- MCDisplayName
    RqDepth = 2
    Pools = {"c", "d"}
    InitialSpec <- A2OfTwo
    Requests <- AskNextToPool
    Loads = {}
    MaxUpdates = 0
    MaxFailures = 0
INVARIANTS
    FitsInParentWhenSettled
\* Nothing is left to do once the users' requests are used up and all is in force.
CHECK_DEADLOCK FALSE
