SPECIFICATION Spec
CONSTANTS
    Nodes <- MCNodes
    Root = "root"
    DisplayName <- MCDisplayName
    RqDepth = 1
    Pools = {"c", "d"}
    InitialSpec <- A2OfTwo
    Requests <- AskTight
    Loads = {1}
    MaxUpdates = 1
    MaxFailures = 1
INVARIANTS
    TypeOK
    CreatedHasQuotaObject
    FitsInParentWhenSettled
\* Nothing is left to do once the users' requests are used up and all is in force.
CHECK_DEADLOCK FALSE
