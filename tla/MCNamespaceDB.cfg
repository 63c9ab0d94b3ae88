SPECIFICATION Spec
CONSTANTS
    Nodes <- MCNodes
    Root = "root"
    DisplayName <- MCDisplayName
    RqDepth = 1
    MaxSNS = 1
    Started = {"a"}
    MaxFailures = 1
INVARIANTS
    TypeOK
    AtMostOneEntry
    KeyedByFirst
    WithinMaxSNS
    DeletedIsNotInDB
