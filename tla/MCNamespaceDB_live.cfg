SPECIFICATION Spec
CONSTANTS
    Nodes <- SmallNodes
    Root = "root"
    DisplayName <- SmallDisplayName
    RqDepth = 0
    MaxSNS = 1
    Started = {}
    MaxFailures = 1
PROPERTIES
    EventuallyInDB
