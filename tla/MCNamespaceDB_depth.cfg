SPECIFICATION Spec
CONSTANTS
    Nodes <- Chain
    Root = "root"
    DisplayName <- ChainDisplayName
    RqDepth = 1
    MaxSNS = 20
    Started <- NineLevels
    MaxFailures = 1
INVARIANTS
    KeyIsTheFirst
