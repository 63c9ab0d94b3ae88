SPECIFICATION Spec
CONSTANTS
    Nodes <- MCNodes
    Root = "root"
    DisplayName <- MCDisplayName
    InitialHard <- MCHard
    SecondaryRoots = {}
    RqDepth = 1
    MaxSNS = 3
    MaxFailures = 1
    MaxTouches = 0
    MaxIncreases = 2
INVARIANTS
    KeepsSubnamespace
