SPECIFICATION Spec
CONSTANTS
    Nodes <- MCNodes
    Root = "root"
    Parent <- MCParent
    Names = {"x"}
    Subject <- MCSubject
    ServiceAccounts = {}
    MaxOps = 2
    MaxFailures = 1
INVARIANTS
    TypeOK
    NoOrphanNamespaces
    NoOrphanRoleBindings
    
    CleanUpIsComplete
    CopiedToChildren
    

    
\* Nothing is left to do once the users are done and all is quiet.
CHECK_DEADLOCK FALSE
