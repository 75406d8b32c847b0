SPECIFICATION Spec
CONSTANTS
    path = path
    Paths <- MCPaths
    MaxFiles = 2
    MaxObjects = 3
    MaxChanges = 2
    MaxCrashes = 1
INVARIANTS
    TypeOK
    NothingLost
PROPERTIES
    OthersUndisturbed
    ImplementsDurable
    EventuallyClosed
CHECK_DEADLOCK FALSE
