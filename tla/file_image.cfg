SPECIFICATION Spec
CONSTANTS
    path = path
    Paths <- MCPaths
    MaxFiles = 2
    MaxObjects = 3
    MaxChanges = 2
    MaxCrashes = 1
PROPERTY
    ImageOpened
CHECK_DEADLOCK FALSE
