SPECIFICATION Spec
CONSTANTS
    x = x
    i0 = i0
    i1 = i1
    i2 = i2
    key = key
    val = val
    shape = shape
    MaxNodes = 12
    MaxCalls = 2
    Names = {x, i0, i1, i2, key, val, shape}
    Keys = {x, i0}
    KeyName = key
    ValName = val
    ShapeName = shape
    Fill = fill
    TypeList <- MCTypes
    Inputs <- MCInputs
    Parts <- MCParts
    Index <- MCIndex
VIEW Seen
INVARIANTS
    TypeOK
    RoundTrip
    PartOnly
PROPERTY
    Untouched
CHECK_DEADLOCK FALSE
