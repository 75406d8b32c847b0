SPECIFICATION Spec
CONSTANTS
    a = a
    b = b
    num = num
    F = F
    U = U
    MaxNodes = 4
    Names = {a, b}
    Views = {v1, v2}
    Leaves = {num}
    Fill = fill
    Objects <- MCObjects
    Aliases <- MCAliases
    Registered = {F}
    Untagged = untagged
    MaxListed = 2
SYMMETRY Symmetry
VIEW Seen
PROPERTY
    Protected
CHECK_DEADLOCK FALSE
