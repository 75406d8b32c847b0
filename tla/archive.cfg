SPECIFICATION Spec
CONSTANTS
    a = a
    b = b
    num = num
    F = F
    U = U
    MaxNodes = 5
    Names = {a, b}
    Views = {v1, v2}
    Leaves = {num}
    Fill = fill
    Objects <- MCObjects
    Aliases <- MCAliases
    Registered = {F}
    Untagged = untagged
    MaxListed = 1
SYMMETRY Symmetry
VIEW Seen
INVARIANTS
    TypeOK
    Coherent
    CommitMark
    CopyFaithful
PROPERTIES
    StoreIsLocal
CHECK_DEADLOCK FALSE
