SPECIFICATION Spec
CONSTANTS
    MaxNodes = 4
    Names = {a, b}
    Handles = {h1, h2}
SYMMETRY Symmetry
INVARIANTS
    TypeOK
    Forest
PROPERTIES
    ThrowsCleanly
