SPECIFICATION Spec
CONSTANTS
    MaxNodes = 3
    Names = {a, b}
    Handles = {h1, h2}
SYMMETRY Symmetry
PROPERTY
    SoftlinkHasTarget
