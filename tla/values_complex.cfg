SPECIFICATION Spec
CONSTANTS
    a = a
    b = b
    nul = nul
    NUL = nul
    MaxCalls = 1
    MaxChunk = 32
    Fill = 999
    PyObjects <- MCPyObjects
    Scalars <- MCScalars
    Lengths = {0, 1, 3}
    Texts <- MCTexts
    TextLists <- MCTextLists
    TextTables <- MCTextTables
    Variants <- MCVariants
    Slices <- MCSlices
    Targets <- MCTargets
    ForeignObjects <- MCForeignObjects
INVARIANT
    ComplexArraysExact
CHECK_DEADLOCK FALSE
