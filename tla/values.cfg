SPECIFICATION Spec
CONSTANTS
    a = a
    b = b
    nul = nul
    NUL = nul
    MaxCalls = 2
    MaxChunk = 32
    Fill = 999
    PyObjects <- MCPyObjects
    Scalars <- MCScalars
    Lengths = {0, 1, 3}
    Texts <- MCTexts
    TextLists <- MCTextLists
    TextTables <- MCTextTables
    Variants <- MCVariants
    Slices <- MCSlices
    Targets <- MCTargets
    ForeignObjects <- MCForeignObjects
INVARIANTS
    TypeOK
    ArraysExact
    PlacedExactly
    PyRoundTrip
    ChunkFits
    ComplexEveryWay
    VectorsExact
    TextsRoundTrip
    AttributeExact
PROPERTY
    SliceLocal
CHECK_DEADLOCK FALSE
