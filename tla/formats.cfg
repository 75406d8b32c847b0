SPECIFICATION Spec
CONSTANTS
    python = python
    list = list
    gf = gf
    im = im
    note = note
    nul = nul
    NUL = nul
    MaxChunk = 1
    Fill = 0
    MaxPatterns = 3
    Tags <- MCTags
    ClassOf <- MCClassOf
    Builtin <- MCBuiltin
    BuiltinPatterns <- MCBuiltinPatterns
    Patterns <- MCPatterns
    Notes <- MCNotes
INVARIANTS
    TypeOK
    NeverMisread
    AssertAgrees
PROPERTIES
    ReadableStays
    TagOnce
