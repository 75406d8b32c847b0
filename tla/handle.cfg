SPECIFICATION Spec
CONSTANTS
    Ids = {i1, i2, i3}
    Objs = {o1, o2, o3}
    NoId = NoId
    BadId = BadId
INVARIANTS
    TypeOK
    Counted
PROPERTY
    ImplementsOwnership
