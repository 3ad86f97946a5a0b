SPECIFICATION Spec
CONSTANTS
    Docs = {d1, d2}
    Cells = {c1, c2, c3, c4}
    Authors = {a1, a2}
    NoDoc = NoDoc
    Nothing = Nothing
INVARIANTS
    Contiguous
PROPERTIES
    RequestsAreListOperations
SYMMETRY Symmetry
CHECK_DEADLOCK FALSE
CONSTRAINT NotTorn
