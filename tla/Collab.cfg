SPECIFICATION Spec
CONSTANTS
    d1 = d1
    d2 = d2
    c1 = c1
    c2 = c2
    Docs = {d1, d2}
    Cells = {c1, c2, c3}
    Tabs = {t1, t2}
    None = None
    Stored <- TwoAndNone
    MaxRequests = 2
    MaxLeaves = 1
SYMMETRY Symmetry
INVARIANTS
    CopiesConverge
    NoCellTwice
    CallsSettledByTheirEvents
CHECK_DEADLOCK FALSE
