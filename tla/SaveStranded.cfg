SPECIFICATION SSpec
CONSTANTS
    NumManagers = 1
    Fields = {context}
    MaxChanges = 2
    Faults = {"reject"}
INVARIANTS
    SkipsOnlyWhenCovered
CHECK_DEADLOCK FALSE
