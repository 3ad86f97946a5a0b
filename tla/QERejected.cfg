SPECIFICATION Spec
CONSTANTS
    Reviews = {r1, r2}
    Cancels = {}
    Cleanups = {}
    Submit = submit
    NoTask = NoTask
    NumStatements = 2
    Faults = {}
    MaxCrashes = 0
INVARIANTS
    RejectedNeverStarts
CHECK_DEADLOCK FALSE
