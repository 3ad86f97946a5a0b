SPECIFICATION Spec
CONSTANTS
    Reviews = {}
    Cancels = {c1}
    Cleanups = {}
    Submit = submit
    NoTask = NoTask
    NumStatements = 2
    Faults = {}
    MaxCrashes = 0
PROPERTIES
    AbortHonoured
CHECK_DEADLOCK FALSE
