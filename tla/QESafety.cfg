SPECIFICATION Spec
CONSTANTS
    Reviews = {r1}
    Cancels = {c1}
    Cleanups = {k1}
    Submit = submit
    NoTask = NoTask
    NumStatements = 2
    Faults = {"engine", "log", "redis", "metadata", "notify", "process", "host", "expiry", "inspect"}
    MaxCrashes = 1
INVARIANTS
    TypeOK
    AtMostOnce
    StartedOnlyApproved
    ErrorExplained
CHECK_DEADLOCK FALSE
