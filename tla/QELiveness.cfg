SPECIFICATION FairSpec
CONSTANTS
    Reviews = {r1}
    Cancels = {c1}
    Cleanups = {k1}
    Submit = submit
    NoTask = NoTask
    NumStatements = 2
    Faults = {"engine", "host", "notify"}
    MaxCrashes = 1
INVARIANTS
    NoOrphan
    DoneComplete
PROPERTIES
    EventuallySettled
    TasksAcknowledged
CHECK_DEADLOCK FALSE
