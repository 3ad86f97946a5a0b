SPECIFICATION Spec
CONSTANTS
    Reviews = {r1}
    Cancels = {}
    Cleanups = {}
    Submit = submit
    NoTask = NoTask
    NumStatements = 3
    Faults = {"engine", "log", "metadata", "notify", "process", "host", "expiry"}
    MaxCrashes = 2
PROPERTIES
    ImplementsLifecycle
    StatementsInOrder
CHECK_DEADLOCK FALSE
