SPECIFICATION FairSSpec
CONSTANTS
    NumManagers = 2
    Fields = {context, meta}
    MaxChanges = 4
    Faults = {"reject", "silent"}
INVARIANTS
    OneAtATime
    ResolvedIsSaved
    WarnsBeforeLoss
PROPERTIES
    OnlyFailuresStrand
    SavingEnds
    EventuallySaved
CONSTRAINT
    Bounded
CHECK_DEADLOCK FALSE
