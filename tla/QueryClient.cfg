SPECIFICATION FairSpec
CONSTANTS
    Tabs = {t1, t2}
    Busy = {t2}
    NumStatements = 2
    MaxLosses = 1
    None = None
    Asked = Asked
INVARIANTS
    StatementsListedOnce
    ListensWhileRunning
PROPERTIES
    SeesTheEnd
CHECK_DEADLOCK FALSE
