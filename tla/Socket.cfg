SPECIFICATION FairSpec
CONSTANTS
    Docs = {d1, d2}
    Sockets = {s1, s2}
    None = None
    MaxOpens = 4
INVARIANTS
    OneSocket
    FollowsThePage
    EventsFindTheirDocument
PROPERTIES
    EventuallyFollowed
CHECK_DEADLOCK FALSE
