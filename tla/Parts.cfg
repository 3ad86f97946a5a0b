CONSTANTS
    None = None
    Docs = {d1, d2}
    MaxInjections = 2
    MaxRuns = 2
    Limits = {1, 2, 3}
    MaxFetches = 4
    Searches = {q, s1, s2}
    Unsent = {q}
    Pages = {0, 1}
    MaxSearches = 4
    TableSearches = {s1, s2}
    InitialSearch = s1
    Orders = {o1, o2}
    DefaultOrder = o1
    Batches = 3
    MaxTableRequests = 4
    Things <- BoardThings
    Listed <- ListedThings
    MaxBoardCalls = 3
    MaxVersion = 4
    Values = {v1, v2, v3}
    MaxLength = 5
    Times = {0, 1}
    Days = {1, 2}
    Names = {a, b}
    First = {a}
    MaxTime = 2
    MaxChanges = 2
    MaxFires = 2
    MaxCalls = 4
    MaxCells = 3

SPECIFICATION Spec

INVARIANTS
    KernelServesItsRuns
    ResultsBelongToTheSearch
    ListsArePrefixes
    PageListsTheBoard
    PageShowsTheCell
    OwnerHasWhatIsShown
    SplitsTheQuery
    EditorKeepsTheSchedule
    BeatFollowsTheTable
    EveryCallIsServed
    RecordTellsTheOutcome
PROPERTIES
    NeverShrinks

CHECK_DEADLOCK FALSE
