CONSTANTS
    Threads = {t1, t2}
    ImageIds = {i1}
    Lifetimes = {}
    ContribLists = {empty}
    KeywordLists = {k1}
    EmptyList = empty
    None = None
    Requests <- KeywordsRequests
    ValidAge = 1
    MaxTime = 3
    MaxRecords = 3
SPECIFICATION MCSpec
SYMMETRY Symmetry
INVARIANTS
    TypeOK
    SuccessIsApplied
PROPERTIES
    NoEarlyRepeat
    SkipIsRecent
    UsesCache
