CONSTANTS
    Threads = {t1, t2}
    ImageIds = {i1}
    Lifetimes = {}
    ContribLists = {empty}
    KeywordLists = {empty, k1}
    EmptyList = empty
    None = None
    Requests <- KeywordsRequests
    ValidAge = 1
    MaxTime = 0
    MaxRecords = 2
SPECIFICATION MCSpec
SYMMETRY Symmetry
INVARIANT FinalIsDelivered
