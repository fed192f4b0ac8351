CONSTANTS
    Threads = {t1, t2}
    ImageIds = {i1, i2}
    Lifetimes = {permanent}
    ContribLists = {empty, c1}
    KeywordLists = {k1}
    EmptyList = empty
    None = None
    Requests <- ImageRequests
    ValidAge = 1
    MaxTime = 0
    MaxRecords = 1
SPECIFICATION MCSpec
SYMMETRY Symmetry
INVARIANTS
    SuccessIsApplied
