CONSTANTS
    Threads = {t1, t2}
    ImageIds = {i1}
    Lifetimes = {permanent}
    ContribLists = {empty, c1}
    KeywordLists = {k1}
    EmptyList = empty
    None = None
    Requests <- MCRequests
    ValidAge = 0
    MaxTime = 1
SPECIFICATION MCFairSpec
PROPERTIES
    ImplementsService
    NothingIsTriedAgain
    EveryRequestIsAnswered
