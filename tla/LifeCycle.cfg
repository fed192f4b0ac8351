CONSTANTS
    Threads = {t1, t2}
    MaxObjects = 6
    None = None
SPECIFICATION FairSpec
CHECK_DEADLOCK FALSE
INVARIANTS
    TypeOK
    UndisturbedAreServed
    NothingLeftOver
    ConnectedOverLibrary
    LibraryStops
PROPERTIES
    RemovalEnds
