CONSTANTS
    Threads = {t1, t2}
    ImageIds = {i1}
    Lifetimes = {permanent}
    ContribLists = {empty, c1}
    KeywordLists = {empty, k1}
    EmptyList = empty
    None = None
SPECIFICATION DhsSpec
SYMMETRY Symmetry
INVARIANTS
    DhsTypeOK
    HasConnection
    SuccessIsDone
    MutualExclusion
    OneConnection
PROPERTY ImplementsInterface
