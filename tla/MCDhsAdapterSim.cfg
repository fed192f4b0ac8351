CONSTANTS
    Threads = {t1, t2}
    ImageIds <- MCImageIds
    Lifetimes = {}
    ContribLists = {empty}
    KeywordLists = {good, bad}
    EmptyList = empty
    None = None
    MAX_IMAGE_ID = 3
    Calendar <- MCCalendar
    WellTyped = {good}
    MaxLatches = 4
    SetIds <- FirstId
SPECIFICATION MCSpec
SYMMETRY Symmetry
INVARIANTS
    SimTypeOK
    NoEarlyReuse
    SuccessIsDone
PROPERTIES
    ImplementsInterface
