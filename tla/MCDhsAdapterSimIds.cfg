CONSTANTS
    Threads = {t1, t2}
    ImageIds <- MCImageIds
    Lifetimes = {}
    ContribLists = {}
    KeywordLists = {good}
    EmptyList = empty
    None = None
    MAX_IMAGE_ID = 4
    Calendar <- MCCalendar
    WellTyped = {good}
    MaxLatches = 3
    SetIds <- FirstId
SPECIFICATION MCSpec
SYMMETRY Symmetry
INVARIANTS
    UniqueIds
