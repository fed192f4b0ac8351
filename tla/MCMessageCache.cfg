CONSTANTS
    ImageIds = {i1, i2}
    Data = {d1, d2}
    ValidAge = 1
    MaxTime = 4
    MaxAdds = 3
SPECIFICATION MCSpec
SYMMETRY Symmetry
INVARIANTS
    TypeOK
    Remembered
    NoEmptyLists
    InAdditionOrder
    PurgeForgets
