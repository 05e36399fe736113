SPECIFICATION FarSpec
CONSTANTS
    H = 1
    Regions <- MCRegions
    SizeMax = 7
    Word = 2
    NULL = NULL
    Requests = {0, 1, 3, 7}
    Arrays <- MCArrays
INVARIANTS Tiling Ordered RefusesOnlyWhenFull Accounting NoDataLeft
PROPERTY KeepsPromise
CHECK_DEADLOCK FALSE
