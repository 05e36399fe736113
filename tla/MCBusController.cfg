SPECIFICATION FairSpec
CONSTANTS
    REFTICKS = 141
    RefStart = 132
INVARIANTS
    TypeOK
    OneDevice
PROPERTIES
    RowBeforeColumn
    CycleServed
    CpuNeverStalls
