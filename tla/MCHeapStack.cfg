SPECIFICATION Spec
CONSTANTS
    H = 6
    HeapStart = 512
    HeapSize = 57344
    TopBit = 32768
    NULL = NULL
    Requests = {0, 12000, 24000, 65530}
    MaxBlocks = 3
INVARIANTS StacksApart AllBytesReturned
CHECK_DEADLOCK FALSE
