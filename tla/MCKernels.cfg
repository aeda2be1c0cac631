CONSTANTS
    P = 31
    LutLimit = 16
    LazyWidth = 2
    XLEN = 4
    ChunkLen = 2
    Jobs <- MCJobs
SPECIFICATION Spec
INVARIANTS
    ClaimIsSum
    RoundsAreSums
    OpeningsAreFinal
    DerivedAreFinal
CHECK_DEADLOCK FALSE
