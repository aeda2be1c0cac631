CONSTANTS
    P = 101
    Sizes = {1, 2, 3, 4, 5}
    Coordinates = {2, 5}
    Draws = {0, 3}
    Columns <- ColumnsOf
    XLEN = 16
    ChunkLen = 4
    PhaseDraws <- MCPhaseDraws
    Operands <- MCOperands
SPECIFICATION Spec
INVARIANTS
    RoundsFold
    FormsAgree
    InterpolationHolds
    RowsFold
    LookupsHold
CHECK_DEADLOCK FALSE
