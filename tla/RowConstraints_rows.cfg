SPECIFICATION Spec
CONSTANTS
    W = 2
    CodeLength = 3
    P = 17
    Mapped = {1, 2}
CHECK_DEADLOCK FALSE
INVARIANTS WitnessIsStep HonestRowsHold CheckRecordRestates
