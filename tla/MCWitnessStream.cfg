SPECIFICATION CommitSpec
CONSTANTS
    Traces <- MCTraces
    Padding = "pad"
    MaxCycles = 8
    MaxChunk = 5
    Consumers = 3
    Bad = "bad"
    P = 101
    Jobs <- MCJobs
    Facts <- MCFacts
    Coordinates <- MCCoordinates
    Gammas = {3}
    Cold = 31
    MinRange = 4
    Threads = 1
INVARIANTS ColumnsCommitted OpeningsAccepted
PROPERTIES ImplementsWindows PassEnds
CHECK_DEADLOCK FALSE
