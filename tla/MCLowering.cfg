SPECIFICATION Spec
CONSTANTS
    NumLocals = 2
    NumParams = 1
    MaxHeight = 3
    MaxLabels = 1
    Sigs <- MCSigs
    Value <- MCValue
    Zero = 0
    Unary <- MCUnary
    Binary <- MCBinary
INVARIANTS TypeOK Simulation NoStaleMark
PROPERTY JoinsClean
