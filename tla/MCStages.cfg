CONSTANTS
    Zero = Zero
    Configs <- Shapes
    VcCapacity = 4
SPECIFICATION Spec
INVARIANTS
    PointsMeet
    AcceptedClaimsTrue
    SidesAgree
    StatementsAgree
CHECK_DEADLOCK FALSE
