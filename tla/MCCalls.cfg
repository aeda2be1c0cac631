SPECIFICATION Spec
CONSTANTS
    Fn = {"start", "main", "add"}
    NoFn = "null"
    Stub = "stub"
    Types <- MCTypes
    TypeIndex <- MCTypeIndex
    Declared <- MCDeclared
    TableSlots = 2
    Table <- MCTable
    Start = "start"
    Export = "main"
    Inputs <- MCInputs
    MaxFrame = 3
    Value <- MCValue
    StackWords = 5
    GuardWords = 1
    GlobalWords = 2
    MaxResults = 1
INVARIANTS GlobalsUntouched
PROPERTIES IndirectChecked ImplementsCallStack
CHECK_DEADLOCK FALSE
