SPECIFICATION Spec
CONSTANTS
  H = 8
  Reg <- MCReg
  PageBits = 3
  MaxPages = 2
  InitialPages = {0, 1, 2}
  Data <- MCData
  Bases <- MCBases
  Offsets = {0, 3, 255}
  Widths = {1, 2, 4, 8}
  Values = {58937}
  Deltas = {0, 1, 2, 255}
  MaxOps = 2
INVARIANTS LimitsMatch
PROPERTY ImplementsWasmMemory
CHECK_DEADLOCK FALSE
