SPECIFICATION Spec
CONSTANTS
  H = 4
  Reg <- MCReg
  Samples32 <- MCHalf
  Samples64 <- MCEdges
  Operators <- MCAll
  AnyAdvice <- MCProvers
  Few <- MCFew
INVARIANTS ResultIsWasm TrapIsWasm WideAdvicePinned
CHECK_DEADLOCK FALSE
