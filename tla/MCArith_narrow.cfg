SPECIFICATION Spec
CONSTANTS
  H = 4
  Reg <- MCReg
  Samples32 <- MCHalf
  Samples64 <- MCNone
  Operators <- MCUnsigned
  AnyAdvice <- MCAdvisers
  Few <- MCFew
INVARIANT AdvicePinned
CHECK_DEADLOCK FALSE
