SPECIFICATION Spec
CONSTANTS
  SignBit = 32
  HalfSize = 8
  HostHigh = 8
  NumAC = 2
  P = 1
  Base = 3
  Size = 3
  Operands = {0, 2}
  Sites = {1, 6}
  Amounts <- MCAmounts
  InitStore <- MCInitStore
INVARIANTS
  LimitKept
PROPERTY ImplementsBoundedStack
CHECK_DEADLOCK FALSE
