SPECIFICATION Spec
CONSTANTS
  SignBit = 8
  HalfSize = 4
  HostHigh = 4
  WordLength = 4
  NumAC = 2
  Fields <- MCFields
  ShiftCounts <- MCShiftCounts
  InitStores <- MCInitStores
  InitFlags <- MCInitFlags
PROPERTY MULIsProduct
CHECK_DEADLOCK FALSE
