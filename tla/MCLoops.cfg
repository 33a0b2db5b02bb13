SPECIFICATION Spec
CONSTANTS
  SignBit = 32
  HalfSize = 8
  HostHigh = 8
  NumAC = 4
  InitCases <- MCInitCases
INVARIANTS
  BLTCopies
  AOBJNCounts
PROPERTIES
  EAIsEndOfChain
  LoopsEnd
CHECK_DEADLOCK FALSE
