SPECIFICATION Spec
CONSTANTS
  Word <- MCWord
  pcHistorySize = 3
  MaxCount = 4
  Ops = {5, 6}
  Program <- MCProgram
  Lines <- MCLines
  InitBPs <- MCInitBPs
INVARIANTS
  PromptShowsNext
PROPERTIES
  LogSpec
  PermissionSpec
  BreaksArePrompted
  EndsInPrompt
CHECK_DEADLOCK FALSE
