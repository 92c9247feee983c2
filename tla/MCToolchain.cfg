SPECIFICATION Spec
CONSTANTS
  Programs <- WellFormedPrograms
  Parts <- MCParts
  CallStackBytes = 40
  ByteSize = 2
  WordBits = 8
  SyscallResults = {7, 255}
  ReadCall = 0
  Inputs <- MCInputs
  ExitCall = 60
  ArgCount <- MCArgCount
  MaxStack = 16
INVARIANT
  WellFormedIsAccepted
PROPERTIES
  CompiledProgramIsProgram
  WordsCalculate
CHECK_DEADLOCK FALSE
