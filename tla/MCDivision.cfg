SPECIFICATION Spec
CONSTANTS
  Programs <- NegativeDivision
  Parts <- MCParts
  CallStackBytes = 40
  ByteSize = 2
  WordBits = 8
  SyscallResults = {7, 255}
  ReadCall = 0
  Inputs <- MCInputs
  ExitCall = 60
  ArgCount <- MCArgCount
  MaxStack = 16
PROPERTY
  CompiledProgramIsProgram
CHECK_DEADLOCK FALSE
