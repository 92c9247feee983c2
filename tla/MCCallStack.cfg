SPECIFICATION Spec
CONSTANTS
  Programs <- DeepCalls
  Parts <- MCParts
  CallStackBytes = 24
  ByteSize = 2
  WordBits = 8
  SyscallResults = {7, 255}
  ReadCall = 0
  Inputs <- MCInputs
  ExitCall = 60
  ArgCount <- MCArgCount
  MaxStack = 16
PROPERTY
  OnlySetWrites
CHECK_DEADLOCK FALSE
