SPECIFICATION LibrarySpec
CONSTANTS
  Programs <- MCPrograms
  Tests <- MCTests
  Parts <- MCParts
  CallStackBytes = 40
  ByteSize = 256
  WordBits = 12
  SyscallResults = {0, 4095}
  ExitCall = 60
  ReadCall = 0
  WriteCall = 1
  Inputs <- MCInputs
  ArgCount <- MCArgCount
  MaxStack = 24
INVARIANT
  WritesAsExpected
PROPERTIES
  CallerMemoryStays
  EndsInOrder
CHECK_DEADLOCK FALSE
