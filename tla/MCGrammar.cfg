SPECIFICATION CompileAndLink
CONSTANTS
  Programs <- ShortPrograms
  Parts <- MCParts
  CallStackBytes = 40
  ByteSize = 2
  WordBits = 8
  SyscallResults = {0}
  ReadCall = 0
  Inputs = {}
  ExitCall = 60
  ArgCount <- MCArgCount
  MaxStack = 16
INVARIANT
  TypeOK
  BlocksInStep
  BlockLabelsOnce
  JumpsLand
  FunctionsFramed
  CallsLand
  OneUnit
  FailedFileIsEmpty
CHECK_DEADLOCK FALSE
