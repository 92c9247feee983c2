SPECIFICATION Spec
CONSTANTS
  Files <- MCFiles
  Heights = {1}
INVARIANT
  StringIsItsBytes
CHECK_DEADLOCK FALSE
