SPECIFICATION Spec
CONSTANTS
  main = main
  a = a
  b = b
  Upper = Upper
  Paths <- MCPaths
  Root = main
  Lower <- MCLower
  FileSystems <- MCFileSystems
INVARIANT
  FileTableConsistent
CHECK_DEADLOCK FALSE
