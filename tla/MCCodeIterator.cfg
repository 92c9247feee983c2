SPECIFICATION Spec
CONSTANTS
  main = main
  a = a
  b = b
  Upper = Upper
  Paths <- MCPaths
  Root = main
  Lower <- MCLower
  FileSystems <- MCFileSystems
INVARIANTS
  TypeOK
  EachWordOnce
  LocDeclared
PROPERTIES
  IsTextualInclusion
  Terminates
CHECK_DEADLOCK FALSE
