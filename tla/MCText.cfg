SPECIFICATION Spec
CONSTANTS
  Files <- MCFiles
  Heights = {1, 2, 3}
INVARIANTS
  LiteralsMean
  EndedFileIsReadWithin
  StringsAssemble
  CurrentWordStandsOut
  CurrentLineVisible
  AllIsShown
CHECK_DEADLOCK FALSE
