SPECIFICATION Spec
CONSTANTS
  Letters = {"a", "b"}
  Sessions <- MCSessions
  OutSize = 3
  InSize = 2
  Columns = 3
INVARIANTS
  TypeOK
  OutputShown
PROPERTIES
  DisplayInOrder
  TypingInOrder
  InputInOrder
  WaitEnds
CHECK_DEADLOCK FALSE
