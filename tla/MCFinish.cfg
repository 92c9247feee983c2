CONSTANTS
  Programs <- Recursive
  Inputs = {0, 1, 2}
  MaxBreaks = 1
SPECIFICATION Spec
INVARIANT FinishStepsOut
CHECK_DEADLOCK FALSE
