CONSTANTS
  Programs <- AllPrograms
  Inputs = {0, 1}
  MaxBreaks = 2
SPECIFICATION FairSpec
INVARIANTS
  TypeOK
  BreakpointsCoherent
  UserBreakpointsStay
  CopiesFresh
  FinishLeaves
  NextStepsOver
PROPERTIES
  RunsAsAlone
  StopsAtBreakpoints
  CommandsEndFaultFree
CHECK_DEADLOCK FALSE
