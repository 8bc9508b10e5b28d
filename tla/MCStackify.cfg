SPECIFICATION Spec
CONSTANTS
  MaxActions = 4
  Cases <- MCCases
INVARIANTS PlanHolds SpillsKept
PROPERTIES Implements
CHECK_DEADLOCK FALSE
