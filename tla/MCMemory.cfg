SPECIFICATION Spec
CONSTANTS
    Programs <- MCPrograms
    CostModels <- MCCostModels
    MaxDepth = 4
    MaxRounds = 6
    MaxJumps = 6
INVARIANTS SpillsSurvive ObjectsSurvive FramesUnwind PlanVerifies
CHECK_DEADLOCK FALSE
