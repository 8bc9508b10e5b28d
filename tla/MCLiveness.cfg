SPECIFICATION Spec
CONSTANTS
    Block <- MCBlock
    Value <- MCValue
    NoValue = "none"
    Functions <- MCFunctions
    Reusing <- ReuseFunctions
    MaxRuns = 2
INVARIANTS LiveExact CallsLiveExact
CHECK_DEADLOCK FALSE
