SPECIFICATION Spec
CONSTANTS
    Block <- MCBlock
    NumInsts = 24
    Const <- MCConst
    Functions <- MCFunctions
    MaxEdits = 2
INVARIANTS WellFormed EditsNeverPanic NoCriticalEdges SameBehaviour
CHECK_DEADLOCK FALSE
