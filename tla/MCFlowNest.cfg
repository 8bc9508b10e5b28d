SPECIFICATION Spec
CONSTANTS
    Block <- MCBlock
    Real <- MCReal
    Reversals = {}
    DummyEntry = 4
    DummyExit = 5
    NoBlock = NoBlock
    Graphs <- NestGraphs
INVARIANT BlocksMappedToInnermost
CHECK_DEADLOCK FALSE
