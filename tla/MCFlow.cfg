SPECIFICATION Spec
CONSTANTS
    Block <- MCBlock
    Real <- MCReal
    Reversals <- MCReversals
    DummyEntry = 4
    DummyExit = 5
    NoBlock = NoBlock
    Graphs <- MCGraphs
INVARIANTS DominanceExact ControlDependence LoopsExact SccsExact
PROPERTIES Terminates
CHECK_DEADLOCK FALSE
