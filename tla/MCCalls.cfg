SPECIFICATION Spec
CONSTANTS
    Modules <- MCModules
    MaxDepth = 4
INVARIANTS RecursionSound ReturnsSound MemorySound
CHECK_DEADLOCK FALSE
