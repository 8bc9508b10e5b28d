CONSTANTS
  Block = {b1, b2, b3}
  Inst = {i1, i2, i3}
  None = None
SPECIFICATION HSpec
INVARIANTS Represents CursorValid RemovalEmpties
PROPERTIES AbstractSpec
