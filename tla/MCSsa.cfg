CONSTANTS
  Var = {"x", "y"}
  Program <- MCProgram
  MaxInsts = 17
SPECIFICATION MFairSpec
INVARIANTS ValuesAgree UsersExact ConstructionSound
PROPERTIES CallsReturn
CHECK_DEADLOCK FALSE
