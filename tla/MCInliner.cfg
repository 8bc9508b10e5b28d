SPECIFICATION Spec
CONSTANTS
    Modules <- MCModules
    Configs <- MCConfigs
    MaxIters = 3
    MaxDepth = 5
INVARIANTS MeaningKept UsersKept CacheFresh
CHECK_DEADLOCK FALSE
