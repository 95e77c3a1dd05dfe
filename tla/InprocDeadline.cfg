SPECIFICATION Spec
CONSTANTS
    Configs <- ShimConfigs
    Passes = 1
    Frames = {0, 1, 2}
    MaxStates = 2
    MayHang = TRUE
    MayFail = FALSE
    MayExpire = TRUE
PROPERTIES
    DeadlineBounds
CHECK_DEADLOCK FALSE
