SPECIFICATION Spec
CONSTANTS
    Configs <- MCConfigs
    Passes = 2
    Frames = {0, 1, 2}
    MaxStates = 2
    MayHang = FALSE
    MayFail = TRUE
    MayExpire = TRUE
INVARIANTS
    ResultIsReference
    NothingOutlivesItsReaders
    
    
PROPERTIES
    RunEnds
CHECK_DEADLOCK FALSE
