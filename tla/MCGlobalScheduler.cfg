CONSTANTS
    Functions <- SmallFunctions
    Threshold = 60
    Budget = 2
SPECIFICATION Spec
INVARIANTS
    PassIsLegalMotion
    DDGIsFresh
PROPERTIES
    IsCodeMotion
    OnlyTraceChanges
    Termination
CHECK_DEADLOCK FALSE
