CONSTANT Functions <- LoopFunctions
SPECIFICATION Spec
INVARIANT ScheduleIsUnblockedPart
PROPERTIES
    RegionsAllOrNothing
    IsCodeMotion
CHECK_DEADLOCK FALSE
