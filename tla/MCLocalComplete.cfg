CONSTANT Functions <- LoopFunctions
SPECIFICATION Spec
INVARIANT LocalScheduleComplete
CHECK_DEADLOCK FALSE
